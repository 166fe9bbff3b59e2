----------------------------- MODULE Generator -----------------------------
(***************************************************************************)
(* Generator<T> (core/generator.hpp): a coroutine that its iterator        *)
(* resumes for every value.  The iterator and the Generator hold the same  *)
(* handle; the promise holds a pointer to the value that was yielded, in   *)
(* the frame or, for an rvalue, in the promise.                            *)
(***************************************************************************)
EXTENDS Integers, Sequences

CONSTANT Length  (* the longest sequence a body yields                      *)

ASSUME LengthAssumption == Length \in Nat

VARIABLES
  length,        (* how many values the body yields: 1, 2, ...              *)
  gframe,        (* "new", "yielded", "done" or "freed"                     *)
  current_value_,(* the value pointed to, 0 when there is none              *)
  owner,         (* which of two Generators has the handle_, 0 for none     *)
  iterator,      (* whether the iterator has a handle                       *)
  seen,          (* history: what *it gave                                  *)
  begins         (* history: calls of begin()                               *)

generatorVars == <<length, gframe, current_value_, owner, iterator, seen, begins>>

GeneratorInit ==
  /\ length \in 0 .. Length /\ gframe = "new" /\ current_value_ = 0
  /\ owner = 1 /\ iterator = FALSE /\ seen = <<>> /\ begins = 0

(* handle_.resume(), up to yield_value() or final_suspend *)
ResumeBody ==
  IF current_value_ < length
  THEN gframe' = "yielded" /\ current_value_' = current_value_ + 1
  ELSE gframe' = "done" /\ UNCHANGED current_value_

(* begin() of the Generator that has the handle; the other one's is end(). *)
Begin ==
  /\ owner # 0 /\ begins < 2 /\ begins' = begins + 1
  /\ \/ gframe # "done" /\ ResumeBody
     \/ gframe = "done" /\ UNCHANGED <<gframe, current_value_>>
  /\ iterator' = (gframe' # "done")
  /\ UNCHANGED <<length, owner, seen>>

(* ++it *)
Increment ==
  /\ iterator /\ owner # 0
  /\ ResumeBody
  /\ iterator' = (gframe' # "done")
  /\ UNCHANGED <<length, owner, seen, begins>>

(* *it, which is read once a position *)
Dereference ==
  /\ iterator /\ owner # 0
  /\ \A i \in DOMAIN seen : seen[i] # current_value_
  /\ seen' = Append(seen, current_value_)
  /\ UNCHANGED <<length, gframe, current_value_, owner, iterator, begins>>

(* The move to the other Generator *)
MoveGenerator ==
  /\ owner = 1 /\ owner' = 2
  /\ UNCHANGED <<length, gframe, current_value_, iterator, seen, begins>>

(* ~Generator(), or an assignment to it; iterators must not be used then. *)
DestroyGenerator ==
  /\ owner # 0 /\ owner' = 0 /\ gframe' = "freed"
  /\ UNCHANGED <<length, current_value_, iterator, seen, begins>>

GeneratorNext ==
  Begin \/ Increment \/ Dereference \/ MoveGenerator \/ DestroyGenerator

-----------------------------------------------------------------------------
(* A loop that reads at every position sees each value once and in order;   *)
(* an iterator with a handle stands at a value, and never at the end.       *)
IteratedInOrder ==
  /\ \A i, j \in DOMAIN seen : i < j => seen[i] < seen[j]
  /\ iterator /\ owner # 0 => gframe = "yielded" /\ current_value_ \in 1 .. length
  /\ gframe = "done" => current_value_ = length

=============================================================================
