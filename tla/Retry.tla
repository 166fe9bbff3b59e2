------------------------------- MODULE Retry -------------------------------
(***************************************************************************)
(* RetryBuilder::Execute() (core/retry.hpp): attempts with sleeps between  *)
(* them.  The delay is kept in a long and multiplied as a double, without  *)
(* a cap; only the copy that is slept is capped.  A cast that does not fit *)
(* is undefined: processors give the smallest long or the nearest one.     *)
(***************************************************************************)
EXTENDS Integers, Sequences

CONSTANTS
  Policies,      (* the policies: max_attempts, initial_delay, multiplier   *)
                 (* (a double, in halves), max_delay, jitter, and           *)
                 (* should_retry as the set of the errors it accepts        *)
  Outcomes,      (* what an attempt may end with: "ok", an error, or        *)
                 (* "zero", an error_code that tests as false               *)
  MaxLong        (* the largest long                                        *)

ASSUME RetryAssumption ==
  /\ MaxLong \in Nat
  /\ \A p \in Policies :
       /\ p.max_attempts \in Nat /\ p.initial_delay \in 0 .. MaxLong
       /\ p.multiplier \in Nat /\ p.max_delay \in 0 .. MaxLong

VARIABLES
  policy_,
  rpc,           (* "attempt", "judge", "sleep" or "returned"               *)
  tries,         (* history: the outcomes of the attempts made              *)
  delay,
  slept,         (* history: the delays slept                               *)
  overflowed,    (* history: a cast did not fit                             *)
  answer         (* what Execute() returned                                 *)

retryVars == <<policy_, rpc, tries, delay, slept, overflowed, answer>>

RetryInit ==
  /\ policy_ \in Policies
  /\ rpc = "attempt" /\ tries = <<>> /\ delay = policy_.initial_delay
  /\ slept = <<>> /\ overflowed = FALSE /\ answer = "none"

Fits(x) == x \in -MaxLong .. MaxLong
Casts(x) ==
  IF Fits(x) THEN {x} ELSE {-MaxLong - 1, IF x > 0 THEN MaxLong ELSE -MaxLong - 1}

Last_(s) == s[Len(s)]

Attempt ==
  /\ rpc = "attempt"
  /\ \/ /\ Len(tries) < policy_.max_attempts
        /\ \E o \in Outcomes : tries' = Append(tries, o)
        /\ rpc' = "judge" /\ UNCHANGED answer
     \/ /\ Len(tries) = policy_.max_attempts        (* no attempt at all *)
        /\ answer' = "RetryExhausted" /\ rpc' = "returned" /\ UNCHANGED tries
  /\ UNCHANGED <<policy_, delay, slept, overflowed>>

Judge ==
  LET o == Last_(tries)
      should == Len(tries) < policy_.max_attempts /\ o \in policy_.retryable
  IN /\ rpc = "judge"
     /\ \/ o = "ok" /\ answer' = "ok" /\ rpc' = "returned"
        \/ o # "ok" /\ should /\ rpc' = "sleep" /\ UNCHANGED answer
        \/ /\ o # "ok" /\ ~should
           /\ answer' = IF o = "zero" THEN "RetryExhausted" ELSE o
           /\ rpc' = "returned"
     /\ UNCHANGED <<policy_, tries, delay, slept, overflowed>>

(* Half of x: the cast drops the fraction, towards zero. *)
Half(x) == IF x >= 0 THEN x \div 2 ELSE -((-x) \div 2)

(* delay times 0.5 to 1.5 *)
Jittered == IF policy_.jitter THEN {Half(delay), delay, Half(delay * 3)} ELSE {delay}

(* delay times backoff_multiplier *)
Increased == Half(delay * policy_.multiplier)

Bug_SleepAndBackOff ==  (* the cap is applied before the jitter *)
  LET capped == IF delay > policy_.max_delay THEN policy_.max_delay ELSE delay IN
  /\ rpc = "sleep" /\ rpc' = "attempt"
  /\ \E d \in {Half(capped), capped, Half(capped * 3)} :
       /\ \E a \in Casts(d) : slept' = Append(slept, a)
       /\ overflowed' = (overflowed \/ ~Fits(d) \/ ~Fits(Increased))
  /\ delay' \in Casts(Increased)
  /\ UNCHANGED <<policy_, tries, answer>>

(* co_await AsyncSleep(actual_delay), and the next delay *)
SleepAndBackOff ==
  /\ rpc = "sleep" /\ rpc' = "attempt"
  /\ \E d \in Jittered :
       /\ \E a \in Casts(d) :
            slept' = Append(slept, IF a > policy_.max_delay THEN policy_.max_delay ELSE a)
       /\ overflowed' = (overflowed \/ ~Fits(d) \/ ~Fits(Increased))
  /\ delay' \in Casts(Increased)
  /\ UNCHANGED <<policy_, tries, answer>>

RetryNext == Attempt \/ Judge \/ SleepAndBackOff

-----------------------------------------------------------------------------
(* Only retryable errors are retried, no success is, and Execute() returns  *)
(* what the last attempt said.  It slept between the attempts and there     *)
(* only, never longer than max_delay and, unless the delay grew past a      *)
(* long before, never a negative time.                                      *)
RetriedRightly ==
  /\ \A i \in 1 .. Len(tries) : i > 1 => tries[i - 1] \in policy_.retryable \ {"ok"}
  /\ rpc = "returned" =>
       /\ tries = <<>> => answer = "RetryExhausted" /\ policy_.max_attempts = 0
       /\ tries # <<>> =>
            /\ answer = IF Last_(tries) = "zero" THEN "RetryExhausted" ELSE Last_(tries)
            /\ \/ Len(tries) = policy_.max_attempts
               \/ Last_(tries) = "ok" \/ Last_(tries) \notin policy_.retryable
       /\ Len(slept) = IF tries = <<>> THEN 0 ELSE Len(tries) - 1
  /\ \A i \in DOMAIN slept :
       slept[i] <= policy_.max_delay /\ (slept[i] >= 0 \/ overflowed)

=============================================================================
