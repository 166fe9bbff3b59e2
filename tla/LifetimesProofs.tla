--------------------------- MODULE LifetimesProofs ---------------------------
(***************************************************************************)
(* Frames, completions, cancellations, retries and generators, for every   *)
(* number of threads, blocks, callbacks, clients, attempts and values.     *)
(* Each program has an inductive invariant of its own; a step of one       *)
(* leaves the others' variables alone.                                     *)
(***************************************************************************)
EXTENDS Lifetimes, FiniteSetTheorems, TLAPS

-----------------------------------------------------------------------------
(* Retry                                                                    *)

(* There is one sleep for each attempt but the one that is being judged,    *)
(* and an attempt follows only an error that may be retried.                *)
RetryInv ==
  /\ policy_ \in Policies
  /\ rpc \in {"attempt", "judge", "sleep", "returned"}
  /\ tries \in Seq(Outcomes) /\ slept \in Seq(Int) /\ delay \in Int /\ overflowed \in BOOLEAN
  /\ delay >= 0 \/ overflowed
  /\ rpc = "attempt" =>
       /\ Len(slept) = Len(tries)
       /\ tries # <<>> => /\ Len(tries) < policy_.max_attempts
                          /\ Last_(tries) \in policy_.retryable \ {"ok"}
  /\ rpc \in {"judge", "sleep"} =>
       /\ tries # <<>> /\ Len(tries) <= policy_.max_attempts
       /\ Len(slept) = Len(tries) - 1
  /\ rpc = "sleep" => /\ Len(tries) < policy_.max_attempts
                      /\ Last_(tries) \in policy_.retryable \ {"ok"}
  /\ RetriedRightly

(* Before the first attempt nothing was tried and nothing slept.            *)
LEMMA RetryInitInv == RetryInit => RetryInv
  <1> SUFFICES ASSUME RetryInit PROVE RetryInv
    OBVIOUS
  <1>1. policy_.initial_delay \in Int /\ policy_.initial_delay >= 0
    BY RetryAssumption DEF RetryInit
  <1>2. /\ tries = <<>> /\ slept = <<>> /\ rpc = "attempt" /\ Len(<<>>) = 0
        /\ DOMAIN <<>> = {} /\ 1 .. 0 = {}
    BY DEF RetryInit
  <1>3. RetriedRightly
    BY <1>2 DEF RetriedRightly
  <1>4. tries \in Seq(Outcomes) /\ slept \in Seq(Int)
    BY <1>2
  <1>5. overflowed \in BOOLEAN
    BY DEF RetryInit
  <1> QED
    BY <1>1, <1>2, <1>3, <1>4, <1>5 DEF RetryInit, RetryInv

(* An attempt that may be made adds its outcome; without one left Execute() *)
(* ends.                                                                    *)
LEMMA AttemptInv ==
  ASSUME RetryInv, Attempt
  PROVE  RetryInv'
  <1> USE DEF RetryInv, Attempt
  <1>1. policy_.max_attempts \in Nat
    BY RetryAssumption
  <1>2. CASE Len(tries) < policy_.max_attempts /\ rpc' = "judge"
    <2> PICK o \in Outcomes : tries' = Append(tries, o)
      BY <1>2
    <2>1. /\ tries' \in Seq(Outcomes) /\ Len(tries') = Len(tries) + 1 /\ tries' # <<>>
          /\ \A i \in 1 .. Len(tries) : tries'[i] = tries[i]
      OBVIOUS
    <2>2. tries # <<>> => tries[Len(tries)] \in policy_.retryable \ {"ok"}
      BY <1>2 DEF Last_
    <2>3. \A i \in 1 .. Len(tries') : i > 1 => tries'[i - 1] \in policy_.retryable \ {"ok"}
      <3> SUFFICES ASSUME NEW i \in 1 .. Len(tries'), i > 1
                   PROVE  tries'[i - 1] \in policy_.retryable \ {"ok"}
        OBVIOUS
      <3>1. CASE i = Len(tries')
        BY <2>1, <2>2, <3>1
      <3>2. CASE i # Len(tries')
        <4>1. i \in 1 .. Len(tries) /\ i - 1 \in 1 .. Len(tries)
          BY <2>1, <3>2
        <4> QED
          BY <4>1, <2>1 DEF RetriedRightly
      <3> QED
        BY <3>1, <3>2
    <2>4. RetriedRightly'
      BY <1>2, <2>3 DEF RetriedRightly
    <2> QED
      BY <1>1, <1>2, <2>1, <2>4
  <1>3. CASE Len(tries) = policy_.max_attempts /\ rpc' = "returned"
    <2>1. tries = <<>> /\ Len(slept) = 0 /\ policy_.max_attempts = 0
      BY <1>1, <1>3
    <2>2. RetriedRightly'
      BY <1>3, <2>1 DEF RetriedRightly
    <2> QED
      BY <1>3, <2>1, <2>2
  <1> QED
    BY <1>2, <1>3

(* What Execute() does with an outcome: return it, or sleep if it may be    *)
(* retried and another attempt is left.                                     *)
LEMMA JudgeInv ==
  ASSUME RetryInv, Judge
  PROVE  RetryInv'
  <1> USE DEF RetryInv, Judge
  <1>1. policy_.max_attempts \in Nat
    BY RetryAssumption
  <1>2. RetriedRightly'
    BY <1>1 DEF RetriedRightly, Last_
  <1> QED
    BY <1>1, <1>2 DEF Last_

(* A cast that fits changes nothing, so only one that does not makes a      *)
(* negative number of another.                                              *)
LEMMA CastSound ==
  ASSUME NEW x \in Int, NEW a \in Casts(x)
  PROVE  a \in Int /\ (Fits(x) /\ x >= 0 => a >= 0)
  BY RetryAssumption DEF Casts, Fits

(* Half of a number has its sign. *)
LEMMA HalfSound ==
  ASSUME NEW x \in Int
  PROVE  Half(x) \in Int /\ (x >= 0 => Half(x) >= 0)
  BY DEF Half

(* Sleeping and backing off: what is slept is within max_delay, and the next*)
(* delay is negative only when the product has overflowed.                  *)
LEMMA SleepInv ==
  ASSUME RetryInv, SleepAndBackOff
  PROVE  RetryInv'
  <1> USE DEF RetryInv, SleepAndBackOff
  <1>1. /\ policy_.max_attempts \in Nat /\ policy_.multiplier \in Nat
        /\ policy_.max_delay \in Nat
    BY RetryAssumption
  <1> DEFINE next == Increased
  <1>2. next \in Int /\ (delay >= 0 => next >= 0)
    <2>1. /\ delay * policy_.multiplier \in Int
          /\ delay >= 0 => delay * policy_.multiplier >= 0
      BY <1>1
    <2> QED
      BY <2>1, HalfSound DEF Increased
  <1>3. PICK d \in Jittered :
          /\ \E a \in Casts(d) :
               slept' = Append(slept, IF a > policy_.max_delay THEN policy_.max_delay ELSE a)
          /\ overflowed' = (overflowed \/ ~Fits(d) \/ ~Fits(next))
    OBVIOUS
  <1> HIDE DEF next
  <1>4. d \in Int /\ (delay >= 0 => d >= 0)
    <2>1. /\ delay \in Int /\ delay * 3 \in Int
          /\ delay >= 0 => delay * 3 >= 0
      OBVIOUS
    <2>2. /\ Half(delay) \in Int /\ (delay >= 0 => Half(delay) >= 0)
          /\ Half(delay * 3) \in Int /\ (delay * 3 >= 0 => Half(delay * 3) >= 0)
      BY <2>1, HalfSound
    <2> QED
      BY <2>1, <2>2 DEF Jittered
  <1>5. PICK a \in Casts(d) :
          slept' = Append(slept, IF a > policy_.max_delay THEN policy_.max_delay ELSE a)
    BY <1>3
  <1> DEFINE s == IF a > policy_.max_delay THEN policy_.max_delay ELSE a
  <1>6. a \in Int /\ (Fits(d) /\ d >= 0 => a >= 0)
    BY <1>4, CastSound
  <1>a. overflowed' \in BOOLEAN /\ (overflowed' <=> overflowed \/ ~Fits(d) \/ ~Fits(next))
    BY <1>3
  <1>7. s \in Int /\ s <= policy_.max_delay /\ (s >= 0 \/ overflowed')
    BY <1>1, <1>4, <1>6, <1>a
  <1>8. delay' \in Int /\ (delay' >= 0 \/ overflowed')
    <2>1. delay' \in Casts(next)
      BY DEF next
    <2>2. delay' \in Int /\ (Fits(next) /\ next >= 0 => delay' >= 0)
      BY <2>1, <1>2, CastSound
    <2> QED
      BY <1>2, <1>a, <2>2
  <1> HIDE DEF s
  <1>9. /\ slept' \in Seq(Int) /\ Len(slept') = Len(slept) + 1
        /\ DOMAIN slept' = DOMAIN slept \union {Len(slept) + 1}
        /\ \A i \in DOMAIN slept : slept'[i] = slept[i]
        /\ slept'[Len(slept) + 1] = s
    <2>1. slept' = Append(slept, s)
      BY <1>5 DEF s
    <2> QED
      BY <2>1, <1>7
  <1>10. \A i \in DOMAIN slept' :
           slept'[i] <= policy_.max_delay /\ (slept'[i] >= 0 \/ overflowed')
    BY <1>7, <1>9, <1>a DEF RetriedRightly
  <1>11. RetriedRightly'
    BY <1>10 DEF RetriedRightly
  <1> QED
    BY <1>a, <1>8, <1>9, <1>11 DEF Last_

(* Every step of a retry.                                                   *)
LEMMA RetryNextInv ==
  ASSUME RetryInv, [RetryNext]_retryVars
  PROVE  RetryInv'
  <1>1. CASE Attempt
    BY <1>1, AttemptInv
  <1>2. CASE Judge
    BY <1>2, JudgeInv
  <1>3. CASE SleepAndBackOff
    BY <1>3, SleepInv
  <1>4. CASE UNCHANGED retryVars
    BY <1>4 DEF retryVars, RetryInv, RetriedRightly, Last_
  <1> QED
    BY <1>1, <1>2, <1>3, <1>4 DEF RetryNext

-----------------------------------------------------------------------------
(* Generator                                                                *)

(* What was seen was seen before the body went on. *)
GeneratorInv ==
  /\ length \in Nat /\ current_value_ \in 0 .. length /\ owner \in {0, 1, 2}
  /\ iterator \in BOOLEAN /\ seen \in Seq(Nat) /\ begins \in Nat
  /\ gframe \in {"new", "yielded", "done", "freed"}
  /\ owner = 0 <=> gframe = "freed"
  /\ gframe = "yielded" => current_value_ # 0
  /\ \A i \in DOMAIN seen : seen[i] <= current_value_
  /\ IteratedInOrder

(* A generator that has not run stands before its values.                   *)
LEMMA GeneratorInitInv == GeneratorInit => GeneratorInv
  <1> SUFFICES ASSUME GeneratorInit PROVE GeneratorInv
    OBVIOUS
  <1>1. length \in Nat
    BY LengthAssumption DEF GeneratorInit
  <1>2. seen = <<>> /\ seen \in Seq(Nat) /\ DOMAIN seen = {}
    BY DEF GeneratorInit
  <1>3. IteratedInOrder
    BY <1>2 DEF GeneratorInit, IteratedInOrder
  <1>4. iterator \in BOOLEAN
    BY DEF GeneratorInit
  <1> QED
    BY <1>1, <1>2, <1>3, <1>4 DEF GeneratorInit, GeneratorInv

(* Every step of a generator or of the loop over it.                        *)
LEMMA GeneratorNextInv ==
  ASSUME GeneratorInv, [GeneratorNext]_generatorVars
  PROVE  GeneratorInv'
  <1> USE DEF GeneratorInv
  <1>1. CASE Begin
    <2>1. current_value_' \in 0 .. length /\ current_value_' >= current_value_
      BY <1>1 DEF Begin, ResumeBody
    <2>2. gframe' \in {"yielded", "done"}
      BY <1>1 DEF Begin, ResumeBody
    <2>3. iterator' \in BOOLEAN /\ (iterator' <=> gframe' # "done")
      BY <1>1 DEF Begin
    <2>4. gframe' = "yielded" => current_value_' # 0
      BY <1>1, <2>1 DEF Begin, ResumeBody
    <2>5. gframe' = "done" => current_value_' = length
      BY <1>1 DEF Begin, ResumeBody, IteratedInOrder
    <2> QED
      BY <1>1, <2>1, <2>2, <2>3, <2>4, <2>5 DEF Begin, IteratedInOrder
  <1>2. CASE Increment
    <2>1. current_value_' \in 0 .. length /\ current_value_' >= current_value_
      BY <1>2 DEF Increment, ResumeBody
    <2>2. gframe' \in {"yielded", "done"}
      BY <1>2 DEF Increment, ResumeBody
    <2>3. iterator' \in BOOLEAN /\ (iterator' <=> gframe' # "done")
      BY <1>2 DEF Increment
    <2>4. gframe' = "yielded" => current_value_' # 0
      BY <1>2, <2>1 DEF Increment, ResumeBody
    <2>5. gframe' = "done" => current_value_' = length
      BY <1>2 DEF Increment, ResumeBody
    <2> QED
      BY <1>2, <2>1, <2>2, <2>3, <2>4, <2>5 DEF Increment, IteratedInOrder
  <1>3. CASE Dereference
    <2>1. /\ seen' \in Seq(Nat) /\ DOMAIN seen' = DOMAIN seen \union {Len(seen) + 1}
          /\ \A i \in DOMAIN seen : seen'[i] = seen[i] /\ i < Len(seen) + 1
          /\ seen'[Len(seen) + 1] = current_value_
      BY <1>3 DEF Dereference
    <2>2. \A i \in DOMAIN seen : seen[i] \in Nat /\ seen[i] < current_value_
      BY <1>3 DEF Dereference
    <2>3. \A i, j \in DOMAIN seen' : i < j => seen'[i] < seen'[j]
      <3> SUFFICES ASSUME NEW i \in DOMAIN seen', NEW j \in DOMAIN seen', i < j
                   PROVE  seen'[i] < seen'[j]
        OBVIOUS
      <3>1. i \in DOMAIN seen
        BY <2>1
      <3>2. CASE j \in DOMAIN seen
        BY <2>1, <3>1, <3>2 DEF IteratedInOrder
      <3>3. CASE j = Len(seen) + 1
        BY <2>1, <2>2, <3>1, <3>3
      <3> QED
        BY <2>1, <3>2, <3>3
    <2>4. \A i \in DOMAIN seen' : seen'[i] <= current_value_
      BY <2>1, <2>2
    <2> QED
      BY <1>3, <2>1, <2>3, <2>4 DEF Dereference, IteratedInOrder
  <1>4. CASE MoveGenerator
    BY <1>4 DEF MoveGenerator, IteratedInOrder
  <1>5. CASE DestroyGenerator
    BY <1>5 DEF DestroyGenerator, IteratedInOrder
  <1>6. CASE UNCHANGED generatorVars
    BY <1>6 DEF generatorVars, IteratedInOrder
  <1> QED
    BY <1>1, <1>2, <1>3, <1>4, <1>5, <1>6 DEF GeneratorNext

-----------------------------------------------------------------------------
(* Cancellation                                                             *)

(* Whether l's callback is registered, or in the hands of Cancel() *)
Listed(l) == \E i \in DOMAIN callbacks_ : callbacks_[i].client = l
InHand(l) == \E x \in Canceller : \E i \in DOMAIN to_call[x] : to_call[x][i] = l

Taking == {"take", "take (bridge)"}
Calling == {"call", "call (bridge)"}

CancelTypes ==
  /\ cancelled_ \in BOOLEAN
  /\ callbacks_ \in Seq([client : Client, handle : Nat \ {0}])
  /\ next_handle_ \in Nat \ {0}
  /\ cpc \in [Canceller \union Client ->
                Taking \union Calling \union {"idle", "done", "invoke", "held", "released"}]
  /\ to_call \in [Canceller -> Seq(Client)]
  /\ handle \in [Client -> Nat] /\ calls \in [Client -> Nat] /\ hopeless \subseteq Client

(* A handle names one registration, and a client has one. *)
HandlesUnique ==
  /\ \A i \in DOMAIN callbacks_ : callbacks_[i].handle = handle[callbacks_[i].client]
  /\ \A i, j \in DOMAIN callbacks_ : callbacks_[i].client = callbacks_[j].client => i = j
  /\ \A l \in Client : handle[l] < next_handle_
  /\ \A l, m \in Client : handle[l] = handle[m] /\ handle[l] # 0 => l = m

TakenOnce ==
  \A x, y \in Canceller : \A i \in DOMAIN to_call[x], j \in DOMAIN to_call[y] :
    to_call[x][i] = to_call[y][j] => x = y /\ i = j

(* A callback not yet called is registered, or taken, and not both; after   *)
(* the flag was set, who set it takes what is registered.                   *)
Uncalled ==
  /\ \A l \in Client :
       /\ Listed(l) => cpc[l] = "held" /\ calls[l] = 0 /\ ~InHand(l)
       /\ InHand(l) => /\ cpc[l] \in {"held", "released"} /\ calls[l] = 0
                       /\ cancelled_ /\ l \notin hopeless
       /\ cpc[l] = "held" /\ calls[l] = 0 => Listed(l) \/ InHand(l)
       /\ cpc[l] \in {"idle", "invoke"} => calls[l] = 0 /\ l \notin hopeless
       /\ cpc[l] = "invoke" => cancelled_
       /\ calls[l] <= 1 /\ (calls[l] = 1 => cancelled_)
       /\ l \in hopeless => cpc[l] = "released" /\ calls[l] = 0
  /\ \A x \in Canceller :
       /\ to_call[x] # <<>> => cpc[x] \in Calling
       /\ cpc[x] \in Taking \union Calling => cancelled_
  /\ callbacks_ # <<>> /\ cancelled_ => \E x \in Canceller : cpc[x] \in Taking

CancelInv == CancelTypes /\ HandlesUnique /\ TakenOnce /\ Uncalled

(* Nothing is registered to begin with.                                     *)
LEMMA CancelInitInv == CancelInit => CancelInv
  <1> SUFFICES ASSUME CancelInit PROVE CancelInv
    OBVIOUS
  <1>1. DOMAIN <<>> = {} /\ <<>> \in Seq(Client)
        /\ <<>> \in Seq([client : Client, handle : Nat \ {0}])
    OBVIOUS
  <1>2. cancelled_ \in BOOLEAN
    BY DEF CancelInit
  <1>3. CancelTypes
    BY <1>1, <1>2 DEF CancelInit, CancelTypes
  <1>4. HandlesUnique
    BY <1>1 DEF CancelInit, HandlesUnique
  <1>5. TakenOnce
    BY <1>1 DEF CancelInit, TakenOnce
  <1>6. \A l \in Client : ~Listed(l) /\ ~InHand(l)
    BY <1>1 DEF CancelInit, Listed, InHand
  <1>7. Uncalled
    BY <1>6, CancellationAssumption DEF CancelInit, Uncalled, Taking, Calling
  <1> QED
    BY <1>3, <1>4, <1>5, <1>7 DEF CancelInv

(* The flag is set, by the thread that will take what is registered. *)
LEMMA ExchangeInv ==
  ASSUME CancelInv, NEW x \in Canceller, NEW label \in Taking,
         cpc[x] = "idle", Exchange(x, label),
         UNCHANGED <<callbacks_, next_handle_, to_call, handle, calls, hopeless>>
  PROVE  CancelInv'
  <1> USE DEF CancelInv
  <1>1. \A l \in Client : cpc'[l] = cpc[l]
    BY CancellationAssumption DEF Exchange, CancelTypes
  <1>a. cancelled_' \in BOOLEAN
    BY DEF Exchange
  <1>b. cpc' \in [Canceller \union Client ->
                 Taking \union Calling \union {"idle", "done", "invoke", "held", "released"}]
    BY DEF Exchange, CancelTypes
  <1>c. CancelTypes'
    BY <1>a, <1>b DEF CancelTypes
  <1>d. HandlesUnique' /\ TakenOnce'
    BY DEF HandlesUnique, TakenOnce
  <1>2. CancelTypes' /\ HandlesUnique' /\ TakenOnce'
    BY <1>c, <1>d
  <1>3. \A l \in Client : (Listed(l)' <=> Listed(l)) /\ (InHand(l)' <=> InHand(l))
    BY DEF Listed, InHand
  <1>4. cancelled_' /\ to_call[x] = <<>> /\ cpc[x] \notin Taking
    BY DEF Exchange, Uncalled, Taking, Calling
  <1>5. \A y \in Canceller : y # x => cpc'[y] = cpc[y]
    BY DEF Exchange, CancelTypes
  <1>6. callbacks_' # <<>> => \E y \in Canceller : cpc'[y] \in Taking
    <2>1. CASE cancelled_
      BY <1>4, <1>5, <2>1 DEF Uncalled
    <2>2. CASE ~cancelled_
      <3>1. cpc'[x] = label
        BY <2>2 DEF Exchange, CancelTypes
      <3> QED
        BY <3>1
    <2> QED
      BY <2>1, <2>2
  <1>7. Uncalled'
    BY <1>1, <1>3, <1>4, <1>5, <1>6 DEF Uncalled
  <1> QED
    BY <1>2, <1>7

(* A thread that takes and calls nothing ends, or has ended. *)
LEMMA CancelFrame ==
  ASSUME CancelInv,
         UNCHANGED <<cancelled_, callbacks_, next_handle_, to_call, handle, calls, hopeless>>,
         \/ UNCHANGED cpc
         \/ \E x \in Canceller : /\ cpc[x] \notin Taking /\ to_call[x] = <<>>
                                 /\ cpc' = [cpc EXCEPT ![x] = "done"]
  PROVE  CancelInv'
  <1> USE DEF CancelInv
  <1>1. \A l \in Client : cpc'[l] = cpc[l]
    BY CancellationAssumption DEF CancelTypes
  <1>a. cpc' \in [Canceller \union Client ->
                 Taking \union Calling \union {"idle", "done", "invoke", "held", "released"}]
    BY DEF CancelTypes
  <1>b. CancelTypes'
    BY <1>a DEF CancelTypes
  <1>c. HandlesUnique' /\ TakenOnce'
    BY DEF HandlesUnique, TakenOnce
  <1>2. CancelTypes' /\ HandlesUnique' /\ TakenOnce'
    BY <1>b, <1>c
  <1>3. \A l \in Client : (Listed(l)' <=> Listed(l)) /\ (InHand(l)' <=> InHand(l))
    BY DEF Listed, InHand
  <1>4. \A y \in Canceller : /\ cpc[y] \in Taking => cpc'[y] = cpc[y]
                             /\ cpc'[y] = cpc[y] \/ (cpc'[y] = "done" /\ to_call[y] = <<>>)
    BY DEF CancelTypes
  <1>5. Uncalled'
    BY <1>1, <1>3, <1>4 DEF Uncalled, Taking, Calling
  <1> QED
    BY <1>2, <1>5

(* The clients of the callbacks that Cancel() moves out *)
LEMMA TakenSound ==
  ASSUME CancelTypes
  PROVE  /\ Taken \in Seq(Client) /\ DOMAIN Taken = DOMAIN callbacks_
         /\ \A i \in DOMAIN callbacks_ : Taken[i] = callbacks_[i].client /\ Taken[i] \in Client
  <1> DEFINE E == [client : Client, handle : Nat \ {0}]
  <1>1. callbacks_ \in Seq(E)
    BY DEF CancelTypes
  <1>0. \A e \in E : e.client \in Client
    OBVIOUS
  <1> HIDE DEF E
  <1>2. DOMAIN callbacks_ = 1 .. Len(callbacks_) /\ Len(callbacks_) \in Nat
    BY <1>1
  <1>3. \A i \in DOMAIN callbacks_ : callbacks_[i].client \in Client
    BY <1>0, <1>1
  <1>4. DOMAIN Taken = DOMAIN callbacks_
    BY DEF Taken
  <1>5. \A i \in DOMAIN callbacks_ : Taken[i] = callbacks_[i].client
    BY DEF Taken
  <1>6. Taken \in [1 .. Len(callbacks_) -> Client]
    BY <1>2, <1>3 DEF Taken
  <1>7. Taken \in Seq(Client)
    BY <1>2, <1>6
  <1> QED
    BY <1>3, <1>4, <1>5, <1>7

(* The Cancel() that won moves every registered callback into its own hands,*)
(* under the mutex.                                                         *)
LEMMA TakeCallbacksInv ==
  ASSUME CancelInv, NEW x \in Canceller, TakeCallbacks(x)
  PROVE  CancelInv'
  <1> USE DEF CancelInv
  <1> DEFINE taken == Taken
  <1>2. /\ taken \in Seq(Client) /\ DOMAIN taken = DOMAIN callbacks_
        /\ \A i \in DOMAIN callbacks_ : taken[i] = callbacks_[i].client /\ taken[i] \in Client
    BY TakenSound
  <1>0. /\ cpc[x] \in Taking /\ to_call' = [to_call EXCEPT ![x] = taken] /\ callbacks_' = <<>>
        /\ \E label \in Calling : cpc' = [cpc EXCEPT ![x] = label]
        /\ UNCHANGED <<cancelled_, next_handle_, handle, calls, hopeless>>
    BY DEF TakeCallbacks, Taking, Calling
  <1> HIDE DEF taken
  <1>6. /\ to_call'[x] = taken /\ to_call[x] = <<>>
        /\ \A y \in Canceller : y # x => to_call'[y] = to_call[y] /\ cpc'[y] = cpc[y]
        /\ cpc'[x] \in Calling
        /\ \A l \in Client : cpc'[l] = cpc[l]
    BY <1>0, CancellationAssumption DEF CancelTypes, Uncalled, Taking, Calling
  <1>3. CancelTypes'
    <2>1. to_call' \in [Canceller -> Seq(Client)]
      BY <1>0, <1>2 DEF CancelTypes
    <2>2. cpc' \in [Canceller \union Client ->
                 Taking \union Calling \union {"idle", "done", "invoke", "held", "released"}]
      BY <1>0 DEF CancelTypes
    <2>3. callbacks_' \in Seq([client : Client, handle : Nat \ {0}])
      BY <1>0
    <2> QED
      BY <1>0, <2>1, <2>2, <2>3 DEF CancelTypes
  <1>4. DOMAIN callbacks_' = {}
    BY <1>0
  <1>5. HandlesUnique'
    BY <1>0, <1>4 DEF HandlesUnique, CancelTypes
  <1>8. \A l \in Client : Listed(l)' <=> FALSE
    BY <1>4 DEF Listed
  <1>9. \A l \in Client : InHand(l)' <=> InHand(l) \/ Listed(l)
    <2> SUFFICES ASSUME NEW l \in Client
                 PROVE  InHand(l)' <=> InHand(l) \/ Listed(l)
      OBVIOUS
    <2>1. (\E i \in DOMAIN to_call'[x] : to_call'[x][i] = l) <=> Listed(l)
      BY <1>2, <1>6 DEF Listed
    <2>2. DOMAIN to_call[x] = {}
      BY <1>6
    <2>3. InHand(l) <=> \E y \in Canceller : y # x /\ \E i \in DOMAIN to_call[y] : to_call[y][i] = l
      BY <2>2 DEF InHand
    <2>4. InHand(l)' <=> \/ \E i \in DOMAIN to_call'[x] : to_call'[x][i] = l
                         \/ \E y \in Canceller : y # x /\ \E i \in DOMAIN to_call[y] : to_call[y][i] = l
      BY <1>6 DEF InHand
    <2> QED
      BY <2>1, <2>3, <2>4
  <1>10. TakenOnce'
    <2> SUFFICES ASSUME NEW y \in Canceller, NEW z \in Canceller,
                        NEW i \in DOMAIN to_call'[y], NEW j \in DOMAIN to_call'[z],
                        to_call'[y][i] = to_call'[z][j]
                 PROVE  y = z /\ i = j
      BY DEF TakenOnce
    <2>1. CASE y = x /\ z = x
      BY <2>1, <1>2, <1>6 DEF HandlesUnique
    <2>2. CASE y # x /\ z # x
      BY <2>2, <1>6 DEF TakenOnce
    <2>3. ASSUME NEW v \in Canceller, v # x, NEW k \in DOMAIN to_call'[x],
                 NEW n \in DOMAIN to_call'[v], to_call'[x][k] = to_call'[v][n]
          PROVE  FALSE
      <3>1. Listed(taken[k]) /\ taken[k] \in Client
        BY <2>3, <1>2, <1>6 DEF Listed
      <3>2. InHand(taken[k])
        BY <2>3, <1>6 DEF InHand
      <3> QED
        BY <3>1, <3>2 DEF Uncalled
    <2> QED
      BY <2>1, <2>2, <2>3
  <1>11. \A l \in Client : Listed(l) => l \notin hopeless
    BY DEF Uncalled
  <1>12. cancelled_
    BY <1>0 DEF Uncalled
  <1>13. Uncalled'
    BY <1>0, <1>6, <1>8, <1>9, <1>11, <1>12 DEF Uncalled
  <1> QED
    BY <1>3, <1>5, <1>10, <1>13

(* It calls the first of them, which is then in nobody's hands.             *)
LEMMA CallNextInv ==
  ASSUME CancelInv, NEW x \in Canceller, CallNext(x)
  PROVE  CancelInv'
  <1> USE DEF CancelInv
  <1>1. CASE to_call[x] = <<>>
    <2>1. cpc' = [cpc EXCEPT ![x] = "done"] /\ UNCHANGED <<calls, to_call>>
      BY <1>1 DEF CallNext
    <2> QED
      BY <1>1, <2>1, CancelFrame DEF CallNext, Taking
  <1>2. CASE to_call[x] # <<>>
    <2>0. to_call[x] \in Seq(Client)
      BY DEF CancelTypes
    <2> PICK c \in Client : c = Head(to_call[x])
      BY <1>2, <2>0
    <2> DEFINE rest == Tail(to_call[x])
    <2>1. /\ calls' = [calls EXCEPT ![c] = @ + 1]
          /\ to_call' = [to_call EXCEPT ![x] = rest]
          /\ UNCHANGED <<cancelled_, callbacks_, next_handle_, cpc, handle, hopeless>>
      BY <1>2 DEF CallNext
    <2>3. /\ c \in Client /\ 1 \in DOMAIN to_call[x] /\ to_call[x][1] = c
          /\ rest \in Seq(Client)
          /\ \A i \in DOMAIN rest :
               i + 1 \in DOMAIN to_call[x] /\ rest[i] = to_call[x][i + 1]
          /\ \A i \in DOMAIN to_call[x] : i # 1 => i - 1 \in DOMAIN rest
          /\ \A i \in DOMAIN to_call[x] : i \in Int
          /\ \A i \in DOMAIN rest : i \in Nat \ {0}
      BY <1>2, <2>0
    <2> HIDE DEF rest
    <2>4. /\ to_call'[x] = rest
          /\ \A y \in Canceller : y # x => to_call'[y] = to_call[y]
          /\ calls'[c] = calls[c] + 1
          /\ \A l \in Client : l # c => calls'[l] = calls[l]
      BY <2>1, <2>3 DEF CancelTypes
    <2>5. CancelTypes'
      <3>1. to_call' \in [Canceller -> Seq(Client)]
        BY <2>1, <2>3 DEF CancelTypes
      <3>2. calls' \in [Client -> Nat]
        BY <2>1 DEF CancelTypes
      <3> QED
        BY <2>1, <3>1, <3>2 DEF CancelTypes
    <2>6. HandlesUnique'
      BY <2>1 DEF HandlesUnique
    <2> DEFINE was(y, i) == IF y = x THEN i + 1 ELSE i
    <2>7. ASSUME NEW y \in Canceller, NEW i \in DOMAIN to_call'[y]
          PROVE  /\ was(y, i) \in DOMAIN to_call[y] /\ to_call[y][was(y, i)] = to_call'[y][i]
                 /\ y = x => was(y, i) # 1 /\ i = was(y, i) - 1
                 /\ y # x => was(y, i) = i
      <3>1. CASE y = x
        BY <2>3, <2>4, <2>7, <3>1
      <3>2. CASE y # x
        BY <2>4, <2>7, <3>2
      <3> QED
        BY <3>1, <3>2
    <2> HIDE DEF was
    <2>8. TakenOnce'
      <3> SUFFICES ASSUME NEW y \in Canceller, NEW z \in Canceller,
                          NEW i \in DOMAIN to_call'[y], NEW j \in DOMAIN to_call'[z],
                          to_call'[y][i] = to_call'[z][j]
                   PROVE  y = z /\ i = j
        BY DEF TakenOnce
      <3>1. y = z
        BY <2>7 DEF TakenOnce
      <3>2. CASE y = x
        BY <3>1, <3>2, <2>7 DEF TakenOnce
      <3>3. CASE y # x
        BY <3>1, <3>3, <2>7 DEF TakenOnce
      <3> QED
        BY <3>1, <3>2, <3>3
    <2>9. InHand(c) /\ (InHand(c)' <=> FALSE)
      <3>1. InHand(c)
        BY <2>3 DEF InHand
      <3>2. ASSUME NEW y \in Canceller, NEW i \in DOMAIN to_call'[y], to_call'[y][i] = c
            PROVE  FALSE
        BY <2>3, <2>7, <3>2 DEF TakenOnce
      <3> QED
        BY <3>1, <3>2 DEF InHand
    <2>10. \A l \in Client : l # c => (InHand(l)' <=> InHand(l))
      <3> SUFFICES ASSUME NEW l \in Client, l # c PROVE InHand(l)' <=> InHand(l)
        OBVIOUS
      <3>1. ASSUME NEW y \in Canceller, NEW i \in DOMAIN to_call'[y], to_call'[y][i] = l
            PROVE  \E j \in DOMAIN to_call[y] : to_call[y][j] = l
        BY <2>7, <3>1
      <3>2. ASSUME NEW y \in Canceller, NEW i \in DOMAIN to_call[y], to_call[y][i] = l
            PROVE  \E j \in DOMAIN to_call'[y] : to_call'[y][j] = l
        <4>1. CASE y = x
          <5>1. i # 1 /\ i - 1 \in DOMAIN to_call'[y]
            BY <3>2, <4>1, <2>3, <2>4
          <5>2. to_call'[y][i - 1] = to_call[x][(i - 1) + 1] /\ (i - 1) + 1 = i
            BY <4>1, <5>1, <2>3, <2>4
          <5> QED
            BY <3>2, <4>1, <5>1, <5>2
        <4> QED
          BY <3>2, <4>1, <2>4
      <3> QED
        BY <3>1, <3>2 DEF InHand
    <2>11. \A l \in Client : Listed(l)' <=> Listed(l)
      BY <2>1 DEF Listed
    <2>12. cpc[x] \in Calling
      BY <1>2 DEF Uncalled
    <2>13. calls[c] = 0 /\ ~Listed(c) /\ cancelled_ /\ c \notin hopeless
           /\ cpc[c] \in {"held", "released"}
      BY <2>3, <2>9 DEF Uncalled
    <2>14. \A l \in Client :
             /\ Listed(l)' => cpc'[l] = "held" /\ calls'[l] = 0 /\ ~InHand(l)'
             /\ InHand(l)' => /\ cpc'[l] \in {"held", "released"} /\ calls'[l] = 0
                              /\ cancelled_' /\ l \notin hopeless'
             /\ cpc'[l] = "held" /\ calls'[l] = 0 => Listed(l)' \/ InHand(l)'
             /\ cpc'[l] \in {"idle", "invoke"} => calls'[l] = 0 /\ l \notin hopeless'
             /\ cpc'[l] = "invoke" => cancelled_'
             /\ calls'[l] <= 1 /\ (calls'[l] = 1 => cancelled_')
             /\ l \in hopeless' => cpc'[l] = "released" /\ calls'[l] = 0
      <3> SUFFICES ASSUME NEW l \in Client
                   PROVE  /\ Listed(l)' => cpc'[l] = "held" /\ calls'[l] = 0 /\ ~InHand(l)'
                          /\ InHand(l)' => /\ cpc'[l] \in {"held", "released"} /\ calls'[l] = 0
                                           /\ cancelled_' /\ l \notin hopeless'
                          /\ cpc'[l] = "held" /\ calls'[l] = 0 => Listed(l)' \/ InHand(l)'
                          /\ cpc'[l] \in {"idle", "invoke"} => calls'[l] = 0 /\ l \notin hopeless'
                          /\ cpc'[l] = "invoke" => cancelled_'
                          /\ calls'[l] <= 1 /\ (calls'[l] = 1 => cancelled_')
                          /\ l \in hopeless' => cpc'[l] = "released" /\ calls'[l] = 0
        OBVIOUS
      <3>1. CASE l = c
        <4>1. calls'[l] = 1 /\ ~InHand(l)' /\ ~Listed(l)' /\ cancelled_' /\ l \notin hopeless'
              /\ cpc'[l] \in {"held", "released"}
          BY <3>1, <2>1, <2>4, <2>9, <2>11, <2>13
        <4> QED
          BY <4>1
      <3>2. CASE l # c
        BY <3>2, <2>1, <2>4, <2>10, <2>11 DEF Uncalled
      <3> QED
        BY <3>1, <3>2
    <2>15. \A y \in Canceller :
             /\ to_call'[y] # <<>> => cpc'[y] \in Calling
             /\ cpc'[y] \in Taking \union Calling => cancelled_'
      BY <2>1, <2>4, <2>12 DEF Uncalled
    <2>16. callbacks_' # <<>> /\ cancelled_' => \E y \in Canceller : cpc'[y] \in Taking
      BY <2>1 DEF Uncalled
    <2>17. Uncalled'
      BY <2>14, <2>15, <2>16 DEF Uncalled
    <2> QED
      BY <2>5, <2>6, <2>8, <2>17
  <1> QED
    BY <1>1, <1>2

(* A registration gets a handle that no other has, or finds the state       *)
(* cancelled and is called at once.                                         *)
LEMMA RegisterCallbackInv ==
  ASSUME CancelInv, NEW l \in Client, RegisterCallback(l)
  PROVE  CancelInv'
  <1> USE DEF CancelInv
  <1>1. /\ cpc[l] = "idle" /\ calls[l] = 0 /\ l \notin hopeless /\ ~Listed(l) /\ ~InHand(l)
    BY DEF RegisterCallback, Uncalled
  <1>2. UNCHANGED <<cancelled_, to_call, calls, hopeless>>
    BY DEF RegisterCallback
  <1>3. \A m \in Client : InHand(m)' <=> InHand(m)
    BY <1>2 DEF InHand
  <1>4. TakenOnce'
    BY <1>2 DEF TakenOnce
  <1>5. CASE cancelled_
    <2>1. UNCHANGED <<callbacks_, handle, next_handle_>> /\ cpc' = [cpc EXCEPT ![l] = "invoke"]
      BY <1>5 DEF RegisterCallback
    <2>2. /\ cpc'[l] = "invoke" /\ \A m \in Client : m # l => cpc'[m] = cpc[m]
          /\ \A x \in Canceller : cpc'[x] = cpc[x]
      BY <2>1, CancellationAssumption DEF CancelTypes
    <2>3. cpc' \in [Canceller \union Client ->
                 Taking \union Calling \union {"idle", "done", "invoke", "held", "released"}]
      BY <2>1 DEF CancelTypes
    <2>4. CancelTypes' /\ HandlesUnique'
      BY <1>2, <2>1, <2>3 DEF CancelTypes, HandlesUnique
    <2>5. \A m \in Client : Listed(m)' <=> Listed(m)
      BY <2>1 DEF Listed
    <2>6. Uncalled'
      BY <1>1, <1>2, <1>3, <1>5, <2>1, <2>2, <2>5 DEF Uncalled
    <2> QED
      BY <1>4, <2>4, <2>6
  <1>6. CASE ~cancelled_
    <2> DEFINE e == [client |-> l, handle |-> next_handle_]
               E == [client : Client, handle : Nat \ {0}]
    <2>1. /\ callbacks_' = Append(callbacks_, e) /\ handle' = [handle EXCEPT ![l] = next_handle_]
          /\ next_handle_' = next_handle_ + 1 /\ cpc' = [cpc EXCEPT ![l] = "held"]
      BY <1>6 DEF RegisterCallback
    <2>2. /\ cpc'[l] = "held" /\ \A m \in Client : m # l => cpc'[m] = cpc[m]
          /\ \A x \in Canceller : cpc'[x] = cpc[x]
          /\ handle'[l] = next_handle_ /\ \A m \in Client : m # l => handle'[m] = handle[m]
      BY <2>1, CancellationAssumption DEF CancelTypes
    <2>3. e \in E /\ e.client = l /\ e.handle = next_handle_ /\ callbacks_ \in Seq(E)
      BY DEF CancelTypes
    <2>a. \A f \in E : f.client \in Client
      OBVIOUS
    <2> HIDE DEF e, E
    <2>4. /\ callbacks_' \in Seq(E)
          /\ DOMAIN callbacks_' = DOMAIN callbacks_ \union {Len(callbacks_) + 1}
          /\ Len(callbacks_) + 1 \notin DOMAIN callbacks_
          /\ \A i \in DOMAIN callbacks_ : callbacks_'[i] = callbacks_[i]
          /\ callbacks_'[Len(callbacks_) + 1] = e
      BY <2>1, <2>3
    <2>b. \A i \in DOMAIN callbacks_ : callbacks_[i].client \in Client /\ callbacks_[i].client # l
      BY <1>1, <2>3, <2>a DEF Listed
    <2>5. CancelTypes'
      <3>1. cpc' \in [Canceller \union Client ->
                 Taking \union Calling \union {"idle", "done", "invoke", "held", "released"}]
        BY <2>1 DEF CancelTypes
      <3>2. handle' \in [Client -> Nat] /\ next_handle_' \in Nat \ {0}
        BY <2>1 DEF CancelTypes
      <3>3. callbacks_' \in Seq([client : Client, handle : Nat \ {0}])
        BY <2>4 DEF E
      <3> QED
        BY <1>2, <3>1, <3>2, <3>3 DEF CancelTypes
    <2>6. HandlesUnique'
      <3>1. \A i \in DOMAIN callbacks_' : callbacks_'[i].handle = handle'[callbacks_'[i].client]
        BY <2>2, <2>3, <2>4, <2>b DEF HandlesUnique
      <3>2. \A i, j \in DOMAIN callbacks_' :
              callbacks_'[i].client = callbacks_'[j].client => i = j
        BY <2>3, <2>4, <2>b DEF HandlesUnique
      <3>3. \A m \in Client : handle'[m] < next_handle_'
        BY <2>1, <2>2 DEF HandlesUnique, CancelTypes
      <3>a. \A m \in Client : handle[m] # next_handle_
        BY DEF HandlesUnique, CancelTypes
      <3>4. \A m, n \in Client : handle'[m] = handle'[n] /\ handle'[m] # 0 => m = n
        BY <2>2, <3>a DEF HandlesUnique
      <3> QED
        BY <3>1, <3>2, <3>3, <3>4 DEF HandlesUnique
    <2>7. \A m \in Client : Listed(m)' <=> Listed(m) \/ m = l
      BY <2>3, <2>4 DEF Listed
    <2>8. Uncalled'
      BY <1>1, <1>2, <1>3, <1>6, <2>2, <2>7 DEF Uncalled
    <2> QED
      BY <1>4, <2>5, <2>6, <2>8
  <1> QED
    BY <1>5, <1>6 DEF CancelTypes

(* A callback registered too late is called by its own thread, once.        *)
LEMMA InvokeAtOnceInv ==
  ASSUME CancelInv, NEW l \in Client, InvokeAtOnce(l)
  PROVE  CancelInv'
  <1> USE DEF CancelInv, InvokeAtOnce
  <1>1. /\ cpc'[l] = "held" /\ \A m \in Client : m # l => cpc'[m] = cpc[m] /\ calls'[m] = calls[m]
        /\ \A x \in Canceller : cpc'[x] = cpc[x]
        /\ calls'[l] = calls[l] + 1
    BY CancellationAssumption DEF CancelTypes
  <1>2. calls[l] = 0 /\ l \notin hopeless /\ cancelled_ /\ ~Listed(l) /\ ~InHand(l)
    BY DEF Uncalled
  <1>3. cpc' \in [Canceller \union Client ->
               Taking \union Calling \union {"idle", "done", "invoke", "held", "released"}]
    BY DEF CancelTypes
  <1>4. calls' \in [Client -> Nat]
    BY DEF CancelTypes
  <1>5. CancelTypes' /\ HandlesUnique' /\ TakenOnce'
    BY <1>3, <1>4 DEF CancelTypes, HandlesUnique, TakenOnce
  <1>6. \A m \in Client : (Listed(m)' <=> Listed(m)) /\ (InHand(m)' <=> InHand(m))
    BY DEF Listed, InHand
  <1>7. Uncalled'
    BY <1>1, <1>2, <1>6 DEF Uncalled
  <1> QED
    BY <1>5, <1>7

(* What is left when one element is erased *)
LEMMA RemoveAtSound ==
  ASSUME NEW S, NEW s \in Seq(S), NEW k \in DOMAIN s
  PROVE  /\ RemoveAt(s, k) \in Seq(S)
         /\ \A i \in DOMAIN RemoveAt(s, k) :
              \E j \in DOMAIN s \ {k} : RemoveAt(s, k)[i] = s[j] /\ j = IF i < k THEN i ELSE i + 1
         /\ \A j \in DOMAIN s \ {k} :
              \E i \in DOMAIN RemoveAt(s, k) : RemoveAt(s, k)[i] = s[j]
  <1> DEFINE a == SubSeq(s, 1, k - 1)
             b == SubSeq(s, k + 1, Len(s))
             r == RemoveAt(s, k)
  <1>1. k \in 1 .. Len(s) /\ Len(s) \in Nat /\ DOMAIN s = 1 .. Len(s)
    OBVIOUS
  <1>2. a \in Seq(S) /\ Len(a) = k - 1 /\ \A i \in 1 .. Len(a) : a[i] = s[i]
    BY <1>1
  <1>3. b \in Seq(S) /\ Len(b) = Len(s) - k /\ \A i \in 1 .. Len(b) : b[i] = s[i + k]
    BY <1>1
  <1>4. r = a \o b
    BY DEF RemoveAt
  <1> HIDE DEF a, b, r
  <1>a. /\ r \in Seq(S) /\ Len(r) = Len(a) + Len(b) /\ DOMAIN r = 1 .. Len(r)
        /\ \A i \in 1 .. (Len(a) + Len(b)) : r[i] = IF i <= Len(a) THEN a[i] ELSE b[i - Len(a)]
    <2>1. a \in Seq(S) /\ b \in Seq(S)
      BY <1>2, <1>3
    <2> QED
      BY <1>4, <2>1
  <1>5. /\ r \in Seq(S) /\ Len(r) = Len(s) - 1 /\ DOMAIN r = 1 .. Len(r)
        /\ \A i \in 1 .. Len(r) : r[i] = IF i <= Len(a) THEN a[i] ELSE b[i - Len(a)]
    <2>1. Len(a) + Len(b) = Len(s) - 1
      BY <1>1, <1>2, <1>3
    <2> QED
      BY <1>a, <2>1
  <1>6. ASSUME NEW i \in DOMAIN r
        PROVE  LET j == IF i < k THEN i ELSE i + 1
               IN  j \in DOMAIN s \ {k} /\ r[i] = s[j]
    <2>1. CASE i < k
      BY <1>1, <1>2, <1>5, <2>1
    <2>2. CASE i >= k
      <3>0. i \in 1 .. (Len(s) - 1) /\ k \in Int /\ Len(a) = k - 1 /\ Len(b) = Len(s) - k
        BY <1>1, <1>2, <1>3, <1>5
      <3>a. ~(i <= Len(a))
        BY <2>2, <3>0
      <3>1. i - (k - 1) \in 1 .. Len(b) /\ r[i] = b[i - (k - 1)]
        BY <1>1, <1>5, <2>2, <3>0, <3>a
      <3>2. (i - (k - 1)) + k = i + 1
        BY <1>1, <1>5, <1>6
      <3>3. b[i - (k - 1)] = s[(i - (k - 1)) + k]
        BY <1>3, <3>1
      <3> QED
        BY <1>1, <1>5, <2>2, <3>1, <3>2, <3>3
    <2> QED
      BY <1>1, <1>5, <2>1, <2>2
  <1>7. ASSUME NEW j \in DOMAIN s \ {k}
        PROVE  \E i \in DOMAIN r : r[i] = s[j]
    <2> DEFINE i == IF j < k THEN j ELSE j - 1
    <2>1. i \in DOMAIN r /\ j = IF i < k THEN i ELSE i + 1
      BY <1>1, <1>5
    <2> HIDE DEF i
    <2> QED
      BY <2>1, <1>6
  <1> QED
    BY <1>5, <1>6, <1>7 DEF r

(* Unregistering takes the one entry with this handle out, if it is still   *)
(* there.                                                                   *)
LEMMA UnregisterCallbackInv ==
  ASSUME CancelInv, NEW l \in Client, UnregisterCallback(l)
  PROVE  CancelInv'
  <1> USE DEF CancelInv
  <1> DEFINE E == [client : Client, handle : Nat \ {0}]
  <1>1. /\ cpc[l] = "held" /\ cpc' = [cpc EXCEPT ![l] = "released"]
        /\ callbacks_' = IF handle[l] = 0 THEN callbacks_ ELSE Erase(handle[l])
        /\ hopeless' = IF cancelled_ THEN hopeless ELSE hopeless \union {l}
        /\ UNCHANGED <<cancelled_, next_handle_, to_call, handle, calls>>
    BY DEF UnregisterCallback
  <1>2. /\ cpc'[l] = "released" /\ \A m \in Client : m # l => cpc'[m] = cpc[m]
        /\ \A x \in Canceller : cpc'[x] = cpc[x]
    BY <1>1, CancellationAssumption DEF CancelTypes
  <1>3. callbacks_ \in Seq(E)
    BY DEF CancelTypes
  <1>4. \A e \in E : e.client \in Client /\ e.handle \in Nat \ {0}
    OBVIOUS
  <1> HIDE DEF E
  <1>5. \A i \in DOMAIN callbacks_ :
          /\ callbacks_[i].client \in Client /\ callbacks_[i].handle # 0
          /\ callbacks_[i].handle = handle[l] <=> callbacks_[i].client = l
    <2>1. \A i \in DOMAIN callbacks_ : callbacks_[i] \in E
      BY <1>3
    <2> QED
      BY <1>4, <2>1 DEF HandlesUnique
  <1>6. /\ callbacks_' \in Seq(E)
        /\ \A i \in DOMAIN callbacks_' : \E j \in DOMAIN callbacks_ :
             callbacks_'[i] = callbacks_[j] /\ callbacks_[j].client # l
        /\ \A j \in DOMAIN callbacks_ : callbacks_[j].client # l =>
             \E i \in DOMAIN callbacks_' : callbacks_'[i] = callbacks_[j]
        /\ \A i, j \in DOMAIN callbacks_' :
             callbacks_'[i].client = callbacks_'[j].client => i = j
    <2> DEFINE found == {i \in DOMAIN callbacks_ : callbacks_[i].handle = handle[l]}
    <2>1. CASE handle[l] = 0 \/ found = {}
      <3>1. callbacks_' = callbacks_
        BY <1>1, <2>1 DEF Erase
      <3>2. \A j \in DOMAIN callbacks_ : callbacks_[j].client # l
        BY <1>5, <2>1
      <3> QED
        BY <1>3, <3>1, <3>2 DEF HandlesUnique
    <2>2. CASE handle[l] # 0 /\ found # {}
      <3> DEFINE k == CHOOSE i \in found : \A j \in found : i <= j
      <3>1. \A i \in found, j \in found : i = j
        BY <1>5 DEF HandlesUnique
      <3>2. \E i \in found : \A j \in found : i <= j
        <4>1. PICK i \in found : TRUE
          BY <2>2
        <4>2. i \in Int
          BY <1>3
        <4> QED
          BY <4>1, <4>2, <3>1
      <3>3. k \in found
        BY <3>2
      <3>4. callbacks_' = RemoveAt(callbacks_, k)
        BY <1>1, <2>2 DEF Erase
      <3> HIDE DEF k
      <3>5. k \in DOMAIN callbacks_ /\ callbacks_[k].client = l
        BY <1>5, <3>3
      <3>6. \A j \in DOMAIN callbacks_ : j # k <=> callbacks_[j].client # l
        BY <3>5 DEF HandlesUnique
      <3>7. /\ callbacks_' \in Seq(E)
            /\ \A i \in DOMAIN callbacks_' :
                 \E j \in DOMAIN callbacks_ \ {k} :
                   callbacks_'[i] = callbacks_[j] /\ j = IF i < k THEN i ELSE i + 1
            /\ \A j \in DOMAIN callbacks_ \ {k} :
                 \E i \in DOMAIN callbacks_' : callbacks_'[i] = callbacks_[j]
        BY <1>3, <3>4, <3>5, RemoveAtSound
      <3>8. ASSUME NEW i \in DOMAIN callbacks_', NEW j \in DOMAIN callbacks_',
                   callbacks_'[i].client = callbacks_'[j].client
            PROVE  i = j
        <4>1. (IF i < k THEN i ELSE i + 1) = (IF j < k THEN j ELSE j + 1)
          BY <3>7, <3>8 DEF HandlesUnique
        <4>a. callbacks_' \in Seq(E)
          BY <3>7
        <4>2. i \in Int /\ j \in Int /\ k \in Int
          BY <1>3, <3>5, <4>a
        <4> QED
          BY <4>1, <4>2
      <3> QED
        BY <3>6, <3>7, <3>8
    <2> QED
      BY <2>1, <2>2
  <1>7. CancelTypes'
    <2>1. cpc' \in [Canceller \union Client ->
               Taking \union Calling \union {"idle", "done", "invoke", "held", "released"}]
      BY <1>1 DEF CancelTypes
    <2>2. callbacks_' \in Seq([client : Client, handle : Nat \ {0}])
      BY <1>6 DEF E
    <2>3. hopeless' \subseteq Client
      BY <1>1 DEF CancelTypes
    <2> QED
      BY <1>1, <2>1, <2>2, <2>3 DEF CancelTypes
  <1>8. HandlesUnique'
    <2>1. \A i \in DOMAIN callbacks_' : callbacks_'[i].handle = handle'[callbacks_'[i].client]
      BY <1>1, <1>6 DEF HandlesUnique
    <2> QED
      BY <1>1, <1>6, <2>1 DEF HandlesUnique
  <1>9. TakenOnce'
    BY <1>1 DEF TakenOnce
  <1>10. \A m \in Client : InHand(m)' <=> InHand(m)
    BY <1>1 DEF InHand
  <1>11. \A m \in Client : Listed(m)' <=> Listed(m) /\ m # l
    BY <1>6 DEF Listed
  <1>12. callbacks_' # <<>> => callbacks_ # <<>>
    BY <1>3, <1>6
  <1>13. ~cancelled_ => calls[l] = 0 /\ ~InHand(l)
    BY DEF Uncalled, CancelTypes
  <1>14. Uncalled'
    BY <1>1, <1>2, <1>10, <1>11, <1>12, <1>13 DEF Uncalled
  <1> QED
    BY <1>7, <1>8, <1>9, <1>14

(* Every step of a cancelling thread or a client.                           *)
LEMMA CancelNextInv ==
  ASSUME CancelInv, [CancelNext]_cancelVars
  PROVE  CancelInv'
  <1>1. CASE DestroyBridge
    BY <1>1, CancelFrame DEF DestroyBridge
  <1>2. ASSUME NEW x \in Canceller, Cancel(x)
        PROVE  CancelInv'
    <2>1. "take" \in Taking
      BY DEF Taking
    <2> QED
      BY <1>2, <2>1, ExchangeInv DEF Cancel
  <1>3. ASSUME NEW x \in Canceller, RequestStop(x)
        PROVE  CancelInv'
    <2>1. "take (bridge)" \in Taking
      BY DEF Taking
    <2>2. CASE Exchange(x, "take (bridge)")
      BY <1>3, <2>1, <2>2, ExchangeInv DEF RequestStop
    <2>3. CASE cpc' = [cpc EXCEPT ![x] = "done"] /\ UNCHANGED cancelled_
      <3>1. cpc[x] \notin Taking /\ to_call[x] = <<>>
        BY <1>3 DEF RequestStop, CancelInv, Uncalled, Taking, Calling
      <3> QED
        BY <1>3, <2>3, <3>1, CancelFrame DEF RequestStop
    <2> QED
      BY <1>3, <2>2, <2>3 DEF RequestStop
  <1>4. ASSUME NEW x \in Canceller, CancelObliged(x)
        PROVE  CancelInv'
    BY <1>4, TakeCallbacksInv, CallNextInv DEF CancelObliged
  <1>5. ASSUME NEW l \in Client,
               RegisterCallback(l) \/ InvokeAtOnce(l) \/ UnregisterCallback(l)
        PROVE  CancelInv'
    BY <1>5, RegisterCallbackInv, InvokeAtOnceInv, UnregisterCallbackInv
  <1>6. CASE UNCHANGED cancelVars
    BY <1>6, CancelFrame DEF cancelVars
  <1> QED
    BY <1>1, <1>2, <1>3, <1>4, <1>5, <1>6 DEF CancelNext

(* The invariant says that no callback is called twice or missed.           *)
LEMMA CancelSound == CancelInv => CancelledOnce
  <1> SUFFICES ASSUME CancelInv PROVE CancelledOnce
    OBVIOUS
  <1>1. ASSUME cancelled_, \A x \in Canceller : cpc[x] \in {"idle", "done"},
               NEW l \in Client, cpc[l] = "held"
        PROVE  calls[l] = 1
    <2>1. callbacks_ = <<>> /\ \A x \in Canceller : to_call[x] = <<>>
      BY <1>1 DEF CancelInv, Uncalled, Taking, Calling
    <2>2. DOMAIN <<>> = {}
      OBVIOUS
    <2>3. ~Listed(l) /\ ~InHand(l)
      BY <2>1, <2>2 DEF Listed, InHand
    <2> QED
      BY <1>1, <2>3 DEF CancelInv, Uncalled, CancelTypes
  <1> QED
    BY <1>1 DEF CancelInv, Uncalled, CancelledOnce

-----------------------------------------------------------------------------
(* Tasks: where the coroutines can be at the same time                      *)

FrameTypes ==
  /\ host \in {"spawn", "no executor", "sync", "detach"}
  /\ frame \in [Frame -> {"none", "new", "run", "hop", "await", "got", "final", "freed",
                          "complete", "stored", "signalled", "ending", "dying"}]
  /\ continuation_ \in [Frame -> Frame \union {NoFrame}]
  /\ result_ \in [Frame -> {"none", "value", "moved"}]
  /\ scheduled \subseteq Frame /\ posted \in BOOLEAN /\ has_op_ \in BOOLEAN

other_frame == IF host = "detach" THEN Wrapper ELSE Detached

(* The host's coroutine awaits Child exactly while Child is under way. *)
HostInv ==
  /\ frame[other_frame] = "none"
  /\ frame[host_frame] # "hop"
  /\ frame[host_frame] = "none" => frame[Child] \in {"none", "new", "freed"}
  /\ frame[host_frame] \in {"new", "run"} =>
       frame[Child] = "new" \/ (frame[Child] = "freed" /\ caller = "dropped")
  /\ frame[host_frame] = "await" =>
       frame[Child] \in {"run", "hop", "await", "got"} /\ continuation_[Child] = host_frame
  /\ frame[host_frame] \in {"got", "complete", "stored", "signalled", "ending", "final"} =>
       frame[Child] = "final"
  /\ frame[host_frame] = "dying" => frame[Child] = "freed"
  /\ frame[host_frame] = "freed" => frame[Child] \in {"final", "freed"}
  /\ host = "spawn" => frame[Wrapper] \notin {"stored", "signalled", "final"}
  /\ host = "no executor" => frame[Wrapper] = "none"
  /\ host = "sync" => frame[Wrapper] \notin {"new", "complete", "ending", "dying"}
  /\ host = "detach" => frame[Detached] \notin {"complete", "stored", "signalled", "final"}
  /\ \A f \in {Wrapper, Detached, Bridge} : continuation_[f] = NoFrame

(* Main's program is where the frames say. *)
CallerInv ==
  /\ caller = "start" => frame[host_frame] = "none" /\ frame[Child] = "none"
  /\ caller = "made" => frame[host_frame] = "none" /\ frame[Child] = "new"
  /\ caller = "detached" => /\ host = "detach" /\ frame[Detached] = "new"
                            /\ frame[Child] = "new"
  /\ caller = "dropped" => /\ host = "detach" /\ frame[Detached] = "new"
                           /\ frame[Child] = "freed"
  /\ caller = "waiting" => host = "sync" /\ frame[Wrapper] \notin {"none", "new", "freed"}
  /\ caller = "returning" => /\ host = "sync" /\ frame[Wrapper] = "freed"
                             /\ frame[Child] = "final"
  /\ host = "sync" /\ frame[Wrapper] = "freed" => caller \in {"returning", "end"}
  /\ signaled_ => host = "sync" /\ frame[Wrapper] \in {"signalled", "final", "freed"}

(* Leaf is awaited by Child, directly or through Bridge.  An operation      *)
(* state exists from its start until Child has gone on.                     *)
LeafInv ==
  /\ frame[Leaf] \in {"none", "new", "run", "hop", "final", "freed"}
  /\ frame[Bridge] \in {"none", "await", "got", "final", "dying", "freed"}
  /\ frame[Child] \in {"none", "new"} => frame[Leaf] = "none"
  /\ frame[Leaf] \in {"none", "new"} => frame[Bridge] = "none" /\ continuation_[Leaf] = NoFrame
  /\ frame[Leaf] = "new" => frame[Child] = "await" /\ has_op_
  /\ frame[Leaf] \in {"run", "hop"} =>
       /\ frame[Child] = "await"
       /\ \/ continuation_[Leaf] = Child /\ frame[Bridge] = "none" /\ ~has_op_
          \/ continuation_[Leaf] = Bridge /\ frame[Bridge] = "await" /\ has_op_
  /\ frame[Leaf] = "final" =>
       \/ frame[Bridge] = "none" /\ frame[Child] = "got" /\ ~has_op_
       \/ frame[Bridge] = "got" /\ frame[Child] = "await" /\ has_op_
       \/ frame[Bridge] = "final" /\ frame[Child] # "await"
  /\ frame[Leaf] = "freed" =>
       frame[Bridge] \in {"none", "dying", "freed"} /\ frame[Child] # "await"
  /\ frame[Leaf] = "none" /\ frame[Child] = "await" => posted /\ has_op_
  /\ posted => frame[Child] = "await" /\ frame[Leaf] = "none"
  /\ has_op_ => frame[Child] \in {"await", "got"}
  /\ frame[Child] = "got" /\ ~has_op_ => frame[Leaf] = "final" /\ frame[Bridge] = "none"

(* What the executor has is suspended. *)
ScheduledInv ==
  \A f \in scheduled : \/ f \in {Child, Leaf} /\ frame[f] = "hop"
                       \/ f = Wrapper /\ host = "spawn" /\ frame[f] = "new"

ControlInv == FrameTypes /\ HostInv /\ CallerInv /\ LeafInv /\ ScheduledInv

(* The states in which a coroutine is on a stack *)
Active(f) ==
  \/ f \in {Child, Leaf} /\ frame[f] \in {"run", "got"}
  \/ f = Bridge /\ frame[f] \in {"got", "final", "dying"}
  \/ /\ f \in {Wrapper, Detached}
     /\ frame[f] \in {"run", "got", "complete", "stored", "signalled", "ending", "dying"}

Entry == Frame \X {"body", "start", "started"}

(* What may be on the stack of t: the body of an active coroutine, the      *)
(* start of an operation that is still to come, or the wrapper that         *)
(* SyncWait() destroyed.                                                    *)
MayStand(x, t) ==
  \/ x[2] = "body" /\ Active(x[1])
  \/ x = <<Child, "start">> /\ frame[Leaf] = "new"
  \/ x = <<Wrapper, "body">> /\ host = "sync" /\ frame[Wrapper] = "freed" /\ t # Main

StackInv ==
  /\ stack \in [Thread -> Seq(Entry)]
  /\ \A t \in Thread : \A i \in DOMAIN stack[t] :
       stack[t][i][2] = "started" \/ MayStand(stack[t][i], t)
  /\ \A t, u \in Thread : \A i \in DOMAIN stack[t], j \in DOMAIN stack[u] :
       stack[t][i] = stack[u][j] /\ stack[t][i][2] # "started" => t = u /\ i = j

(* What is needed of the pool: *)
Need(f) == LET b == GetBucket(FrameSize[f]) IN
           IF b = Oversized THEN FrameSize[f] ELSE GetBucketSize[b]

(* The places of the free lists *)
Slots == {s \in Thread \X Bucket \X (1 .. kMaxPooledPerBucket) :
            s[3] \in DOMAIN buckets_[s[1]][s[2]]}
Held(s) == buckets_[s[1]][s[2]][s[3]]

PoolTypes ==
  /\ buckets_ \in [Thread -> [Bucket -> Seq(Block)]]
  /\ capacity \in [Block -> Nat] /\ memory \in [Frame -> Block \union {NoBlock}]
  /\ \A t \in Thread, b \in Bucket : Len(buckets_[t][b]) <= kMaxPooledPerBucket

(* A block has the size that its place says ... *)
PoolSizes ==
  /\ \A f \in Frame : memory[f] # NoBlock => capacity[memory[f]] = Need(f)
  /\ \A s \in Slots : capacity[Held(s)] = GetBucketSize[s[2]]

(* ... and it is in one place only. *)
PoolApart ==
  /\ \A f, g \in Frame : memory[f] = memory[g] /\ memory[f] # NoBlock => f = g
  /\ \A f \in Frame, s \in Slots : memory[f] # Held(s)
  /\ \A r, s \in Slots : Held(r) = Held(s) => r = s

PoolUsed ==
  \A m \in Block : capacity[m] # 0 =>
    (\E f \in Frame : memory[f] = m) \/ \E s \in Slots : Held(s) = m

PoolData == PoolTypes /\ PoolSizes /\ PoolApart /\ PoolUsed

(* A frame is live while it has memory.  Each creation took one block from  *)
(* the heap at most, so that there is one for a coroutine still to come.    *)
Allocated == {m \in Block : capacity[m] # 0}
Created == {f \in Frame : frame[f] # "none"}

PoolInv ==
  /\ PoolData
  /\ \A f \in Frame : memory[f] # NoBlock <=> Live(f)
  /\ Cardinality(Allocated) <= Cardinality(Created)

(* Completions of Spawn *)
Somebody == Callback \union {ErrorCallback}

SpawnTypes ==
  /\ state \in [completed : BOOLEAN, failed : BOOLEAN, result : {"none", "value", "moved"},
                on_complete : Callback \union {NoCallback},
                on_error : {ErrorCallback, NoCallback}]
  /\ calling \in [cb : Callback \union {NoCallback}, val : {"none", "value"}]
  /\ late \in [cb : Somebody \union {NoCallback}, val : {"none", "value", "moved", "NoExecutor"}]
  /\ given \subseteq Somebody /\ replaced \subseteq Callback
  /\ called \in [Somebody -> {<<>>, <<"value">>, <<"moved">>, <<"NoExecutor">>}]

ValueGiven ==
  \E d \in Callback : called[d] = <<"value">> \/ calling = [cb |-> d, val |-> "value"]

SpawnPhase ==
  /\ host # "spawn" => ~state.completed
  /\ host = "spawn" =>
       (state.completed <=> frame[Wrapper] \in {"complete", "ending", "dying", "freed"})
  /\ state.failed => host = "no executor" /\ caller \in {"handle", "late", "end"}
  /\ host = "no executor" /\ caller \in {"handle", "late"} => state.failed
  /\ caller \in {"handle", "late"} => host \in {"spawn", "no executor"}
  /\ host \notin {"spawn", "no executor"} => given = {}
  /\ caller \in {"start", "made"} => given = {}
  /\ calling # Nothing => host = "spawn" /\ frame[Wrapper] = "complete"
  /\ calling.cb # NoCallback <=> calling.val = "value"
  /\ state.completed => state.on_complete = NoCallback /\ state.result \in {"value", "moved"}
  /\ state.completed /\ state.result = "moved" => ValueGiven
  /\ late # Nothing => caller = "late"
  /\ late.cb = NoCallback <=> late.val = "none"
  /\ late.cb \in Callback => state.completed /\ late.val = state.result
  /\ late.cb = ErrorCallback => state.failed /\ late.val = "NoExecutor"

(* Where a callback of OnComplete() is, and the one of OnError() *)
CallbackAt(cb) ==
  /\ called[cb] # <<"NoExecutor">>
  /\ called[cb] = <<"moved">> => ValueGiven
  /\ called[cb] # <<>> => state.completed
  /\ cb \notin given => /\ called[cb] = <<>> /\ cb \notin replaced
                        /\ cb \notin {state.on_complete, calling.cb, late.cb}
  /\ called[cb] # <<>> \/ cb \in replaced =>
       cb \notin {state.on_complete, calling.cb, late.cb}
  /\ cb \in replaced => called[cb] = <<>>
  /\ cb = calling.cb => cb \notin {late.cb, state.on_complete}
  /\ cb = late.cb => cb # state.on_complete
  /\ cb \in given \ replaced /\ called[cb] = <<>> =>
       cb \in {state.on_complete, calling.cb, late.cb}

ErrorCallbackAt ==
  /\ called[ErrorCallback] \in {<<>>, <<"NoExecutor">>}
  /\ called[ErrorCallback] # <<>> => state.failed /\ ErrorCallback # late.cb
  /\ ErrorCallback \notin given => called[ErrorCallback] = <<>> /\ late.cb # ErrorCallback
  /\ ErrorCallback \in given /\ state.failed /\ called[ErrorCallback] = <<>> =>
       late.cb = ErrorCallback

CallbackPlaces == (\A cb \in Callback : CallbackAt(cb)) /\ ErrorCallbackAt

SpawnInv == SpawnTypes /\ SpawnPhase /\ CallbackPlaces

(* SyncWait() and the DetachedTask *)
WaitInv ==
  /\ host = "sync" /\ frame[Wrapper] \in {"stored", "signalled", "final", "freed"} =>
       wait_result = "value"
  /\ host = "detach" =>
       /\ frame[Detached] \in {"ending", "dying"} => callback # "set"
       /\ frame[Detached] = "freed" => callback # "set" \/ result_[Child] = "none"
  /\ caller = "dropped" => result_[Child] = "none"
  /\ frame[Child] \in {"none", "new", "run", "hop", "await", "got"} => result_[Child] = "none"

(* The five coroutines are different. *)
LEMMA Frames ==
  /\ Wrapper \in Frame /\ Detached \in Frame /\ Bridge \in Frame /\ Child \in Frame /\ Leaf \in Frame
  /\ Wrapper \notin {Detached, Bridge, Child, Leaf} /\ Detached \notin {Bridge, Child, Leaf}
  /\ Bridge \notin {Child, Leaf} /\ Child # Leaf /\ NoFrame \notin Frame /\ Main \in Thread
  /\ \A f \in Frame : f \in {Wrapper, Detached, Bridge, Child, Leaf}
  BY FramesAssumption

(* While Child is under way the host awaits it. *)
LEMMA HostAwaits ==
  ASSUME ControlInv, frame[Child] \in {"run", "hop", "await", "got"}
  PROVE  /\ frame[host_frame] = "await" /\ continuation_[Child] = host_frame
         /\ host_frame \in {Wrapper, Detached} /\ host # "no executor"
         /\ caller \notin {"start", "made", "detached", "dropped", "returning"}
  BY Frames DEF ControlInv, FrameTypes, HostInv, CallerInv, host_frame

(* The call of the task function: it creates the child and nothing runs.    *)
LEMMA MakeTaskControl ==
  ASSUME ControlInv,
         MakeTask, UNCHANGED waitVars
  PROVE  ControlInv'
  <1> USE Frames DEF ControlInv, MakeTask, Create, At, promiseVars, execVars, waitVars
  <1>1. FrameTypes'
    BY DEF FrameTypes, HostInv, host_frame
  <1>2. HostInv'
    BY DEF FrameTypes, HostInv, CallerInv, LeafInv, ScheduledInv, host_frame, other_frame
  <1>3. CallerInv'
    BY DEF FrameTypes, HostInv, CallerInv, LeafInv, ScheduledInv, host_frame, other_frame
  <1>4. LeafInv'
    BY DEF FrameTypes, HostInv, CallerInv, LeafInv, ScheduledInv, host_frame, other_frame
  <1>5. ScheduledInv'
    BY DEF FrameTypes, HostInv, CallerInv, LeafInv, ScheduledInv, host_frame, other_frame
  <1> QED
    BY <1>1, <1>2, <1>3, <1>4, <1>5

(* Dropping a task that nobody awaits: it destroys a child that never ran.  *)
LEMMA DropTaskControl ==
  ASSUME ControlInv,
         DropTask, UNCHANGED waitVars
  PROVE  ControlInv'
  <1> USE Frames DEF ControlInv, DropTask, Destroy, promiseVars, execVars, waitVars
  <1>1. FrameTypes'
    BY DEF FrameTypes, HostInv, host_frame
  <1>2. HostInv'
    BY DEF FrameTypes, HostInv, CallerInv, LeafInv, ScheduledInv, host_frame, other_frame
  <1>3. CallerInv'
    BY DEF FrameTypes, HostInv, CallerInv, LeafInv, ScheduledInv, host_frame, other_frame
  <1>4. LeafInv'
    BY DEF FrameTypes, HostInv, CallerInv, LeafInv, ScheduledInv, host_frame, other_frame
  <1>5. ScheduledInv'
    BY DEF FrameTypes, HostInv, CallerInv, LeafInv, ScheduledInv, host_frame, other_frame
  <1> QED
    BY <1>1, <1>2, <1>3, <1>4, <1>5

(* Spawn() on an executor: it schedules the wrapper.                        *)
LEMMA SpawnOnControl ==
  ASSUME ControlInv,
         SpawnOn, UNCHANGED waitVars
  PROVE  ControlInv'
  <1> USE Frames DEF ControlInv, SpawnOn, Create, At, promiseVars, execVars, waitVars
  <1>1. FrameTypes'
    BY DEF FrameTypes, HostInv, host_frame
  <1>2. HostInv'
    BY DEF FrameTypes, HostInv, CallerInv, LeafInv, ScheduledInv, host_frame, other_frame
  <1>3. CallerInv'
    BY DEF FrameTypes, HostInv, CallerInv, LeafInv, ScheduledInv, host_frame, other_frame
  <1>4. LeafInv'
    BY DEF FrameTypes, HostInv, CallerInv, LeafInv, ScheduledInv, host_frame, other_frame
  <1>5. ScheduledInv'
    BY DEF FrameTypes, HostInv, CallerInv, LeafInv, ScheduledInv, host_frame, other_frame
  <1> QED
    BY <1>1, <1>2, <1>3, <1>4, <1>5

(* Spawn() without an executor: it destroys the child, which never ran.     *)
LEMMA SpawnNoExecutorControl ==
  ASSUME ControlInv,
         SpawnNoExecutor, UNCHANGED waitVars
  PROVE  ControlInv'
  <1> USE Frames DEF ControlInv, SpawnNoExecutor, Destroy, promiseVars, execVars, waitVars
  <1>1. FrameTypes'
    BY DEF FrameTypes, HostInv, host_frame
  <1>2. HostInv'
    BY DEF FrameTypes, HostInv, CallerInv, LeafInv, ScheduledInv, host_frame, other_frame
  <1>3. CallerInv'
    BY DEF FrameTypes, HostInv, CallerInv, LeafInv, ScheduledInv, host_frame, other_frame
  <1>4. LeafInv'
    BY DEF FrameTypes, HostInv, CallerInv, LeafInv, ScheduledInv, host_frame, other_frame
  <1>5. ScheduledInv'
    BY DEF FrameTypes, HostInv, CallerInv, LeafInv, ScheduledInv, host_frame, other_frame
  <1> QED
    BY <1>1, <1>2, <1>3, <1>4, <1>5

(* SyncWait() starting its wrapper: the wrapper comes on the caller's stack.*)
LEMMA SyncWaitStartControl ==
  ASSUME ControlInv,
         SyncWaitStart
  PROVE  ControlInv'
  <1> USE Frames DEF ControlInv, SyncWaitStart, Create, At, promiseVars, execVars,
             waitVars
  <1>1. FrameTypes'
    BY DEF FrameTypes, HostInv, host_frame
  <1>2. HostInv'
    BY DEF FrameTypes, HostInv, CallerInv, LeafInv, ScheduledInv, host_frame, other_frame
  <1>3. CallerInv'
    BY DEF FrameTypes, HostInv, CallerInv, LeafInv, ScheduledInv, host_frame, other_frame
  <1>4. LeafInv'
    BY DEF FrameTypes, HostInv, CallerInv, LeafInv, ScheduledInv, host_frame, other_frame
  <1>5. ScheduledInv'
    BY DEF FrameTypes, HostInv, CallerInv, LeafInv, ScheduledInv, host_frame, other_frame
  <1> QED
    BY <1>1, <1>2, <1>3, <1>4, <1>5

(* SyncWait() returning: it destroys the wrapper, which may still be on its *)
(* way to its final suspension.                                             *)
LEMMA SyncWaitEndsControl ==
  ASSUME ControlInv,
         SyncWaitEnds
  PROVE  ControlInv'
  <1> USE Frames DEF ControlInv
  <1>1. CASE caller = "waiting"
    <2>0. /\ caller = "waiting"
         /\ signaled_
         /\ caller' = "returning"
         /\ UNCHANGED <<host, continuation_, result_, scheduled, posted, has_op_, signaled_>>
         /\ frame'[Wrapper] = "freed"
         /\ \A g \in Frame : g \notin {Wrapper} => frame'[g] = frame[g]
      BY <1>1 DEF SyncWaitEnds, Destroy, promiseVars, execVars, waitVars, FrameTypes,
         HostInv, CallerInv, LeafInv, ScheduledInv, host_frame, other_frame
    <2>1. FrameTypes'
      <3>1. frame' \in [Frame -> {"none", "new", "run", "hop", "await", "got", "final", "freed",
                           "complete", "stored", "signalled", "ending", "dying"}]
        BY <1>1, <2>0 DEF SyncWaitEnds, Destroy, FrameTypes, host_frame
      <3> QED
        BY <3>1, <2>0 DEF FrameTypes, host_frame
    <2>2. HostInv'
      BY <2>0 DEF FrameTypes, HostInv, CallerInv, LeafInv, ScheduledInv, host_frame, other_frame
    <2>3. CallerInv'
      BY <2>0 DEF FrameTypes, HostInv, CallerInv, LeafInv, ScheduledInv, host_frame, other_frame
    <2>4. LeafInv'
      BY <2>0 DEF FrameTypes, HostInv, CallerInv, LeafInv, ScheduledInv, host_frame, other_frame
    <2>5. ScheduledInv'
      BY <2>0 DEF FrameTypes, HostInv, CallerInv, LeafInv, ScheduledInv, host_frame, other_frame
    <2> QED
      BY <2>1, <2>2, <2>3, <2>4, <2>5
  <1>2. CASE caller = "returning"
    <2>0. /\ caller = "returning"
         /\ caller' = "end"
         /\ UNCHANGED <<host, continuation_, result_, scheduled, posted, has_op_, signaled_>>
         /\ frame'[Child] = "freed"
         /\ \A g \in Frame : g \notin {Child} => frame'[g] = frame[g]
      BY <1>2 DEF SyncWaitEnds, Destroy, promiseVars, execVars, waitVars, FrameTypes,
         HostInv, CallerInv, LeafInv, ScheduledInv, host_frame, other_frame
    <2>1. FrameTypes'
      <3>1. frame' \in [Frame -> {"none", "new", "run", "hop", "await", "got", "final", "freed",
                           "complete", "stored", "signalled", "ending", "dying"}]
        BY <1>2, <2>0 DEF SyncWaitEnds, Destroy, FrameTypes, host_frame
      <3> QED
        BY <3>1, <2>0 DEF FrameTypes, host_frame
    <2>2. HostInv'
      BY <2>0 DEF FrameTypes, HostInv, CallerInv, LeafInv, ScheduledInv, host_frame, other_frame
    <2>3. CallerInv'
      BY <2>0 DEF FrameTypes, HostInv, CallerInv, LeafInv, ScheduledInv, host_frame, other_frame
    <2>4. LeafInv'
      BY <2>0 DEF FrameTypes, HostInv, CallerInv, LeafInv, ScheduledInv, host_frame, other_frame
    <2>5. ScheduledInv'
      BY <2>0 DEF FrameTypes, HostInv, CallerInv, LeafInv, ScheduledInv, host_frame, other_frame
    <2> QED
      BY <2>1, <2>2, <2>3, <2>4, <2>5
  <1> QED
    BY <1>1, <1>2 DEF SyncWaitEnds, Destroy, LeafInv, FrameTypes

(* Creating a DetachedTask: nothing runs yet.                               *)
LEMMA MakeDetachedControl ==
  ASSUME ControlInv,
         MakeDetached
  PROVE  ControlInv'
  <1> USE Frames DEF ControlInv, MakeDetached, Create, At, promiseVars, execVars, waitVars
  <1>1. FrameTypes'
    BY DEF FrameTypes, HostInv, host_frame
  <1>2. HostInv'
    BY DEF FrameTypes, HostInv, CallerInv, LeafInv, ScheduledInv, host_frame, other_frame
  <1>3. CallerInv'
    BY DEF FrameTypes, HostInv, CallerInv, LeafInv, ScheduledInv, host_frame, other_frame
  <1>4. LeafInv'
    BY DEF FrameTypes, HostInv, CallerInv, LeafInv, ScheduledInv, host_frame, other_frame
  <1>5. ScheduledInv'
    BY DEF FrameTypes, HostInv, CallerInv, LeafInv, ScheduledInv, host_frame, other_frame
  <1> QED
    BY <1>1, <1>2, <1>3, <1>4, <1>5

(* SetCallback() of a DetachedTask: nothing runs.                           *)
LEMMA SetCallbackControl ==
  ASSUME ControlInv,
         SetCallback
  PROVE  ControlInv'
  <1> USE Frames DEF ControlInv, SetCallback, taskVars, promiseVars, execVars, waitVars
  <1>1. FrameTypes'
    BY DEF FrameTypes, HostInv, host_frame
  <1>2. HostInv'
    BY DEF FrameTypes, HostInv, CallerInv, LeafInv, ScheduledInv, host_frame, other_frame
  <1>3. CallerInv'
    BY DEF FrameTypes, HostInv, CallerInv, LeafInv, ScheduledInv, host_frame, other_frame
  <1>4. LeafInv'
    BY DEF FrameTypes, HostInv, CallerInv, LeafInv, ScheduledInv, host_frame, other_frame
  <1>5. ScheduledInv'
    BY DEF FrameTypes, HostInv, CallerInv, LeafInv, ScheduledInv, host_frame, other_frame
  <1> QED
    BY <1>1, <1>2, <1>3, <1>4, <1>5

(* Start() of a DetachedTask: its body comes on the caller's stack.         *)
LEMMA StartControl ==
  ASSUME ControlInv,
         Start
  PROVE  ControlInv'
  <1> USE Frames DEF ControlInv, Start, At, promiseVars, execVars, waitVars
  <1>1. FrameTypes'
    BY DEF FrameTypes, HostInv, host_frame
  <1>2. HostInv'
    BY DEF FrameTypes, HostInv, CallerInv, LeafInv, ScheduledInv, host_frame, other_frame
  <1>3. CallerInv'
    BY DEF FrameTypes, HostInv, CallerInv, LeafInv, ScheduledInv, host_frame, other_frame
  <1>4. LeafInv'
    BY DEF FrameTypes, HostInv, CallerInv, LeafInv, ScheduledInv, host_frame, other_frame
  <1>5. ScheduledInv'
    BY DEF FrameTypes, HostInv, CallerInv, LeafInv, ScheduledInv, host_frame, other_frame
  <1> QED
    BY <1>1, <1>2, <1>3, <1>4, <1>5

(* Dropping a DetachedTask that was not started: it destroys a body that    *)
(* never ran.                                                               *)
LEMMA DetachedDroppedControl ==
  ASSUME ControlInv,
         DetachedDropped
  PROVE  ControlInv'
  <1> USE Frames DEF ControlInv
  <1>1. CASE caller = "started"
    <2>0. /\ caller' = "end"
         /\ UNCHANGED <<host, continuation_, result_, scheduled, posted, has_op_, signaled_>>
         /\ frame' = frame
         /\ caller = "started"
      BY <1>1 DEF DetachedDropped, Destroy, promiseVars, execVars, waitVars, FrameTypes,
         HostInv, CallerInv, LeafInv, ScheduledInv, host_frame, other_frame
    <2>1. FrameTypes'
      <3>1. frame' \in [Frame -> {"none", "new", "run", "hop", "await", "got", "final", "freed",
                           "complete", "stored", "signalled", "ending", "dying"}]
        BY <1>1, <2>0 DEF DetachedDropped, Destroy, FrameTypes, host_frame
      <3> QED
        BY <3>1, <2>0 DEF FrameTypes, host_frame
    <2>2. HostInv'
      BY <2>0 DEF FrameTypes, HostInv, CallerInv, LeafInv, ScheduledInv, host_frame, other_frame
    <2>3. CallerInv'
      BY <2>0 DEF FrameTypes, HostInv, CallerInv, LeafInv, ScheduledInv, host_frame, other_frame
    <2>4. LeafInv'
      BY <2>0 DEF FrameTypes, HostInv, CallerInv, LeafInv, ScheduledInv, host_frame, other_frame
    <2>5. ScheduledInv'
      BY <2>0 DEF FrameTypes, HostInv, CallerInv, LeafInv, ScheduledInv, host_frame, other_frame
    <2> QED
      BY <2>1, <2>2, <2>3, <2>4, <2>5
  <1>2. CASE caller = "detached"
    <2>0. /\ caller = "detached"
         /\ caller' = "dropped"
         /\ UNCHANGED <<host, continuation_, result_, scheduled, posted, has_op_, signaled_>>
         /\ frame'[Child] = "freed"
         /\ \A g \in Frame : g \notin {Child} => frame'[g] = frame[g]
      BY <1>2 DEF DetachedDropped, Destroy, promiseVars, execVars, waitVars, FrameTypes,
         HostInv, CallerInv, LeafInv, ScheduledInv, host_frame, other_frame
    <2>1. FrameTypes'
      <3>1. frame' \in [Frame -> {"none", "new", "run", "hop", "await", "got", "final", "freed",
                           "complete", "stored", "signalled", "ending", "dying"}]
        BY <1>2, <2>0 DEF DetachedDropped, Destroy, FrameTypes, host_frame
      <3> QED
        BY <3>1, <2>0 DEF FrameTypes, host_frame
    <2>2. HostInv'
      BY <2>0 DEF FrameTypes, HostInv, CallerInv, LeafInv, ScheduledInv, host_frame, other_frame
    <2>3. CallerInv'
      BY <2>0 DEF FrameTypes, HostInv, CallerInv, LeafInv, ScheduledInv, host_frame, other_frame
    <2>4. LeafInv'
      BY <2>0 DEF FrameTypes, HostInv, CallerInv, LeafInv, ScheduledInv, host_frame, other_frame
    <2>5. ScheduledInv'
      BY <2>0 DEF FrameTypes, HostInv, CallerInv, LeafInv, ScheduledInv, host_frame, other_frame
    <2> QED
      BY <2>1, <2>2, <2>3, <2>4, <2>5
  <1>3. CASE caller = "dropped"
    <2>0. /\ caller = "dropped"
         /\ caller' = "end"
         /\ UNCHANGED <<host, continuation_, result_, scheduled, posted, has_op_, signaled_>>
         /\ frame'[Detached] = "freed"
         /\ \A g \in Frame : g \notin {Detached} => frame'[g] = frame[g]
      BY <1>3 DEF DetachedDropped, Destroy, promiseVars, execVars, waitVars, FrameTypes,
         HostInv, CallerInv, LeafInv, ScheduledInv, host_frame, other_frame
    <2>1. FrameTypes'
      <3>1. frame' \in [Frame -> {"none", "new", "run", "hop", "await", "got", "final", "freed",
                           "complete", "stored", "signalled", "ending", "dying"}]
        BY <1>3, <2>0 DEF DetachedDropped, Destroy, FrameTypes, host_frame
      <3> QED
        BY <3>1, <2>0 DEF FrameTypes, host_frame
    <2>2. HostInv'
      BY <2>0 DEF FrameTypes, HostInv, CallerInv, LeafInv, ScheduledInv, host_frame, other_frame
    <2>3. CallerInv'
      BY <2>0 DEF FrameTypes, HostInv, CallerInv, LeafInv, ScheduledInv, host_frame, other_frame
    <2>4. LeafInv'
      BY <2>0 DEF FrameTypes, HostInv, CallerInv, LeafInv, ScheduledInv, host_frame, other_frame
    <2>5. ScheduledInv'
      BY <2>0 DEF FrameTypes, HostInv, CallerInv, LeafInv, ScheduledInv, host_frame, other_frame
    <2> QED
      BY <2>1, <2>2, <2>3, <2>4, <2>5
  <1> QED
    BY <1>1, <1>2, <1>3 DEF DetachedDropped, Destroy, LeafInv, FrameTypes

(* co_await of the child by its host: control passes from the host to the   *)
(* child.                                                                   *)
LEMMA AwaitChildControl ==
  ASSUME ControlInv, NEW t \in Thread,
         AwaitChild(t), UNCHANGED waitVars
  PROVE  ControlInv'
  <1> USE Frames DEF ControlInv
  <1>0. /\ frame[host_frame] = "run"
       /\ host_frame \in {Wrapper, Detached}
       /\ UNCHANGED <<host, caller, result_, scheduled, posted, has_op_, signaled_>>
       /\ continuation_' = [continuation_ EXCEPT ![Child] = host_frame]
       /\ frame'[host_frame] = "await"
       /\ frame'[Child] = "run"
       /\ \A g \in Frame : g \notin {host_frame, Child} => frame'[g] = frame[g]
    BY DEF AwaitChild, Await, Running, promiseVars, execVars, waitVars, FrameTypes,
       HostInv, CallerInv, LeafInv, ScheduledInv, host_frame, other_frame
  <1>1. FrameTypes'
    <2>1. frame' \in [Frame -> {"none", "new", "run", "hop", "await", "got", "final", "freed",
                         "complete", "stored", "signalled", "ending", "dying"}]
      BY <1>0 DEF AwaitChild, Await, Running, FrameTypes, host_frame
    <2> QED
      BY <2>1, <1>0 DEF FrameTypes, host_frame
  <1>a. host_frame' = host_frame /\ other_frame' = other_frame
        /\ other_frame \in {Wrapper, Detached} \ {host_frame} /\ frame'[other_frame] = frame[other_frame]
    BY <1>0 DEF host_frame, other_frame
  <1>b. /\ continuation_'[Child] = host_frame
        /\ \A f \in {Wrapper, Detached, Bridge} : continuation_'[f] = continuation_[f]
    BY <1>0 DEF FrameTypes
  <1>c. host # "no executor"
    BY <1>0 DEF HostInv, host_frame
  <1>2. HostInv'
    BY <1>0, <1>a, <1>b, <1>c DEF HostInv, host_frame, other_frame
  <1>3. CallerInv'
    BY <1>0 DEF FrameTypes, HostInv, CallerInv, LeafInv, ScheduledInv, host_frame, other_frame
  <1>4. LeafInv'
    BY <1>0 DEF FrameTypes, HostInv, CallerInv, LeafInv, ScheduledInv, host_frame, other_frame
  <1>5. ScheduledInv'
    BY <1>0 DEF FrameTypes, HostInv, CallerInv, LeafInv, ScheduledInv, host_frame, other_frame
  <1> QED
    BY <1>1, <1>2, <1>3, <1>4, <1>5

(* co_await of the leaf by the child: control passes from the child to the  *)
(* leaf.                                                                    *)
LEMMA AwaitLeafControl ==
  ASSUME ControlInv, NEW t \in Thread,
         AwaitLeaf(t), UNCHANGED waitVars
  PROVE  ControlInv'
  <1> USE Frames DEF ControlInv
  <1>0. /\ frame[Child] = "run"
       /\ frame[Leaf] = "none"
       /\ UNCHANGED <<host, caller, result_, scheduled, posted, has_op_, signaled_>>
       /\ continuation_' = [continuation_ EXCEPT ![Leaf] = Child]
       /\ frame'[Child] = "await"
       /\ frame'[Leaf] = "run"
       /\ \A g \in Frame : g \notin {Child, Leaf} => frame'[g] = frame[g]
    BY DEF AwaitLeaf, Await, Create, Running, promiseVars, execVars, waitVars, FrameTypes,
       HostInv, CallerInv, LeafInv, ScheduledInv, host_frame, other_frame
  <1>1. FrameTypes'
    <2>1. frame' \in [Frame -> {"none", "new", "run", "hop", "await", "got", "final", "freed",
                         "complete", "stored", "signalled", "ending", "dying"}]
      BY <1>0 DEF AwaitLeaf, Await, Create, Running, FrameTypes, host_frame
    <2> QED
      BY <2>1, <1>0 DEF FrameTypes, host_frame
  <1>a. frame[Child] \in {"run", "hop", "await", "got"}
    BY <1>0 DEF LeafInv
  <1>b. /\ frame[host_frame] = "await" /\ continuation_[Child] = host_frame
        /\ host_frame \in {Wrapper, Detached} /\ host # "no executor"
    BY <1>a, HostAwaits
  <1>c. frame'[Child] \in {"run", "hop", "await", "got"}
    BY <1>0, <1>a
  <1>d. host_frame' = host_frame /\ other_frame' = other_frame /\ frame'[host_frame] = "await"
        /\ other_frame \in {Wrapper, Detached} /\ frame'[other_frame] = frame[other_frame]
    BY <1>0, <1>b DEF host_frame, other_frame
  <1>e. \A f \in {Wrapper, Detached, Bridge, Child} : continuation_'[f] = continuation_[f]
    BY <1>0 DEF FrameTypes
  <1>2. HostInv'
    BY <1>0, <1>b, <1>c, <1>d, <1>e DEF HostInv, host_frame, other_frame
  <1>3. CallerInv'
    BY <1>0 DEF FrameTypes, HostInv, CallerInv, LeafInv, ScheduledInv, host_frame, other_frame
  <1>4. LeafInv'
    BY <1>0 DEF FrameTypes, HostInv, CallerInv, LeafInv, ScheduledInv, host_frame, other_frame
  <1>5. ScheduledInv'
    BY <1>0 DEF FrameTypes, HostInv, CallerInv, LeafInv, ScheduledInv, host_frame, other_frame
  <1> QED
    BY <1>1, <1>2, <1>3, <1>4, <1>5

(* A thread taking a scheduled coroutine: its body comes on an empty stack. *)
LEMMA RunScheduledControl ==
  ASSUME ControlInv, NEW t \in Thread,
         RunScheduled(t), UNCHANGED waitVars
  PROVE  ControlInv'
  <1> USE Frames DEF ControlInv, promiseVars, waitVars
  <1> PICK f \in scheduled : scheduled' = scheduled \ {f} /\ frame' = [frame EXCEPT ![f] = "run"]
    BY DEF RunScheduled, At
  <1>0. UNCHANGED <<host, caller, continuation_, result_, posted, has_op_, signaled_>>
    BY DEF RunScheduled
  <1>1. CASE f = Child /\ frame[f] = "hop"
    <2>0. /\ frame'[Child] = "run" /\ scheduled' = scheduled \ {Child}
          /\ \A g \in Frame : g # Child => frame'[g] = frame[g]
      BY <1>1 DEF FrameTypes
    <2>1. FrameTypes'
      BY <1>0, <1>1 DEF FrameTypes
    <2>a. frame[Child] \in {"run", "hop", "await", "got"}
      BY <1>1 DEF LeafInv
    <2>b. /\ frame[host_frame] = "await" /\ continuation_[Child] = host_frame
          /\ host_frame \in {Wrapper, Detached} /\ host # "no executor"
      BY <2>a, HostAwaits
    <2>c. frame'[Child] \in {"run", "hop", "await", "got"}
      BY <1>1, <2>0, <2>a
    <2>d. host_frame' = host_frame /\ other_frame' = other_frame /\ frame'[host_frame] = "await"
          /\ other_frame \in {Wrapper, Detached} /\ frame'[other_frame] = frame[other_frame]
      BY <1>0, <2>0, <2>b DEF host_frame, other_frame
    <2>2. HostInv'
      BY <1>0, <2>0, <2>b, <2>c, <2>d DEF HostInv, host_frame, other_frame
    <2>e. caller \notin {"start", "made", "detached", "dropped", "returning"}
      BY <2>a, HostAwaits
    <2>f. frame'[Wrapper] = frame[Wrapper]
      BY <1>1, <2>0
    <2>3. CallerInv'
      BY <1>0, <2>e, <2>f DEF CallerInv
    <2>4. LeafInv'
      BY <1>0, <1>1, <2>0 DEF FrameTypes, HostInv, CallerInv, LeafInv, ScheduledInv,
         host_frame, other_frame
    <2>5. ScheduledInv'
      BY <1>0, <1>1, <2>0 DEF ScheduledInv, FrameTypes
    <2> QED
      BY <2>1, <2>2, <2>3, <2>4, <2>5
  <1>2. CASE f = Leaf /\ frame[f] = "hop"
    <2>0. /\ frame'[Leaf] = "run" /\ scheduled' = scheduled \ {Leaf}
          /\ \A g \in Frame : g # Leaf => frame'[g] = frame[g]
      BY <1>2 DEF FrameTypes
    <2>1. FrameTypes'
      BY <1>0, <1>2 DEF FrameTypes
    <2>a. frame[Child] \in {"run", "hop", "await", "got"}
      BY <1>2 DEF LeafInv
    <2>b. /\ frame[host_frame] = "await" /\ continuation_[Child] = host_frame
          /\ host_frame \in {Wrapper, Detached} /\ host # "no executor"
      BY <2>a, HostAwaits
    <2>c. frame'[Child] \in {"run", "hop", "await", "got"}
      BY <1>2, <2>0, <2>a
    <2>d. host_frame' = host_frame /\ other_frame' = other_frame /\ frame'[host_frame] = "await"
          /\ other_frame \in {Wrapper, Detached} /\ frame'[other_frame] = frame[other_frame]
      BY <1>0, <2>0, <2>b DEF host_frame, other_frame
    <2>2. HostInv'
      BY <1>0, <2>0, <2>b, <2>c, <2>d DEF HostInv, host_frame, other_frame
    <2>e. caller \notin {"start", "made", "detached", "dropped", "returning"}
      BY <2>a, HostAwaits
    <2>f. frame'[Wrapper] = frame[Wrapper]
      BY <1>2, <2>0
    <2>3. CallerInv'
      BY <1>0, <2>e, <2>f DEF CallerInv
    <2>4. LeafInv'
      BY <1>0, <1>2, <2>0 DEF FrameTypes, HostInv, CallerInv, LeafInv, ScheduledInv,
         host_frame, other_frame
    <2>5. ScheduledInv'
      BY <1>0, <1>2, <2>0, ZenonT(40) DEF ScheduledInv, FrameTypes
    <2> QED
      BY <2>1, <2>2, <2>3, <2>4, <2>5
  <1>3. CASE f = Wrapper /\ host = "spawn" /\ frame[f] = "new"
    <2>0. /\ frame'[Wrapper] = "run" /\ scheduled' = scheduled \ {Wrapper}
          /\ \A g \in Frame : g # Wrapper => frame'[g] = frame[g]
      BY <1>3 DEF FrameTypes
    <2>1. FrameTypes'
      BY <1>0, <1>3 DEF FrameTypes
    <2>2. HostInv'
      BY <1>0, <1>3, <2>0 DEF FrameTypes, HostInv, CallerInv, LeafInv, ScheduledInv,
         host_frame, other_frame
    <2>3. CallerInv'
      BY <1>0, <1>3, <2>0 DEF FrameTypes, HostInv, CallerInv, LeafInv, ScheduledInv,
         host_frame, other_frame
    <2>4. LeafInv'
      BY <1>0, <1>3, <2>0 DEF FrameTypes, HostInv, CallerInv, LeafInv, ScheduledInv,
         host_frame, other_frame
    <2>5. ScheduledInv'
      BY <1>0, <1>3, <2>0 DEF ScheduledInv, FrameTypes
    <2> QED
      BY <2>1, <2>2, <2>3, <2>4, <2>5
  <1> QED
    BY <1>1, <1>2, <1>3 DEF ScheduledInv

(* The child going on after a co_await: it destroys the operation state or  *)
(* the leaf it waited for.                                                  *)
LEMMA ChildResumedControl ==
  ASSUME ControlInv, NEW t \in Thread,
         ChildResumed(t), UNCHANGED waitVars
  PROVE  ControlInv'
  <1> USE Frames DEF ControlInv
  <1>1. CASE has_op_
    <2>0. /\ frame[Child] = "got"
         /\ has_op_
         /\ has_op_' = FALSE
         /\ UNCHANGED <<host, caller, continuation_, result_, scheduled, posted, signaled_>>
         /\ frame'[Child] = "run"
         /\ \A g \in Frame : g \notin {Child} => frame'[g] = frame[g]
      BY <1>1 DEF ChildResumed, Running, At, Destroy, promiseVars, execVars, waitVars,
         FrameTypes, HostInv, CallerInv, LeafInv, ScheduledInv, host_frame, other_frame
    <2>1. FrameTypes'
      <3>1. frame' \in [Frame -> {"none", "new", "run", "hop", "await", "got", "final", "freed",
                           "complete", "stored", "signalled", "ending", "dying"}]
        BY <1>1, <2>0 DEF ChildResumed, Running, At, Destroy, FrameTypes, host_frame
      <3> QED
        BY <3>1, <2>0 DEF FrameTypes, host_frame
    <2>2. HostInv'
      BY <2>0 DEF FrameTypes, HostInv, CallerInv, LeafInv, ScheduledInv, host_frame, other_frame
    <2>3. CallerInv'
      BY <2>0 DEF FrameTypes, HostInv, CallerInv, LeafInv, ScheduledInv, host_frame, other_frame
    <2>4. LeafInv'
      BY <2>0 DEF FrameTypes, HostInv, CallerInv, LeafInv, ScheduledInv, host_frame, other_frame
    <2>5. ScheduledInv'
      BY <2>0 DEF FrameTypes, HostInv, CallerInv, LeafInv, ScheduledInv, host_frame, other_frame
    <2> QED
      BY <2>1, <2>2, <2>3, <2>4, <2>5
  <1>2. CASE ~has_op_
    <2>0. /\ frame[Child] = "got"
         /\ ~has_op_
         /\ result_' = [result_ EXCEPT ![Leaf] = "moved"]
         /\ UNCHANGED <<host, caller, continuation_, scheduled, posted, has_op_, signaled_>>
         /\ frame'[Child] = "run"
         /\ frame'[Leaf] = "freed"
         /\ \A g \in Frame : g \notin {Child, Leaf} => frame'[g] = frame[g]
      BY <1>2 DEF ChildResumed, Running, At, Destroy, promiseVars, execVars, waitVars,
         FrameTypes, HostInv, CallerInv, LeafInv, ScheduledInv, host_frame, other_frame
    <2>1. FrameTypes'
      <3>1. frame' \in [Frame -> {"none", "new", "run", "hop", "await", "got", "final", "freed",
                           "complete", "stored", "signalled", "ending", "dying"}]
        BY <1>2, <2>0, ZenonT(40) DEF ChildResumed, Running, At, Destroy, FrameTypes, host_frame
      <3> QED
        BY <3>1, <2>0 DEF FrameTypes, host_frame
    <2>2. HostInv'
      BY <2>0 DEF FrameTypes, HostInv, CallerInv, LeafInv, ScheduledInv, host_frame, other_frame
    <2>3. CallerInv'
      BY <2>0 DEF FrameTypes, HostInv, CallerInv, LeafInv, ScheduledInv, host_frame, other_frame
    <2>4. LeafInv'
      BY <2>0 DEF FrameTypes, HostInv, CallerInv, LeafInv, ScheduledInv, host_frame, other_frame
    <2>5. ScheduledInv'
      BY <2>0 DEF FrameTypes, HostInv, CallerInv, LeafInv, ScheduledInv, host_frame, other_frame
    <2> QED
      BY <2>1, <2>2, <2>3, <2>4, <2>5
  <1> QED
    BY <1>1, <1>2 DEF ChildResumed, Running, At, Destroy, LeafInv, FrameTypes

(* A coroutine that suspends and is scheduled again: it leaves the stack.   *)
LEMMA HopControl ==
  ASSUME ControlInv, NEW t \in Thread, NEW f \in {Child, Leaf},
         Hop(t, f), UNCHANGED waitVars
  PROVE  ControlInv'
  <1> USE Frames DEF ControlInv
  <1>1. CASE f = Child
    <2>0. /\ frame[Child] = "run"
         /\ UNCHANGED <<host, caller, continuation_, result_, posted, has_op_, signaled_>>
         /\ scheduled' = scheduled \union {Child}
         /\ frame'[Child] = "hop"
         /\ \A g \in Frame : g \notin {Child} => frame'[g] = frame[g]
      BY <1>1 DEF Hop, Running, At, promiseVars, execVars, waitVars, FrameTypes, HostInv,
         CallerInv, LeafInv, ScheduledInv, host_frame, other_frame
    <2>1. FrameTypes'
      <3>1. frame' \in [Frame -> {"none", "new", "run", "hop", "await", "got", "final", "freed",
                           "complete", "stored", "signalled", "ending", "dying"}]
        BY <1>1, <2>0 DEF Hop, Running, At, FrameTypes, host_frame
      <3> QED
        BY <3>1, <2>0 DEF FrameTypes, host_frame
    <2>2. HostInv'
      BY <2>0 DEF FrameTypes, HostInv, CallerInv, LeafInv, ScheduledInv, host_frame, other_frame
    <2>3. CallerInv'
      BY <2>0 DEF FrameTypes, HostInv, CallerInv, LeafInv, ScheduledInv, host_frame, other_frame
    <2>4. LeafInv'
      BY <2>0 DEF FrameTypes, HostInv, CallerInv, LeafInv, ScheduledInv, host_frame, other_frame
    <2>5. ScheduledInv'
      BY <2>0 DEF FrameTypes, HostInv, CallerInv, LeafInv, ScheduledInv, host_frame, other_frame
    <2> QED
      BY <2>1, <2>2, <2>3, <2>4, <2>5
  <1>2. CASE f = Leaf
    <2>0. /\ frame[Leaf] = "run"
         /\ UNCHANGED <<host, caller, continuation_, result_, posted, has_op_, signaled_>>
         /\ scheduled' = scheduled \union {Leaf}
         /\ frame'[Leaf] = "hop"
         /\ \A g \in Frame : g \notin {Leaf} => frame'[g] = frame[g]
      BY <1>2 DEF Hop, Running, At, promiseVars, execVars, waitVars, FrameTypes, HostInv,
         CallerInv, LeafInv, ScheduledInv, host_frame, other_frame
    <2>1. FrameTypes'
      <3>1. frame' \in [Frame -> {"none", "new", "run", "hop", "await", "got", "final", "freed",
                           "complete", "stored", "signalled", "ending", "dying"}]
        BY <1>2, <2>0 DEF Hop, Running, At, FrameTypes, host_frame
      <3> QED
        BY <3>1, <2>0 DEF FrameTypes, host_frame
    <2>2. HostInv'
      BY <2>0 DEF FrameTypes, HostInv, CallerInv, LeafInv, ScheduledInv, host_frame, other_frame
    <2>3. CallerInv'
      BY <2>0 DEF FrameTypes, HostInv, CallerInv, LeafInv, ScheduledInv, host_frame, other_frame
    <2>4. LeafInv'
      BY <2>0 DEF FrameTypes, HostInv, CallerInv, LeafInv, ScheduledInv, host_frame, other_frame
    <2>5. ScheduledInv'
      BY <2>0 DEF FrameTypes, HostInv, CallerInv, LeafInv, ScheduledInv, host_frame, other_frame
    <2> QED
      BY <2>1, <2>2, <2>3, <2>4, <2>5
  <1> QED
    BY <1>1, <1>2 DEF Hop, Running, At, LeafInv, FrameTypes

(* final_suspend of a task: control passes to its continuation.             *)
LEMMA ReturnControl ==
  ASSUME ControlInv, NEW t \in Thread, NEW f \in {Child, Leaf},
         Return(t, f), UNCHANGED waitVars
  PROVE  ControlInv'
  <1> USE Frames DEF ControlInv
  <1>1. CASE f = Child
    <2>0. /\ frame[Child] = "run"
         /\ continuation_[Child] = host_frame
         /\ host_frame \in {Wrapper, Detached}
         /\ result_' = [result_ EXCEPT ![Child] = "value"]
         /\ UNCHANGED <<host, caller, continuation_, scheduled, posted, has_op_, signaled_>>
         /\ frame'[Child] = "final"
         /\ frame'[host_frame] = "got"
         /\ \A g \in Frame : g \notin {Child, host_frame} => frame'[g] = frame[g]
      BY <1>1 DEF Return, Running, promiseVars, execVars, waitVars, FrameTypes, HostInv,
         CallerInv, LeafInv, ScheduledInv, host_frame, other_frame
    <2>1. FrameTypes'
      <3>1. frame' \in [Frame -> {"none", "new", "run", "hop", "await", "got", "final", "freed",
                           "complete", "stored", "signalled", "ending", "dying"}]
        BY <1>1, <2>0 DEF Return, Running, FrameTypes, host_frame
      <3> QED
        BY <3>1, <2>0 DEF FrameTypes, host_frame
    <2>2. HostInv'
      BY <2>0 DEF FrameTypes, HostInv, CallerInv, LeafInv, ScheduledInv, host_frame, other_frame
    <2>3. CallerInv'
      BY <2>0 DEF FrameTypes, HostInv, CallerInv, LeafInv, ScheduledInv, host_frame, other_frame
    <2>4. LeafInv'
      BY <2>0 DEF FrameTypes, HostInv, CallerInv, LeafInv, ScheduledInv, host_frame, other_frame
    <2>5. ScheduledInv'
      BY <2>0 DEF FrameTypes, HostInv, CallerInv, LeafInv, ScheduledInv, host_frame, other_frame
    <2> QED
      BY <2>1, <2>2, <2>3, <2>4, <2>5
  <1>2. CASE f = Leaf /\ continuation_[Leaf] = Child
    <2>0. /\ frame[Leaf] = "run"
         /\ continuation_[Leaf] = Child
         /\ result_' = [result_ EXCEPT ![Leaf] = "value"]
         /\ UNCHANGED <<host, caller, continuation_, scheduled, posted, has_op_, signaled_>>
         /\ frame'[Leaf] = "final"
         /\ frame'[Child] = "got"
         /\ \A g \in Frame : g \notin {Leaf, Child} => frame'[g] = frame[g]
      BY <1>2 DEF Return, Running, promiseVars, execVars, waitVars, FrameTypes, HostInv,
         CallerInv, LeafInv, ScheduledInv, host_frame, other_frame
    <2>1. FrameTypes'
      <3>1. frame' \in [Frame -> {"none", "new", "run", "hop", "await", "got", "final", "freed",
                           "complete", "stored", "signalled", "ending", "dying"}]
        BY <1>2, <2>0 DEF Return, Running, FrameTypes, host_frame
      <3> QED
        BY <3>1, <2>0 DEF FrameTypes, host_frame
    <2>2. HostInv'
      BY <2>0, ZenonT(40) DEF FrameTypes, HostInv, CallerInv, LeafInv, ScheduledInv,
         host_frame, other_frame
    <2>3. CallerInv'
      BY <2>0 DEF FrameTypes, HostInv, CallerInv, LeafInv, ScheduledInv, host_frame, other_frame
    <2>4. LeafInv'
      BY <2>0 DEF FrameTypes, HostInv, CallerInv, LeafInv, ScheduledInv, host_frame, other_frame
    <2>5. ScheduledInv'
      BY <2>0 DEF FrameTypes, HostInv, CallerInv, LeafInv, ScheduledInv, host_frame, other_frame
    <2> QED
      BY <2>1, <2>2, <2>3, <2>4, <2>5
  <1>3. CASE f = Leaf /\ continuation_[Leaf] = Bridge
    <2>0. /\ frame[Leaf] = "run"
         /\ continuation_[Leaf] = Bridge
         /\ result_' = [result_ EXCEPT ![Leaf] = "value"]
         /\ UNCHANGED <<host, caller, continuation_, scheduled, posted, has_op_, signaled_>>
         /\ frame'[Leaf] = "final"
         /\ frame'[Bridge] = "got"
         /\ \A g \in Frame : g \notin {Leaf, Bridge} => frame'[g] = frame[g]
      BY <1>3 DEF Return, Running, promiseVars, execVars, waitVars, FrameTypes, HostInv,
         CallerInv, LeafInv, ScheduledInv, host_frame, other_frame
    <2>1. FrameTypes'
      <3>1. frame' \in [Frame -> {"none", "new", "run", "hop", "await", "got", "final", "freed",
                           "complete", "stored", "signalled", "ending", "dying"}]
        BY <1>3, <2>0 DEF Return, Running, FrameTypes, host_frame
      <3> QED
        BY <3>1, <2>0 DEF FrameTypes, host_frame
    <2>2. HostInv'
      BY <2>0, ZenonT(40) DEF FrameTypes, HostInv, CallerInv, LeafInv, ScheduledInv,
         host_frame, other_frame
    <2>3. CallerInv'
      BY <2>0 DEF FrameTypes, HostInv, CallerInv, LeafInv, ScheduledInv, host_frame, other_frame
    <2>4. LeafInv'
      BY <2>0 DEF FrameTypes, HostInv, CallerInv, LeafInv, ScheduledInv, host_frame, other_frame
    <2>5. ScheduledInv'
      BY <2>0 DEF FrameTypes, HostInv, CallerInv, LeafInv, ScheduledInv, host_frame, other_frame
    <2> QED
      BY <2>1, <2>2, <2>3, <2>4, <2>5
  <1> QED
    BY <1>1, <1>2, <1>3 DEF Return, Running, LeafInv, FrameTypes

(* co_await of a sender: the child is suspended with a start() still to     *)
(* come, and the leaf is created.                                           *)
LEMMA AwaitSenderControl ==
  ASSUME ControlInv, NEW t \in Thread,
         AwaitSender(t), UNCHANGED waitVars
  PROVE  ControlInv'
  <1> USE Frames DEF ControlInv, AwaitSender, Running, Create, promiseVars, execVars,
             waitVars
  <1>1. FrameTypes'
    BY DEF FrameTypes, HostInv, host_frame
  <1>2. HostInv'
    BY ZenonT(40) DEF FrameTypes, HostInv, CallerInv, LeafInv, ScheduledInv, host_frame,
       other_frame
  <1>3. CallerInv'
    BY DEF FrameTypes, HostInv, CallerInv, LeafInv, ScheduledInv, host_frame, other_frame
  <1>4. LeafInv'
    BY DEF FrameTypes, HostInv, CallerInv, LeafInv, ScheduledInv, host_frame, other_frame
  <1>5. ScheduledInv'
    BY DEF FrameTypes, HostInv, CallerInv, LeafInv, ScheduledInv, host_frame, other_frame
  <1> QED
    BY <1>1, <1>2, <1>3, <1>4, <1>5

(* run_bridge(): the bridge waits for the leaf from the beginning, and      *)
(* control passes to the leaf.                                              *)
LEMMA StartBridgeControl ==
  ASSUME ControlInv, NEW t \in Thread,
         StartBridge(t), UNCHANGED waitVars, frame[Leaf] = "new"
  PROVE  ControlInv'
  <1> USE Frames DEF ControlInv
  <1>0. /\ frame[Leaf] = "new"
       /\ frame[Bridge] = "none"
       /\ UNCHANGED <<host, caller, result_, scheduled, posted, has_op_, signaled_>>
       /\ continuation_' = [continuation_ EXCEPT ![Leaf] = Bridge]
       /\ frame'[Bridge] = "await"
       /\ frame'[Leaf] = "run"
       /\ \A g \in Frame : g \notin {Bridge, Leaf} => frame'[g] = frame[g]
    BY DEF StartBridge, Create, promiseVars, execVars, waitVars, FrameTypes, HostInv,
       CallerInv, LeafInv, ScheduledInv, host_frame, other_frame
  <1>1. FrameTypes'
    <2>1. frame' \in [Frame -> {"none", "new", "run", "hop", "await", "got", "final", "freed",
                         "complete", "stored", "signalled", "ending", "dying"}]
      BY <1>0 DEF StartBridge, Create, FrameTypes, host_frame
    <2> QED
      BY <2>1, <1>0 DEF FrameTypes, host_frame
  <1>a. frame[Child] \in {"run", "hop", "await", "got"}
    BY <1>0 DEF LeafInv
  <1>b. /\ frame[host_frame] = "await" /\ continuation_[Child] = host_frame
        /\ host_frame \in {Wrapper, Detached} /\ host # "no executor"
    BY <1>a, HostAwaits
  <1>c. frame'[Child] \in {"run", "hop", "await", "got"}
    BY <1>0, <1>a
  <1>d. host_frame' = host_frame /\ other_frame' = other_frame /\ frame'[host_frame] = "await"
        /\ other_frame \in {Wrapper, Detached} /\ frame'[other_frame] = frame[other_frame]
    BY <1>0, <1>b DEF host_frame, other_frame
  <1>e. \A f \in {Wrapper, Detached, Bridge, Child} : continuation_'[f] = continuation_[f]
    BY <1>0 DEF FrameTypes
  <1>2. HostInv'
    BY <1>0, <1>b, <1>c, <1>d, <1>e DEF HostInv, host_frame, other_frame
  <1>3. CallerInv'
    BY <1>0 DEF FrameTypes, HostInv, CallerInv, LeafInv, ScheduledInv, host_frame, other_frame
  <1>4. LeafInv'
    BY <1>0 DEF FrameTypes, HostInv, CallerInv, LeafInv, ScheduledInv, host_frame, other_frame
  <1>5. ScheduledInv'
    BY <1>0 DEF FrameTypes, HostInv, CallerInv, LeafInv, ScheduledInv, host_frame, other_frame
  <1> QED
    BY <1>1, <1>2, <1>3, <1>4, <1>5

(* set_value() of a receiver: the child is resumed on top of the bridge,    *)
(* which is at its end.                                                     *)
LEMMA SetValueControl ==
  ASSUME ControlInv, NEW t \in Thread,
         SetValue(t), UNCHANGED waitVars
  PROVE  ControlInv'
  <1> USE Frames DEF ControlInv, SetValue, Running, promiseVars, execVars, waitVars
  <1>1. FrameTypes'
    BY DEF FrameTypes, HostInv, host_frame
  <1>2. HostInv'
    BY DEF FrameTypes, HostInv, CallerInv, LeafInv, ScheduledInv, host_frame, other_frame
  <1>3. CallerInv'
    BY DEF FrameTypes, HostInv, CallerInv, LeafInv, ScheduledInv, host_frame, other_frame
  <1>4. LeafInv'
    BY DEF FrameTypes, HostInv, CallerInv, LeafInv, ScheduledInv, host_frame, other_frame
  <1>5. ScheduledInv'
    BY DEF FrameTypes, HostInv, CallerInv, LeafInv, ScheduledInv, host_frame, other_frame
  <1> QED
    BY <1>1, <1>2, <1>3, <1>4, <1>5

(* The end of a bridge: first the leaf goes, then its own frame.            *)
LEMMA BridgeEndsControl ==
  ASSUME ControlInv, NEW t \in Thread,
         BridgeEnds(t), UNCHANGED waitVars
  PROVE  ControlInv'
  <1> USE Frames DEF ControlInv
  <1>1. CASE frame[Bridge] = "final"
    <2>0. /\ frame[Bridge] = "final"
         /\ UNCHANGED <<host, caller, continuation_, result_, scheduled, posted, has_op_, signaled_>>
         /\ frame'[Bridge] = "dying"
         /\ frame'[Leaf] = "freed"
         /\ \A g \in Frame : g \notin {Bridge, Leaf} => frame'[g] = frame[g]
      BY <1>1 DEF BridgeEnds, Running, Destroy, promiseVars, execVars, waitVars,
         FrameTypes, HostInv, CallerInv, LeafInv, ScheduledInv, host_frame, other_frame
    <2>1. FrameTypes'
      <3>1. frame' \in [Frame -> {"none", "new", "run", "hop", "await", "got", "final", "freed",
                           "complete", "stored", "signalled", "ending", "dying"}]
        BY <1>1, <2>0, ZenonT(40) DEF BridgeEnds, Running, Destroy, FrameTypes, host_frame
      <3> QED
        BY <3>1, <2>0 DEF FrameTypes, host_frame
    <2>2. HostInv'
      BY <2>0, ZenonT(40) DEF FrameTypes, HostInv, CallerInv, LeafInv, ScheduledInv,
         host_frame, other_frame
    <2>3. CallerInv'
      BY <2>0 DEF FrameTypes, HostInv, CallerInv, LeafInv, ScheduledInv, host_frame, other_frame
    <2>4. LeafInv'
      BY <2>0 DEF FrameTypes, HostInv, CallerInv, LeafInv, ScheduledInv, host_frame, other_frame
    <2>5. ScheduledInv'
      BY <2>0, ZenonT(40) DEF FrameTypes, HostInv, CallerInv, LeafInv, ScheduledInv,
         host_frame, other_frame
    <2> QED
      BY <2>1, <2>2, <2>3, <2>4, <2>5
  <1>2. CASE frame[Bridge] = "dying"
    <2>0. /\ frame[Bridge] = "dying"
         /\ UNCHANGED <<host, caller, continuation_, result_, scheduled, posted, has_op_, signaled_>>
         /\ frame'[Bridge] = "freed"
         /\ \A g \in Frame : g \notin {Bridge} => frame'[g] = frame[g]
      BY <1>2 DEF BridgeEnds, Running, Destroy, promiseVars, execVars, waitVars,
         FrameTypes, HostInv, CallerInv, LeafInv, ScheduledInv, host_frame, other_frame
    <2>1. FrameTypes'
      <3>1. frame' \in [Frame -> {"none", "new", "run", "hop", "await", "got", "final", "freed",
                           "complete", "stored", "signalled", "ending", "dying"}]
        BY <1>2, <2>0 DEF BridgeEnds, Running, Destroy, FrameTypes, host_frame
      <3> QED
        BY <3>1, <2>0 DEF FrameTypes, host_frame
    <2>2. HostInv'
      BY <2>0, ZenonT(40) DEF FrameTypes, HostInv, CallerInv, LeafInv, ScheduledInv,
         host_frame, other_frame
    <2>3. CallerInv'
      BY <2>0 DEF FrameTypes, HostInv, CallerInv, LeafInv, ScheduledInv, host_frame, other_frame
    <2>4. LeafInv'
      BY <2>0 DEF FrameTypes, HostInv, CallerInv, LeafInv, ScheduledInv, host_frame, other_frame
    <2>5. ScheduledInv'
      BY <2>0, ZenonT(40) DEF FrameTypes, HostInv, CallerInv, LeafInv, ScheduledInv,
         host_frame, other_frame
    <2> QED
      BY <2>1, <2>2, <2>3, <2>4, <2>5
  <1> QED
    BY <1>1, <1>2 DEF BridgeEnds, Running, Destroy, LeafInv, FrameTypes

(* co_await of a schedule sender: the child is suspended and its operation  *)
(* posted.                                                                  *)
LEMMA AwaitScheduleControl ==
  ASSUME ControlInv, NEW t \in Thread,
         AwaitSchedule(t), UNCHANGED waitVars
  PROVE  ControlInv'
  <1> USE Frames DEF ControlInv, AwaitSchedule, Running, At, promiseVars, execVars,
             waitVars
  <1>1. FrameTypes'
    BY DEF FrameTypes, HostInv, host_frame
  <1>2. HostInv'
    BY DEF FrameTypes, HostInv, CallerInv, LeafInv, ScheduledInv, host_frame, other_frame
  <1>3. CallerInv'
    BY DEF FrameTypes, HostInv, CallerInv, LeafInv, ScheduledInv, host_frame, other_frame
  <1>4. LeafInv'
    BY DEF FrameTypes, HostInv, CallerInv, LeafInv, ScheduledInv, host_frame, other_frame
  <1>5. ScheduledInv'
    BY DEF FrameTypes, HostInv, CallerInv, LeafInv, ScheduledInv, host_frame, other_frame
  <1> QED
    BY <1>1, <1>2, <1>3, <1>4, <1>5

(* The posted operation, on whichever thread runs it: the child is resumed. *)
LEMMA RunPostedControl ==
  ASSUME ControlInv, NEW t \in Thread,
         RunPosted(t), UNCHANGED waitVars
  PROVE  ControlInv'
  <1> USE Frames DEF ControlInv, RunPosted, At, promiseVars, execVars, waitVars
  <1>1. FrameTypes'
    BY DEF FrameTypes, HostInv, host_frame
  <1>2. HostInv'
    BY DEF FrameTypes, HostInv, CallerInv, LeafInv, ScheduledInv, host_frame, other_frame
  <1>3. CallerInv'
    BY DEF FrameTypes, HostInv, CallerInv, LeafInv, ScheduledInv, host_frame, other_frame
  <1>4. LeafInv'
    BY DEF FrameTypes, HostInv, CallerInv, LeafInv, ScheduledInv, host_frame, other_frame
  <1>5. ScheduledInv'
    BY DEF FrameTypes, HostInv, CallerInv, LeafInv, ScheduledInv, host_frame, other_frame
  <1> QED
    BY <1>1, <1>2, <1>3, <1>4, <1>5

(* The end of a host's coroutine: first the child goes, then its own frame. *)
LEMMA HostEndsControl ==
  ASSUME ControlInv, NEW t \in Thread,
         HostEnds(t), UNCHANGED waitVars
  PROVE  ControlInv'
  <1> USE Frames DEF ControlInv
  <1>1. CASE frame[host_frame] = "ending"
    <2>0. /\ frame[host_frame] = "ending"
         /\ host_frame \in {Wrapper, Detached}
         /\ UNCHANGED <<host, caller, continuation_, result_, scheduled, posted, has_op_, signaled_>>
         /\ frame'[host_frame] = "dying"
         /\ frame'[Child] = "freed"
         /\ \A g \in Frame : g \notin {host_frame, Child} => frame'[g] = frame[g]
      BY <1>1 DEF HostEnds, Running, Destroy, promiseVars, execVars, waitVars, FrameTypes,
         HostInv, CallerInv, LeafInv, ScheduledInv, host_frame, other_frame
    <2>1. FrameTypes'
      <3>1. frame' \in [Frame -> {"none", "new", "run", "hop", "await", "got", "final", "freed",
                           "complete", "stored", "signalled", "ending", "dying"}]
        BY <1>1, <2>0, ZenonT(40) DEF HostEnds, Running, Destroy, FrameTypes, host_frame
      <3> QED
        BY <3>1, <2>0 DEF FrameTypes, host_frame
    <2>2. HostInv'
      BY <2>0 DEF FrameTypes, HostInv, CallerInv, LeafInv, ScheduledInv, host_frame, other_frame
    <2>3. CallerInv'
      BY <2>0 DEF FrameTypes, HostInv, CallerInv, LeafInv, ScheduledInv, host_frame, other_frame
    <2>4. LeafInv'
      BY <2>0 DEF FrameTypes, HostInv, CallerInv, LeafInv, ScheduledInv, host_frame, other_frame
    <2>5. ScheduledInv'
      BY <2>0 DEF FrameTypes, HostInv, CallerInv, LeafInv, ScheduledInv, host_frame, other_frame
    <2> QED
      BY <2>1, <2>2, <2>3, <2>4, <2>5
  <1>2. CASE frame[host_frame] = "dying"
    <2>0. /\ frame[host_frame] = "dying"
         /\ host_frame \in {Wrapper, Detached}
         /\ UNCHANGED <<host, caller, continuation_, result_, scheduled, posted, has_op_, signaled_>>
         /\ frame'[host_frame] = "freed"
         /\ \A g \in Frame : g \notin {host_frame} => frame'[g] = frame[g]
      BY <1>2 DEF HostEnds, Running, Destroy, promiseVars, execVars, waitVars, FrameTypes,
         HostInv, CallerInv, LeafInv, ScheduledInv, host_frame, other_frame
    <2>1. FrameTypes'
      <3>1. frame' \in [Frame -> {"none", "new", "run", "hop", "await", "got", "final", "freed",
                           "complete", "stored", "signalled", "ending", "dying"}]
        BY <1>2, <2>0, ZenonT(40) DEF HostEnds, Running, Destroy, FrameTypes, host_frame
      <3> QED
        BY <3>1, <2>0 DEF FrameTypes, host_frame
    <2>2. HostInv'
      BY <2>0 DEF FrameTypes, HostInv, CallerInv, LeafInv, ScheduledInv, host_frame, other_frame
    <2>3. CallerInv'
      BY <2>0 DEF FrameTypes, HostInv, CallerInv, LeafInv, ScheduledInv, host_frame, other_frame
    <2>4. LeafInv'
      BY <2>0 DEF FrameTypes, HostInv, CallerInv, LeafInv, ScheduledInv, host_frame, other_frame
    <2>5. ScheduledInv'
      BY <2>0 DEF FrameTypes, HostInv, CallerInv, LeafInv, ScheduledInv, host_frame, other_frame
    <2> QED
      BY <2>1, <2>2, <2>3, <2>4, <2>5
  <1> QED
    BY <1>1, <1>2 DEF HostEnds, Running, Destroy, LeafInv, FrameTypes

(* Completion of a spawned task: the wrapper has the result of the child.   *)
LEMMA CompleteControl ==
  ASSUME ControlInv, NEW t \in Thread,
         Complete(t), UNCHANGED waitVars
  PROVE  ControlInv'
  <1> USE Frames DEF ControlInv, Complete, Running, AwaitResume, At, promiseVars,
             execVars, waitVars
  <1>1. FrameTypes'
    BY DEF FrameTypes, HostInv, host_frame
  <1>2. HostInv'
    BY DEF FrameTypes, HostInv, CallerInv, LeafInv, ScheduledInv, host_frame, other_frame
  <1>3. CallerInv'
    BY DEF FrameTypes, HostInv, CallerInv, LeafInv, ScheduledInv, host_frame, other_frame
  <1>4. LeafInv'
    BY DEF FrameTypes, HostInv, CallerInv, LeafInv, ScheduledInv, host_frame, other_frame
  <1>5. ScheduledInv'
    BY DEF FrameTypes, HostInv, CallerInv, LeafInv, ScheduledInv, host_frame, other_frame
  <1> QED
    BY <1>1, <1>2, <1>3, <1>4, <1>5

(* The call of a completion callback: the wrapper is then at its end.       *)
LEMMA CompleteCallControl ==
  ASSUME ControlInv, NEW t \in Thread,
         CompleteCall(t), UNCHANGED waitVars
  PROVE  ControlInv'
  <1> USE Frames DEF ControlInv, CompleteCall, Running, At, promiseVars, execVars,
             waitVars
  <1>1. FrameTypes'
    BY DEF FrameTypes, HostInv, host_frame
  <1>2. HostInv'
    BY DEF FrameTypes, HostInv, CallerInv, LeafInv, ScheduledInv, host_frame, other_frame
  <1>3. CallerInv'
    BY DEF FrameTypes, HostInv, CallerInv, LeafInv, ScheduledInv, host_frame, other_frame
  <1>4. LeafInv'
    BY DEF FrameTypes, HostInv, CallerInv, LeafInv, ScheduledInv, host_frame, other_frame
  <1>5. ScheduledInv'
    BY DEF FrameTypes, HostInv, CallerInv, LeafInv, ScheduledInv, host_frame, other_frame
  <1> QED
    BY <1>1, <1>2, <1>3, <1>4, <1>5

(* The wrapper of SyncWait() storing the result: no coroutine starts or     *)
(* ends.                                                                    *)
LEMMA StoreResultControl ==
  ASSUME ControlInv, NEW t \in Thread,
         StoreResult(t)
  PROVE  ControlInv'
  <1> USE Frames DEF ControlInv, StoreResult, Running, AwaitResume, At, promiseVars,
             execVars, waitVars
  <1>1. FrameTypes'
    BY DEF FrameTypes, HostInv, host_frame
  <1>2. HostInv'
    BY DEF FrameTypes, HostInv, CallerInv, LeafInv, ScheduledInv, host_frame, other_frame
  <1>3. CallerInv'
    BY DEF FrameTypes, HostInv, CallerInv, LeafInv, ScheduledInv, host_frame, other_frame
  <1>4. LeafInv'
    BY DEF FrameTypes, HostInv, CallerInv, LeafInv, ScheduledInv, host_frame, other_frame
  <1>5. ScheduledInv'
    BY DEF FrameTypes, HostInv, CallerInv, LeafInv, ScheduledInv, host_frame, other_frame
  <1> QED
    BY <1>1, <1>2, <1>3, <1>4, <1>5

(* The wrapper of SyncWait() signalling: no coroutine starts or ends.       *)
LEMMA SignalControl ==
  ASSUME ControlInv, NEW t \in Thread,
         Signal(t)
  PROVE  ControlInv'
  <1> USE Frames DEF ControlInv, Signal, Running, At, promiseVars, execVars, waitVars
  <1>1. FrameTypes'
    BY DEF FrameTypes, HostInv, host_frame
  <1>2. HostInv'
    BY DEF FrameTypes, HostInv, CallerInv, LeafInv, ScheduledInv, host_frame, other_frame
  <1>3. CallerInv'
    BY DEF FrameTypes, HostInv, CallerInv, LeafInv, ScheduledInv, host_frame, other_frame
  <1>4. LeafInv'
    BY DEF FrameTypes, HostInv, CallerInv, LeafInv, ScheduledInv, host_frame, other_frame
  <1>5. ScheduledInv'
    BY DEF FrameTypes, HostInv, CallerInv, LeafInv, ScheduledInv, host_frame, other_frame
  <1> QED
    BY <1>1, <1>2, <1>3, <1>4, <1>5

(* The wrapper of SyncWait() at its final suspension: it leaves the stack.  *)
LEMMA WrapperReturnsControl ==
  ASSUME ControlInv, NEW t \in Thread,
         WrapperReturns(t)
  PROVE  ControlInv'
  <1> USE Frames DEF ControlInv, WrapperReturns, promiseVars, execVars, waitVars
  <1>1. FrameTypes'
    BY DEF FrameTypes, HostInv, host_frame
  <1>2. HostInv'
    BY DEF FrameTypes, HostInv, CallerInv, LeafInv, ScheduledInv, host_frame, other_frame
  <1>3. CallerInv'
    BY DEF FrameTypes, HostInv, CallerInv, LeafInv, ScheduledInv, host_frame, other_frame
  <1>4. LeafInv'
    BY DEF FrameTypes, HostInv, CallerInv, LeafInv, ScheduledInv, host_frame, other_frame
  <1>5. ScheduledInv'
    BY DEF FrameTypes, HostInv, CallerInv, LeafInv, ScheduledInv, host_frame, other_frame
  <1> QED
    BY <1>1, <1>2, <1>3, <1>4, <1>5

(* final_suspend of a DetachedTask: its frame is about to go.               *)
LEMMA DetachedFinalControl ==
  ASSUME ControlInv, NEW t \in Thread,
         DetachedFinal(t)
  PROVE  ControlInv'
  <1> USE Frames DEF ControlInv, DetachedFinal, Running, AwaitResume, At,
             promiseVars, execVars, waitVars
  <1>1. FrameTypes'
    BY DEF FrameTypes, HostInv, host_frame
  <1>2. HostInv'
    BY DEF FrameTypes, HostInv, CallerInv, LeafInv, ScheduledInv, host_frame, other_frame
  <1>3. CallerInv'
    BY DEF FrameTypes, HostInv, CallerInv, LeafInv, ScheduledInv, host_frame, other_frame
  <1>4. LeafInv'
    BY DEF FrameTypes, HostInv, CallerInv, LeafInv, ScheduledInv, host_frame, other_frame
  <1>5. ScheduledInv'
    BY DEF FrameTypes, HostInv, CallerInv, LeafInv, ScheduledInv, host_frame, other_frame
  <1> QED
    BY <1>1, <1>2, <1>3, <1>4, <1>5

-----------------------------------------------------------------------------
(* Tasks: what is on the stacks                                             *)

(* What may stand on a stack may do so after the step, except what the step *)
(* takes off; and an entry that the step puts there was on none.            *)
Keeps(gone) ==
  \A x \in Entry, u \in Thread :
    x # gone /\ x[2] # "started" /\ MayStand(x, u) => MayStand(x, u)'
Fresh(y, t) == MayStand(y, t)' /\ \A u \in Thread : ~MayStand(y, u)

(* The stack of t keeps n entries, one less than it had or all, and gets    *)
(* others of which only the last can be a body or a start.                  *)
LEMMA StackStep ==
  ASSUME StackInv, NEW t \in Thread, NEW q \in Seq(Entry), NEW n \in Nat,
         NEW y \in Entry, NEW gone \in Entry,
         stack' = [stack EXCEPT ![t] = q],
         n <= Len(stack[t]), n <= Len(q),
         \A i \in 1 .. n : q[i] = stack[t][i],
         \A i \in DOMAIN stack[t] : i > n => stack[t][i] = gone,
         n < Len(stack[t]) \/ gone[2] = "started",
         Keeps(gone),
         \A i \in DOMAIN q : i > n =>
           q[i][2] = "started" \/ (i = Len(q) /\ q[i] = y /\ Fresh(y, t))
  PROVE  StackInv'
  <1> DEFINE s == stack[t]
             kept(u, i) == u # t \/ i <= n
  <1>1. s \in Seq(Entry) /\ stack \in [Thread -> Seq(Entry)]
    BY DEF StackInv
  <1>2. stack' \in [Thread -> Seq(Entry)]
    BY <1>1
  <1>3. stack'[t] = q /\ \A u \in Thread : u # t => stack'[u] = stack[u]
    BY <1>1
  <1>4. DOMAIN q = 1 .. Len(q) /\ DOMAIN s = 1 .. Len(s) /\ Len(q) \in Nat /\ Len(s) \in Nat
    BY <1>1
  <1>5. ASSUME NEW u \in Thread, NEW i \in DOMAIN stack'[u], kept(u, i)
        PROVE  i \in DOMAIN stack[u] /\ stack'[u][i] = stack[u][i]
    <2>1. CASE u = t
      BY <1>3, <1>4, <1>5, <2>1
    <2>2. CASE u # t
      BY <1>3, <2>2
    <2> QED
      BY <2>1, <2>2
  <1>6. ASSUME NEW u \in Thread, NEW i \in DOMAIN stack[u], kept(u, i),
               NEW x, x = stack[u][i], x[2] # "started"
        PROVE  MayStand(x, u) /\ MayStand(x, u)'
    <2>1. stack[u] \in Seq(Entry)
      BY <1>1
    <2>2. x \in Entry
      BY <1>6, <2>1
    <2>3. x # gone
      <3> SUFFICES ASSUME x = gone PROVE FALSE
        OBVIOUS
      <3>1. n < Len(s) /\ Len(s) \in DOMAIN s /\ s[Len(s)] = gone
        BY <1>4, <1>6
      <3>2. u = t /\ i = Len(s)
        BY <1>6, <3>1 DEF StackInv
      <3> QED
        BY <1>6, <3>1, <3>2
    <2>4. MayStand(x, u)
      BY <1>6 DEF StackInv
    <2> QED
      BY <1>6, <2>2, <2>3, <2>4 DEF Keeps
  <1>7. ASSUME NEW i \in DOMAIN stack'[t], ~kept(t, i), stack'[t][i][2] # "started"
        PROVE  i = Len(q) /\ stack'[t][i] = y /\ Fresh(y, t)
    BY <1>3, <1>4, <1>7
  <1> HIDE DEF kept
  <1>8. ASSUME NEW u \in Thread, NEW i \in DOMAIN stack'[u], ~kept(u, i)
        PROVE  u = t
    BY <1>8 DEF kept
  <1>9. ASSUME NEW u \in Thread, NEW i \in DOMAIN stack'[u],
               NEW x, x = stack'[u][i], x[2] # "started"
        PROVE  MayStand(x, u)'
    <2>1. CASE kept(u, i)
      BY <1>5, <1>6, <1>9, <2>1
    <2>2. CASE ~kept(u, i)
      BY <1>7, <1>8, <1>9, <2>2 DEF Fresh
    <2> QED
      BY <2>1, <2>2
  <1>10. ASSUME NEW u \in Thread, NEW v \in Thread,
                NEW i \in DOMAIN stack'[u], NEW j \in DOMAIN stack'[v],
                stack'[u][i] = stack'[v][j], stack'[u][i][2] # "started"
         PROVE  u = v /\ i = j
    <2>1. CASE kept(u, i) /\ kept(v, j)
      <3>1. /\ i \in DOMAIN stack[u] /\ stack'[u][i] = stack[u][i]
            /\ j \in DOMAIN stack[v] /\ stack'[v][j] = stack[v][j]
        BY <1>5, <2>1
      <3> QED
        BY <1>10, <3>1 DEF StackInv
    <2>2. CASE ~kept(u, i) /\ ~kept(v, j)
      BY <1>7, <1>8, <1>10, <2>2
    <2>3. CASE kept(u, i) /\ ~kept(v, j)
      <3>1. MayStand(stack'[u][i], u)
        BY <1>5, <1>6, <1>10, <2>3
      <3>2. stack'[v][j] = y /\ Fresh(y, t)
        BY <1>7, <1>8, <1>10, <2>3
      <3> QED
        BY <1>10, <3>1, <3>2 DEF Fresh
    <2>4. CASE ~kept(u, i) /\ kept(v, j)
      <3>1. MayStand(stack'[v][j], v)
        BY <1>5, <1>6, <1>10, <2>4
      <3>2. stack'[u][i] = y /\ Fresh(y, t)
        BY <1>7, <1>8, <1>10, <2>4
      <3> QED
        BY <1>10, <3>1, <3>2 DEF Fresh
    <2> QED
      BY <2>1, <2>2, <2>3, <2>4
  <1>11. (\A u \in Thread : \A i \in DOMAIN stack[u] :
            stack[u][i][2] = "started" \/ MayStand(stack[u][i], u))'
    <2> SUFFICES ASSUME NEW u \in Thread, NEW i \in DOMAIN stack'[u],
                        stack'[u][i][2] # "started"
                 PROVE  MayStand(stack[u][i], u)'
      OBVIOUS
    <2> PICK x : x = stack'[u][i]
      OBVIOUS
    <2>1. MayStand(x, u)'
      BY <1>9
    <2> QED
      BY <2>1 DEF MayStand, Active
  <1> QED
    BY <1>2, <1>10, <1>11 DEF StackInv

(* An entry and what is below it *)
LEMMA TopEntry ==
  ASSUME StackInv, NEW t \in Thread, stack[t] # <<>>
  PROVE  /\ Top(t) \in Entry /\ Popped(t) \in Seq(Entry)
         /\ Len(stack[t]) \in DOMAIN stack[t] /\ stack[t][Len(stack[t])] = Top(t)
         /\ Len(Popped(t)) = Len(stack[t]) - 1 /\ Len(stack[t]) \in Nat \ {0}
         /\ \A i \in 1 .. (Len(stack[t]) - 1) : Popped(t)[i] = stack[t][i]
         /\ \A i \in DOMAIN stack[t] : i > Len(stack[t]) - 1 => stack[t][i] = Top(t)
  <1>1. stack[t] \in Seq(Entry)
    BY DEF StackInv
  <1>2. Len(stack[t]) \in Nat \ {0} /\ DOMAIN stack[t] = 1 .. Len(stack[t])
    BY <1>1
  <1> QED
    BY <1>1, <1>2 DEF Top, Popped

(* A thread that leaves the entry on top: the entry may lose its right to be*)
(* there, the others keep theirs.                                           *)
LEMMA PopStep ==
  ASSUME StackInv, NEW t \in Thread, stack[t] # <<>>, Pop(t), Keeps(Top(t))
  PROVE  StackInv'
  <1> DEFINE q == Popped(t)
             n == Len(stack[t]) - 1
  <1>1. /\ Top(t) \in Entry /\ q \in Seq(Entry) /\ Len(q) = n
        /\ n \in Nat /\ n < Len(stack[t]) /\ Len(stack[t]) \in Nat
        /\ \A i \in 1 .. n : q[i] = stack[t][i]
        /\ \A i \in DOMAIN stack[t] : i > n => stack[t][i] = Top(t)
    BY TopEntry
  <1>2. stack' = [stack EXCEPT ![t] = q]
    BY DEF Pop
  <1> HIDE DEF q, n
  <1>3. \A i \in DOMAIN q : ~(i > n)
    BY <1>1
  <1>4. n <= Len(stack[t]) /\ n <= Len(q)
    BY <1>1
  <1> QED
    BY <1>1, <1>2, <1>3, <1>4, StackStep

(* Symmetric transfer: another entry takes the place of the top one.        *)
LEMMA TransferStep ==
  ASSUME StackInv, NEW t \in Thread, NEW y \in Entry, stack[t] # <<>>, Keeps(Top(t)),
         stack' = [stack EXCEPT ![t] = Append(Popped(t), y)],
         y[2] = "started" \/ Fresh(y, t)
  PROVE  StackInv'
  <1> DEFINE q == Append(Popped(t), y)
             n == Len(stack[t]) - 1
  <1>1. /\ Top(t) \in Entry /\ Popped(t) \in Seq(Entry) /\ Len(Popped(t)) = n
        /\ n \in Nat /\ n < Len(stack[t]) /\ Len(stack[t]) \in Nat
        /\ \A i \in 1 .. n : Popped(t)[i] = stack[t][i]
        /\ \A i \in DOMAIN stack[t] : i > n => stack[t][i] = Top(t)
    BY TopEntry
  <1> HIDE DEF n
  <1>2. q \in Seq(Entry) /\ Len(q) = n + 1 /\ q[n + 1] = y /\ DOMAIN q = 1 .. (n + 1)
    BY <1>1
  <1>3. \A i \in 1 .. n : q[i] = stack[t][i]
    BY <1>1
  <1> HIDE DEF q
  <1>4. \A i \in DOMAIN q : i > n => i = Len(q) /\ q[i] = y
    BY <1>1, <1>2
  <1>5. n <= Len(stack[t]) /\ n <= Len(q)
    BY <1>1, <1>2
  <1>6. stack' = [stack EXCEPT ![t] = q]
    BY DEF q
  <1>7. \A i \in DOMAIN q : i > n =>
          q[i][2] = "started" \/ (i = Len(q) /\ q[i] = y /\ Fresh(y, t))
    BY <1>4
  <1>8. /\ Top(t) \in Entry /\ n \in Nat /\ q \in Seq(Entry) /\ n < Len(stack[t])
        /\ \A i \in DOMAIN stack[t] : i > n => stack[t][i] = Top(t)
    BY <1>1, <1>2
  <1> QED
    BY <1>3, <1>5, <1>6, <1>7, <1>8, StackStep

(* resume(): a body that stood nowhere comes on top.                        *)
LEMMA PushStep ==
  ASSUME StackInv, NEW t \in Thread, NEW f \in Frame, Push(t, f),
         Fresh(<<f, "body">>, t), Keeps(<<Child, "started">>)
  PROVE  StackInv'
  <1> DEFINE y == <<f, "body">>
             gone == <<Child, "started">>
             q == Append(stack[t], y)
             n == Len(stack[t])
  <1>1. y \in Entry /\ gone \in Entry /\ gone[2] = "started" /\ stack[t] \in Seq(Entry)
    BY Frames DEF Entry, StackInv
  <1>2. stack' = [stack EXCEPT ![t] = q]
    BY DEF Push
  <1>a. Fresh(y, t) /\ Keeps(gone)
    OBVIOUS
  <1> HIDE DEF y, gone
  <1>3. /\ q \in Seq(Entry) /\ n \in Nat /\ Len(q) = n + 1 /\ q[n + 1] = y
        /\ DOMAIN q = 1 .. (n + 1) /\ \A i \in 1 .. n : q[i] = stack[t][i]
        /\ \A i \in DOMAIN stack[t] : ~(i > n)
    BY <1>1
  <1>4. n <= Len(stack[t])
    BY <1>3
  <1> HIDE DEF q, n
  <1>5. n <= Len(q) /\ \A i \in DOMAIN q : i > n => i = Len(q) /\ q[i] = y
    BY <1>3
  <1> QED
    BY <1>1, <1>2, <1>a, <1>3, <1>4, <1>5, StackStep, ZenonT(40)

(* No stack changes.  Main's is empty when SyncWait() destroys its wrapper. *)
LEMMA SameStacks ==
  ASSUME StackInv, UNCHANGED stack,
         \A x \in Entry, u \in Thread :
           stack[u] # <<>> /\ x[2] # "started" /\ MayStand(x, u) => MayStand(x, u)'
  PROVE  StackInv'
  <1>1. ASSUME NEW u \in Thread, NEW i \in DOMAIN stack[u]
        PROVE  stack[u][i] \in Entry /\ stack[u] # <<>>
    <2>1. stack[u] \in Seq(Entry)
      BY DEF StackInv
    <2> QED
      BY <2>1
  <1>2. \A u \in Thread : \A i \in DOMAIN stack[u] :
          stack[u][i][2] = "started" \/ MayStand(stack[u][i], u)'
    BY <1>1 DEF StackInv
  <1> QED
    BY <1>2 DEF StackInv

(* An entry keeps its right to be on a stack when its coroutine stays       *)
(* active, a start that is still to come stays so, and a wrapper that       *)
(* SyncWait() destroyed stays destroyed.                                    *)
LEMMA KeepsFrom ==
  ASSUME NEW gone \in Entry, host' = host,
         \A f \in Frame : gone # <<f, "body">> /\ Active(f) => Active(f)',
         gone # <<Child, "start">> /\ frame[Leaf] = "new" => frame'[Leaf] = "new",
         host = "sync" /\ frame[Wrapper] = "freed" => frame'[Wrapper] = "freed"
  PROVE  Keeps(gone)
  <1> SUFFICES ASSUME NEW x \in Entry, NEW u \in Thread, x # gone, x[2] # "started",
                      MayStand(x, u)
               PROVE  MayStand(x, u)'
    BY DEF Keeps
  <1>1. CASE x[2] = "body" /\ Active(x[1])
    <2>1. x[1] \in Frame /\ x = <<x[1], "body">>
      BY <1>1 DEF Entry
    <2>2. Active(x[1])'
      BY <1>1, <2>1
    <2> QED
      BY <1>1, <2>2 DEF MayStand
  <1>2. CASE x = <<Child, "start">> /\ frame[Leaf] = "new"
    BY <1>2 DEF MayStand
  <1>3. CASE x = <<Wrapper, "body">> /\ host = "sync" /\ frame[Wrapper] = "freed" /\ u # Main
    BY <1>3 DEF MayStand
  <1> QED
    BY <1>1, <1>2, <1>3 DEF MayStand

(* A coroutine that becomes active was on no stack.                         *)
LEMMA FreshBody ==
  ASSUME NEW f \in Frame, NEW t \in Thread, ~Active(f), Active(f)',
         ~(f = Wrapper /\ host = "sync" /\ frame[Wrapper] = "freed")
  PROVE  Fresh(<<f, "body">>, t)
  BY DEF Fresh, MayStand

(* A step that leaves the stacks alone and takes nobody's right to be there.*)
LEMMA SameKeeps ==
  ASSUME StackInv, UNCHANGED stack, Keeps(<<Child, "started">>)
  PROVE  StackInv'
  <1>1. \A x \in Entry : x[2] # "started" => x # <<Child, "started">>
    OBVIOUS
  <1> QED
    BY <1>1, SameStacks DEF Keeps

(* The entries a stack can have differ from each other.                     *)
LEMMA OtherEntries ==
  /\ <<Child, "started">> \in Entry /\ <<Child, "start">> \in Entry
  /\ \A f \in Frame : /\ <<f, "body">> \in Entry /\ <<Child, "started">> # <<f, "body">>
                      /\ <<Child, "start">> # <<f, "body">>
                      /\ \A g \in Frame : <<f, "body">> = <<g, "body">> => f = g
  /\ <<Child, "started">> # <<Child, "start">>
  BY Frames DEF Entry

(* The step takes the body of g off. *)
LEMMA KeepsBody ==
  ASSUME NEW g \in Frame, host' = host,
         \A f \in Frame : f # g /\ Active(f) => Active(f)',
         frame[Leaf] = "new" => frame'[Leaf] = "new",
         host = "sync" /\ frame[Wrapper] = "freed" => frame'[Wrapper] = "freed"
  PROVE  Keeps(<<g, "body">>)
  <1> PICK gone \in Entry : gone = <<g, "body">>
    BY OtherEntries
  <1>1. \A f \in Frame : gone # <<f, "body">> => f # g
    OBVIOUS
  <1> QED
    BY <1>1, KeepsFrom

(* The call of the task function leaves on the stacks only who may stand    *)
(* there.                                                                   *)
LEMMA MakeTaskStack ==
  ASSUME ControlInv, StackInv, MakeTask
  PROVE  StackInv'
  <1>k. Keeps(<<Child, "started">>)
    <2>1. \A f \in Frame : <<Child, "started">> # <<f, "body">> /\ Active(f) => Active(f)'
      BY Frames, OtherEntries DEF Active, MakeTask, Create, At, promiseVars, execVars,
         taskVars, waitVars, ControlInv, FrameTypes, HostInv, CallerInv, LeafInv,
         ScheduledInv, host_frame, other_frame
    <2>2. <<Child, "started">> # <<Child, "start">> /\ frame[Leaf] = "new" => frame'[Leaf] = "new"
      BY Frames, OtherEntries DEF MakeTask, Create, At, promiseVars, execVars, taskVars,
         waitVars, ControlInv, FrameTypes, HostInv, CallerInv, LeafInv, ScheduledInv,
         host_frame, other_frame
    <2>3. host' = host /\ (host = "sync" /\ frame[Wrapper] = "freed" => frame'[Wrapper] = "freed")
      BY Frames DEF MakeTask, Create, At, promiseVars, execVars, taskVars, waitVars,
         ControlInv, FrameTypes, HostInv, CallerInv, LeafInv, ScheduledInv, host_frame,
         other_frame
    <2> QED
      BY <2>1, <2>2, <2>3, OtherEntries, KeepsFrom
  <1> QED
    BY <1>k, SameKeeps DEF MakeTask, taskVars

(* Dropping a task that nobody awaits leaves on the stacks only who may     *)
(* stand there.                                                             *)
LEMMA DropTaskStack ==
  ASSUME ControlInv, StackInv, DropTask
  PROVE  StackInv'
  <1>k. Keeps(<<Child, "started">>)
    <2>1. \A f \in Frame : <<Child, "started">> # <<f, "body">> /\ Active(f) => Active(f)'
      BY Frames, OtherEntries DEF Active, DropTask, Destroy, promiseVars, execVars,
         taskVars, waitVars, ControlInv, FrameTypes, HostInv, CallerInv, LeafInv,
         ScheduledInv, host_frame, other_frame
    <2>2. <<Child, "started">> # <<Child, "start">> /\ frame[Leaf] = "new" => frame'[Leaf] = "new"
      BY Frames, OtherEntries DEF DropTask, Destroy, promiseVars, execVars, taskVars,
         waitVars, ControlInv, FrameTypes, HostInv, CallerInv, LeafInv, ScheduledInv,
         host_frame, other_frame
    <2>3. host' = host /\ (host = "sync" /\ frame[Wrapper] = "freed" => frame'[Wrapper] = "freed")
      BY Frames DEF DropTask, Destroy, promiseVars, execVars, taskVars, waitVars,
         ControlInv, FrameTypes, HostInv, CallerInv, LeafInv, ScheduledInv, host_frame,
         other_frame
    <2> QED
      BY <2>1, <2>2, <2>3, OtherEntries, KeepsFrom
  <1> QED
    BY <1>k, SameKeeps DEF DropTask, taskVars

(* Spawn() on an executor leaves on the stacks only who may stand there.    *)
LEMMA SpawnOnStack ==
  ASSUME ControlInv, StackInv, SpawnOn
  PROVE  StackInv'
  <1>k. Keeps(<<Child, "started">>)
    <2>1. \A f \in Frame : <<Child, "started">> # <<f, "body">> /\ Active(f) => Active(f)'
      BY Frames, OtherEntries DEF Active, SpawnOn, Create, At, promiseVars, execVars,
         taskVars, waitVars, ControlInv, FrameTypes, HostInv, CallerInv, LeafInv,
         ScheduledInv, host_frame, other_frame
    <2>2. <<Child, "started">> # <<Child, "start">> /\ frame[Leaf] = "new" => frame'[Leaf] = "new"
      BY Frames, OtherEntries DEF SpawnOn, Create, At, promiseVars, execVars, taskVars,
         waitVars, ControlInv, FrameTypes, HostInv, CallerInv, LeafInv, ScheduledInv,
         host_frame, other_frame
    <2>3. host' = host /\ (host = "sync" /\ frame[Wrapper] = "freed" => frame'[Wrapper] = "freed")
      BY Frames DEF SpawnOn, Create, At, promiseVars, execVars, taskVars, waitVars,
         ControlInv, FrameTypes, HostInv, CallerInv, LeafInv, ScheduledInv, host_frame,
         other_frame
    <2> QED
      BY <2>1, <2>2, <2>3, OtherEntries, KeepsFrom
  <1> QED
    BY <1>k, SameKeeps DEF SpawnOn, taskVars

(* Spawn() without an executor leaves on the stacks only who may stand      *)
(* there.                                                                   *)
LEMMA SpawnNoExecutorStack ==
  ASSUME ControlInv, StackInv, SpawnNoExecutor
  PROVE  StackInv'
  <1>k. Keeps(<<Child, "started">>)
    <2>1. \A f \in Frame : <<Child, "started">> # <<f, "body">> /\ Active(f) => Active(f)'
      BY Frames, OtherEntries DEF Active, SpawnNoExecutor, Destroy, promiseVars, execVars,
         taskVars, waitVars, ControlInv, FrameTypes, HostInv, CallerInv, LeafInv,
         ScheduledInv, host_frame, other_frame
    <2>2. <<Child, "started">> # <<Child, "start">> /\ frame[Leaf] = "new" => frame'[Leaf] = "new"
      BY Frames, OtherEntries DEF SpawnNoExecutor, Destroy, promiseVars, execVars,
         taskVars, waitVars, ControlInv, FrameTypes, HostInv, CallerInv, LeafInv,
         ScheduledInv, host_frame, other_frame
    <2>3. host' = host /\ (host = "sync" /\ frame[Wrapper] = "freed" => frame'[Wrapper] = "freed")
      BY Frames DEF SpawnNoExecutor, Destroy, promiseVars, execVars, taskVars, waitVars,
         ControlInv, FrameTypes, HostInv, CallerInv, LeafInv, ScheduledInv, host_frame,
         other_frame
    <2> QED
      BY <2>1, <2>2, <2>3, OtherEntries, KeepsFrom
  <1> QED
    BY <1>k, SameKeeps DEF SpawnNoExecutor, taskVars

(* Creating a DetachedTask leaves on the stacks only who may stand there.   *)
LEMMA MakeDetachedStack ==
  ASSUME ControlInv, StackInv, MakeDetached
  PROVE  StackInv'
  <1>k. Keeps(<<Child, "started">>)
    <2>1. \A f \in Frame : <<Child, "started">> # <<f, "body">> /\ Active(f) => Active(f)'
      BY Frames, OtherEntries DEF Active, MakeDetached, Create, At, promiseVars, execVars,
         taskVars, waitVars, ControlInv, FrameTypes, HostInv, CallerInv, LeafInv,
         ScheduledInv, host_frame, other_frame
    <2>2. <<Child, "started">> # <<Child, "start">> /\ frame[Leaf] = "new" => frame'[Leaf] = "new"
      BY Frames, OtherEntries DEF MakeDetached, Create, At, promiseVars, execVars,
         taskVars, waitVars, ControlInv, FrameTypes, HostInv, CallerInv, LeafInv,
         ScheduledInv, host_frame, other_frame
    <2>3. host' = host /\ (host = "sync" /\ frame[Wrapper] = "freed" => frame'[Wrapper] = "freed")
      BY Frames DEF MakeDetached, Create, At, promiseVars, execVars, taskVars, waitVars,
         ControlInv, FrameTypes, HostInv, CallerInv, LeafInv, ScheduledInv, host_frame,
         other_frame
    <2> QED
      BY <2>1, <2>2, <2>3, OtherEntries, KeepsFrom
  <1> QED
    BY <1>k, SameKeeps DEF MakeDetached, taskVars

(* SetCallback() of a DetachedTask leaves on the stacks only who may stand  *)
(* there.                                                                   *)
LEMMA SetCallbackStack ==
  ASSUME ControlInv, StackInv, SetCallback
  PROVE  StackInv'
  <1>k. Keeps(<<Child, "started">>)
    <2>1. \A f \in Frame : <<Child, "started">> # <<f, "body">> /\ Active(f) => Active(f)'
      BY Frames, OtherEntries DEF Active, SetCallback, promiseVars, execVars, taskVars,
         waitVars, ControlInv, FrameTypes, HostInv, CallerInv, LeafInv, ScheduledInv,
         host_frame, other_frame
    <2>2. <<Child, "started">> # <<Child, "start">> /\ frame[Leaf] = "new" => frame'[Leaf] = "new"
      BY Frames, OtherEntries DEF SetCallback, promiseVars, execVars, taskVars, waitVars,
         ControlInv, FrameTypes, HostInv, CallerInv, LeafInv, ScheduledInv, host_frame,
         other_frame
    <2>3. host' = host /\ (host = "sync" /\ frame[Wrapper] = "freed" => frame'[Wrapper] = "freed")
      BY Frames DEF SetCallback, promiseVars, execVars, taskVars, waitVars, ControlInv,
         FrameTypes, HostInv, CallerInv, LeafInv, ScheduledInv, host_frame, other_frame
    <2> QED
      BY <2>1, <2>2, <2>3, OtherEntries, KeepsFrom
  <1> QED
    BY <1>k, SameKeeps DEF SetCallback, taskVars

(* Dropping a DetachedTask that was not started leaves on the stacks only   *)
(* who may stand there.                                                     *)
LEMMA DetachedDroppedStack ==
  ASSUME ControlInv, StackInv, DetachedDropped
  PROVE  StackInv'
  <1>k. Keeps(<<Child, "started">>)
    <2>1. \A f \in Frame : <<Child, "started">> # <<f, "body">> /\ Active(f) => Active(f)'
      BY Frames, OtherEntries DEF Active, DetachedDropped, Destroy, promiseVars, execVars,
         taskVars, waitVars, ControlInv, FrameTypes, HostInv, CallerInv, LeafInv,
         ScheduledInv, host_frame, other_frame
    <2>2. <<Child, "started">> # <<Child, "start">> /\ frame[Leaf] = "new" => frame'[Leaf] = "new"
      BY Frames, OtherEntries DEF DetachedDropped, Destroy, promiseVars, execVars,
         taskVars, waitVars, ControlInv, FrameTypes, HostInv, CallerInv, LeafInv,
         ScheduledInv, host_frame, other_frame
    <2>3. host' = host /\ (host = "sync" /\ frame[Wrapper] = "freed" => frame'[Wrapper] = "freed")
      BY Frames DEF DetachedDropped, Destroy, promiseVars, execVars, taskVars, waitVars,
         ControlInv, FrameTypes, HostInv, CallerInv, LeafInv, ScheduledInv, host_frame,
         other_frame
    <2> QED
      BY <2>1, <2>2, <2>3, OtherEntries, KeepsFrom
  <1> QED
    BY <1>k, SameKeeps DEF DetachedDropped, taskVars

(* The child going on after a co_await leaves on the stacks only who may    *)
(* stand there.                                                             *)
LEMMA ChildResumedStack ==
  ASSUME ControlInv, StackInv, NEW t \in Thread, ChildResumed(t)
  PROVE  StackInv'
  <1>k. Keeps(<<Child, "started">>)
    <2>1. \A f \in Frame : <<Child, "started">> # <<f, "body">> /\ Active(f) => Active(f)'
      BY Frames, OtherEntries, ZenonT(40) DEF Active, ChildResumed, Running, At, Destroy,
         promiseVars, execVars, taskVars, waitVars, ControlInv, FrameTypes, HostInv,
         CallerInv, LeafInv, ScheduledInv, host_frame, other_frame
    <2>2. <<Child, "started">> # <<Child, "start">> /\ frame[Leaf] = "new" => frame'[Leaf] = "new"
      BY Frames, OtherEntries DEF ChildResumed, Running, At, Destroy, promiseVars,
         execVars, taskVars, waitVars, ControlInv, FrameTypes, HostInv, CallerInv,
         LeafInv, ScheduledInv, host_frame, other_frame
    <2>3. host' = host /\ (host = "sync" /\ frame[Wrapper] = "freed" => frame'[Wrapper] = "freed")
      BY Frames DEF ChildResumed, Running, At, Destroy, promiseVars, execVars, taskVars,
         waitVars, ControlInv, FrameTypes, HostInv, CallerInv, LeafInv, ScheduledInv,
         host_frame, other_frame
    <2> QED
      BY <2>1, <2>2, <2>3, OtherEntries, KeepsFrom
  <1> QED
    BY <1>k, SameKeeps DEF ChildResumed, taskVars

(* Completion of a spawned task leaves on the stacks only who may stand     *)
(* there.                                                                   *)
LEMMA CompleteStack ==
  ASSUME ControlInv, StackInv, NEW t \in Thread, Complete(t)
  PROVE  StackInv'
  <1>k. Keeps(<<Child, "started">>)
    <2>1. \A f \in Frame : <<Child, "started">> # <<f, "body">> /\ Active(f) => Active(f)'
      BY Frames, OtherEntries DEF Active, Complete, Running, AwaitResume, At, promiseVars,
         execVars, taskVars, waitVars, ControlInv, FrameTypes, HostInv, CallerInv,
         LeafInv, ScheduledInv, host_frame, other_frame
    <2>2. <<Child, "started">> # <<Child, "start">> /\ frame[Leaf] = "new" => frame'[Leaf] = "new"
      BY Frames, OtherEntries DEF Complete, Running, AwaitResume, At, promiseVars,
         execVars, taskVars, waitVars, ControlInv, FrameTypes, HostInv, CallerInv,
         LeafInv, ScheduledInv, host_frame, other_frame
    <2>3. host' = host /\ (host = "sync" /\ frame[Wrapper] = "freed" => frame'[Wrapper] = "freed")
      BY Frames DEF Complete, Running, AwaitResume, At, promiseVars, execVars, taskVars,
         waitVars, ControlInv, FrameTypes, HostInv, CallerInv, LeafInv, ScheduledInv,
         host_frame, other_frame
    <2> QED
      BY <2>1, <2>2, <2>3, OtherEntries, KeepsFrom
  <1> QED
    BY <1>k, SameKeeps DEF Complete, taskVars

(* The call of a completion callback leaves on the stacks only who may stand*)
(* there.                                                                   *)
LEMMA CompleteCallStack ==
  ASSUME ControlInv, StackInv, NEW t \in Thread, CompleteCall(t)
  PROVE  StackInv'
  <1>k. Keeps(<<Child, "started">>)
    <2>1. \A f \in Frame : <<Child, "started">> # <<f, "body">> /\ Active(f) => Active(f)'
      BY Frames, OtherEntries DEF Active, CompleteCall, Running, At, promiseVars,
         execVars, taskVars, waitVars, ControlInv, FrameTypes, HostInv, CallerInv,
         LeafInv, ScheduledInv, host_frame, other_frame
    <2>2. <<Child, "started">> # <<Child, "start">> /\ frame[Leaf] = "new" => frame'[Leaf] = "new"
      BY Frames, OtherEntries DEF CompleteCall, Running, At, promiseVars, execVars,
         taskVars, waitVars, ControlInv, FrameTypes, HostInv, CallerInv, LeafInv,
         ScheduledInv, host_frame, other_frame
    <2>3. host' = host /\ (host = "sync" /\ frame[Wrapper] = "freed" => frame'[Wrapper] = "freed")
      BY Frames DEF CompleteCall, Running, At, promiseVars, execVars, taskVars, waitVars,
         ControlInv, FrameTypes, HostInv, CallerInv, LeafInv, ScheduledInv, host_frame,
         other_frame
    <2> QED
      BY <2>1, <2>2, <2>3, OtherEntries, KeepsFrom
  <1> QED
    BY <1>k, SameKeeps DEF CompleteCall, taskVars

(* The wrapper of SyncWait() storing the result leaves on the stacks only   *)
(* who may stand there.                                                     *)
LEMMA StoreResultStack ==
  ASSUME ControlInv, StackInv, NEW t \in Thread, StoreResult(t)
  PROVE  StackInv'
  <1>k. Keeps(<<Child, "started">>)
    <2>1. \A f \in Frame : <<Child, "started">> # <<f, "body">> /\ Active(f) => Active(f)'
      BY Frames, OtherEntries DEF Active, StoreResult, Running, AwaitResume, At,
         promiseVars, execVars, taskVars, waitVars, ControlInv, FrameTypes, HostInv,
         CallerInv, LeafInv, ScheduledInv, host_frame, other_frame
    <2>2. <<Child, "started">> # <<Child, "start">> /\ frame[Leaf] = "new" => frame'[Leaf] = "new"
      BY Frames, OtherEntries DEF StoreResult, Running, AwaitResume, At, promiseVars,
         execVars, taskVars, waitVars, ControlInv, FrameTypes, HostInv, CallerInv,
         LeafInv, ScheduledInv, host_frame, other_frame
    <2>3. host' = host /\ (host = "sync" /\ frame[Wrapper] = "freed" => frame'[Wrapper] = "freed")
      BY Frames DEF StoreResult, Running, AwaitResume, At, promiseVars, execVars,
         taskVars, waitVars, ControlInv, FrameTypes, HostInv, CallerInv, LeafInv,
         ScheduledInv, host_frame, other_frame
    <2> QED
      BY <2>1, <2>2, <2>3, OtherEntries, KeepsFrom
  <1> QED
    BY <1>k, SameKeeps DEF StoreResult, taskVars

(* The wrapper of SyncWait() signalling leaves on the stacks only who may   *)
(* stand there.                                                             *)
LEMMA SignalStack ==
  ASSUME ControlInv, StackInv, NEW t \in Thread, Signal(t)
  PROVE  StackInv'
  <1>k. Keeps(<<Child, "started">>)
    <2>1. \A f \in Frame : <<Child, "started">> # <<f, "body">> /\ Active(f) => Active(f)'
      BY Frames, OtherEntries DEF Active, Signal, Running, At, promiseVars, execVars,
         taskVars, waitVars, ControlInv, FrameTypes, HostInv, CallerInv, LeafInv,
         ScheduledInv, host_frame, other_frame
    <2>2. <<Child, "started">> # <<Child, "start">> /\ frame[Leaf] = "new" => frame'[Leaf] = "new"
      BY Frames, OtherEntries DEF Signal, Running, At, promiseVars, execVars, taskVars,
         waitVars, ControlInv, FrameTypes, HostInv, CallerInv, LeafInv, ScheduledInv,
         host_frame, other_frame
    <2>3. host' = host /\ (host = "sync" /\ frame[Wrapper] = "freed" => frame'[Wrapper] = "freed")
      BY Frames DEF Signal, Running, At, promiseVars, execVars, taskVars, waitVars,
         ControlInv, FrameTypes, HostInv, CallerInv, LeafInv, ScheduledInv, host_frame,
         other_frame
    <2> QED
      BY <2>1, <2>2, <2>3, OtherEntries, KeepsFrom
  <1> QED
    BY <1>k, SameKeeps DEF Signal, taskVars

(* final_suspend of a DetachedTask leaves on the stacks only who may stand  *)
(* there.                                                                   *)
LEMMA DetachedFinalStack ==
  ASSUME ControlInv, StackInv, NEW t \in Thread, DetachedFinal(t)
  PROVE  StackInv'
  <1>k. Keeps(<<Child, "started">>)
    <2>1. \A f \in Frame : <<Child, "started">> # <<f, "body">> /\ Active(f) => Active(f)'
      BY Frames, OtherEntries DEF Active, DetachedFinal, Running, AwaitResume, At,
         promiseVars, execVars, taskVars, waitVars, ControlInv, FrameTypes, HostInv,
         CallerInv, LeafInv, ScheduledInv, host_frame, other_frame
    <2>2. <<Child, "started">> # <<Child, "start">> /\ frame[Leaf] = "new" => frame'[Leaf] = "new"
      BY Frames, OtherEntries DEF DetachedFinal, Running, AwaitResume, At, promiseVars,
         execVars, taskVars, waitVars, ControlInv, FrameTypes, HostInv, CallerInv,
         LeafInv, ScheduledInv, host_frame, other_frame
    <2>3. host' = host /\ (host = "sync" /\ frame[Wrapper] = "freed" => frame'[Wrapper] = "freed")
      BY Frames DEF DetachedFinal, Running, AwaitResume, At, promiseVars, execVars,
         taskVars, waitVars, ControlInv, FrameTypes, HostInv, CallerInv, LeafInv,
         ScheduledInv, host_frame, other_frame
    <2> QED
      BY <2>1, <2>2, <2>3, OtherEntries, KeepsFrom
  <1> QED
    BY <1>k, SameKeeps DEF DetachedFinal, taskVars

(* SyncWait() starting its wrapper leaves on the stacks only who may stand  *)
(* there.                                                                   *)
LEMMA SyncWaitStartStack ==
  ASSUME ControlInv, StackInv, SyncWaitStart
  PROVE  StackInv'
  <1>k. Keeps(<<Child, "started">>)
    <2>1. \A f \in Frame : <<Child, "started">> # <<f, "body">> /\ Active(f) => Active(f)'
      BY Frames, OtherEntries DEF Active, SyncWaitStart, Create, At, promiseVars,
         execVars, taskVars, waitVars, ControlInv, FrameTypes, HostInv, CallerInv,
         LeafInv, ScheduledInv, host_frame, other_frame
    <2>2. <<Child, "started">> # <<Child, "start">> /\ frame[Leaf] = "new" => frame'[Leaf] = "new"
      BY Frames, OtherEntries DEF SyncWaitStart, Create, At, promiseVars, execVars,
         taskVars, waitVars, ControlInv, FrameTypes, HostInv, CallerInv, LeafInv,
         ScheduledInv, host_frame, other_frame
    <2>3. host' = host /\ (host = "sync" /\ frame[Wrapper] = "freed" => frame'[Wrapper] = "freed")
      BY Frames DEF SyncWaitStart, Create, At, promiseVars, execVars, taskVars, waitVars,
         ControlInv, FrameTypes, HostInv, CallerInv, LeafInv, ScheduledInv, host_frame,
         other_frame
    <2> QED
      BY <2>1, <2>2, <2>3, OtherEntries, KeepsFrom
  <1>f. Fresh(<<Wrapper, "body">>, Main)
    <2>1. Wrapper \in Frame /\ ~Active(Wrapper) /\ ~(host = "sync" /\ frame[Wrapper] = "freed")
      BY Frames DEF Active, SyncWaitStart, Create, At, promiseVars, execVars, taskVars,
         waitVars, ControlInv, FrameTypes, HostInv, CallerInv, LeafInv, ScheduledInv,
         host_frame, other_frame
    <2>2. Active(Wrapper)'
      BY Frames DEF Active, SyncWaitStart, Create, At, promiseVars, execVars, taskVars,
         waitVars, ControlInv, FrameTypes, HostInv, CallerInv, LeafInv, ScheduledInv,
         host_frame, other_frame
    <2> QED
      BY <2>1, <2>2, Frames, FreshBody
  <1> QED
    BY <1>k, <1>f, Frames, PushStep DEF SyncWaitStart

(* Start() of a DetachedTask leaves on the stacks only who may stand there. *)
LEMMA StartStack ==
  ASSUME ControlInv, StackInv, Start
  PROVE  StackInv'
  <1>k. Keeps(<<Child, "started">>)
    <2>1. \A f \in Frame : <<Child, "started">> # <<f, "body">> /\ Active(f) => Active(f)'
      BY Frames, OtherEntries DEF Active, Start, At, promiseVars, execVars, taskVars,
         waitVars, ControlInv, FrameTypes, HostInv, CallerInv, LeafInv, ScheduledInv,
         host_frame, other_frame
    <2>2. <<Child, "started">> # <<Child, "start">> /\ frame[Leaf] = "new" => frame'[Leaf] = "new"
      BY Frames, OtherEntries DEF Start, At, promiseVars, execVars, taskVars, waitVars,
         ControlInv, FrameTypes, HostInv, CallerInv, LeafInv, ScheduledInv, host_frame,
         other_frame
    <2>3. host' = host /\ (host = "sync" /\ frame[Wrapper] = "freed" => frame'[Wrapper] = "freed")
      BY Frames DEF Start, At, promiseVars, execVars, taskVars, waitVars, ControlInv,
         FrameTypes, HostInv, CallerInv, LeafInv, ScheduledInv, host_frame, other_frame
    <2> QED
      BY <2>1, <2>2, <2>3, OtherEntries, KeepsFrom
  <1>f. Fresh(<<Detached, "body">>, Main)
    <2>1. /\ Detached \in Frame /\ ~Active(Detached)
          /\ ~(Detached = Wrapper /\ host = "sync" /\ frame[Wrapper] = "freed")
      BY Frames DEF Active, Start, At, promiseVars, execVars, taskVars, waitVars,
         ControlInv, FrameTypes, HostInv, CallerInv, LeafInv, ScheduledInv, host_frame,
         other_frame
    <2>2. Active(Detached)'
      BY Frames DEF Active, Start, At, promiseVars, execVars, taskVars, waitVars,
         ControlInv, FrameTypes, HostInv, CallerInv, LeafInv, ScheduledInv, host_frame,
         other_frame
    <2> QED
      BY <2>1, <2>2, Frames, FreshBody
  <1> QED
    BY <1>k, <1>f, Frames, PushStep DEF Start

(* The posted operation, on whichever thread runs it leaves on the stacks   *)
(* only who may stand there.                                                *)
LEMMA RunPostedStack ==
  ASSUME ControlInv, StackInv, NEW t \in Thread, RunPosted(t)
  PROVE  StackInv'
  <1>k. Keeps(<<Child, "started">>)
    <2>1. \A f \in Frame : <<Child, "started">> # <<f, "body">> /\ Active(f) => Active(f)'
      BY Frames, OtherEntries, ZenonT(40) DEF Active, RunPosted, At, promiseVars,
         execVars, taskVars, waitVars, ControlInv, FrameTypes, HostInv, CallerInv,
         LeafInv, ScheduledInv, host_frame, other_frame
    <2>2. <<Child, "started">> # <<Child, "start">> /\ frame[Leaf] = "new" => frame'[Leaf] = "new"
      BY Frames, OtherEntries DEF RunPosted, At, promiseVars, execVars, taskVars,
         waitVars, ControlInv, FrameTypes, HostInv, CallerInv, LeafInv, ScheduledInv,
         host_frame, other_frame
    <2>3. host' = host /\ (host = "sync" /\ frame[Wrapper] = "freed" => frame'[Wrapper] = "freed")
      BY Frames DEF RunPosted, At, promiseVars, execVars, taskVars, waitVars, ControlInv,
         FrameTypes, HostInv, CallerInv, LeafInv, ScheduledInv, host_frame, other_frame
    <2> QED
      BY <2>1, <2>2, <2>3, OtherEntries, KeepsFrom
  <1>f. Fresh(<<Child, "body">>, t)
    <2>1. Child \in Frame /\ ~Active(Child) /\ ~(Child = Wrapper /\ host = "sync" /\ frame[Wrapper] = "freed")
      BY Frames DEF Active, RunPosted, At, promiseVars, execVars, taskVars, waitVars,
         ControlInv, FrameTypes, HostInv, CallerInv, LeafInv, ScheduledInv, host_frame,
         other_frame
    <2>2. Active(Child)'
      BY Frames DEF Active, RunPosted, At, promiseVars, execVars, taskVars, waitVars,
         ControlInv, FrameTypes, HostInv, CallerInv, LeafInv, ScheduledInv, host_frame,
         other_frame
    <2> QED
      BY <2>1, <2>2, Frames, FreshBody
  <1> QED
    BY <1>k, <1>f, Frames, PushStep DEF RunPosted

(* set_value() of a receiver leaves on the stacks only who may stand there. *)
LEMMA SetValueStack ==
  ASSUME ControlInv, StackInv, NEW t \in Thread, SetValue(t)
  PROVE  StackInv'
  <1>k. Keeps(<<Child, "started">>)
    <2>1. \A f \in Frame : <<Child, "started">> # <<f, "body">> /\ Active(f) => Active(f)'
      BY Frames, OtherEntries, ZenonT(40) DEF Active, SetValue, Running, promiseVars,
         execVars, taskVars, waitVars, ControlInv, FrameTypes, HostInv, CallerInv,
         LeafInv, ScheduledInv, host_frame, other_frame
    <2>2. <<Child, "started">> # <<Child, "start">> /\ frame[Leaf] = "new" => frame'[Leaf] = "new"
      BY Frames, OtherEntries DEF SetValue, Running, promiseVars, execVars, taskVars,
         waitVars, ControlInv, FrameTypes, HostInv, CallerInv, LeafInv, ScheduledInv,
         host_frame, other_frame
    <2>3. host' = host /\ (host = "sync" /\ frame[Wrapper] = "freed" => frame'[Wrapper] = "freed")
      BY Frames DEF SetValue, Running, promiseVars, execVars, taskVars, waitVars,
         ControlInv, FrameTypes, HostInv, CallerInv, LeafInv, ScheduledInv, host_frame,
         other_frame
    <2> QED
      BY <2>1, <2>2, <2>3, OtherEntries, KeepsFrom
  <1>f. Fresh(<<Child, "body">>, t)
    <2>1. Child \in Frame /\ ~Active(Child) /\ ~(Child = Wrapper /\ host = "sync" /\ frame[Wrapper] = "freed")
      BY Frames DEF Active, SetValue, Running, promiseVars, execVars, taskVars, waitVars,
         ControlInv, FrameTypes, HostInv, CallerInv, LeafInv, ScheduledInv, host_frame,
         other_frame
    <2>2. Active(Child)'
      BY Frames DEF Active, SetValue, Running, promiseVars, execVars, taskVars, waitVars,
         ControlInv, FrameTypes, HostInv, CallerInv, LeafInv, ScheduledInv, host_frame,
         other_frame
    <2> QED
      BY <2>1, <2>2, Frames, FreshBody
  <1> QED
    BY <1>k, <1>f, Frames, PushStep DEF SetValue

(* A thread taking a scheduled coroutine leaves on the stacks only who may  *)
(* stand there.                                                             *)
LEMMA RunScheduledStack ==
  ASSUME ControlInv, StackInv, NEW t \in Thread, RunScheduled(t)
  PROVE  StackInv'
  <1> PICK f \in scheduled : /\ scheduled' = scheduled \ {f} /\ Push(t, f)
                              /\ frame' = [frame EXCEPT ![f] = "run"]
    BY DEF RunScheduled, At
  <1>1. /\ f \in Frame /\ f \in {Child, Leaf, Wrapper} /\ frame[f] \in {"hop", "new"} /\ host' = host
        /\ frame[f] = "new" => f = Wrapper
    BY Frames DEF RunScheduled, ControlInv, ScheduledInv, FrameTypes
  <1>k. Keeps(<<Child, "started">>)
    <2>1. \A g \in Frame : <<Child, "started">> # <<g, "body">> /\ Active(g) => Active(g)'
      BY Frames, OtherEntries, <1>1, ZenonT(40) DEF Active, promiseVars, execVars,
         taskVars, waitVars, ControlInv, FrameTypes, HostInv, CallerInv, LeafInv,
         ScheduledInv, host_frame, other_frame
    <2>2. <<Child, "started">> # <<Child, "start">> /\ frame[Leaf] = "new" => frame'[Leaf] = "new"
      BY Frames, OtherEntries, <1>1 DEF FrameTypes, promiseVars, execVars, taskVars,
         waitVars, ControlInv, FrameTypes, HostInv, CallerInv, LeafInv, ScheduledInv,
         host_frame, other_frame
    <2>3. host' = host /\ (host = "sync" /\ frame[Wrapper] = "freed" => frame'[Wrapper] = "freed")
      BY Frames, <1>1 DEF FrameTypes, promiseVars, execVars, taskVars, waitVars,
         ControlInv, FrameTypes, HostInv, CallerInv, LeafInv, ScheduledInv, host_frame,
         other_frame
    <2> QED
      BY <2>1, <2>2, <2>3, OtherEntries, KeepsFrom
  <1>f. Fresh(<<f, "body">>, t)
    <2>1. f \in Frame /\ ~Active(f) /\ ~(f = Wrapper /\ host = "sync" /\ frame[Wrapper] = "freed")
      BY Frames, <1>1 DEF Active, promiseVars, execVars, taskVars, waitVars, ControlInv,
         FrameTypes, HostInv, CallerInv, LeafInv, ScheduledInv, host_frame, other_frame
    <2>2. Active(f)'
      BY Frames, <1>1 DEF Active, promiseVars, execVars, taskVars, waitVars, ControlInv,
         FrameTypes, HostInv, CallerInv, LeafInv, ScheduledInv, host_frame, other_frame
    <2> QED
      BY <2>1, <2>2, Frames, FreshBody
  <1> QED
    BY <1>1, <1>k, <1>f, PushStep

(* co_await of the child by its host leaves on the stacks only who may stand*)
(* there.                                                                   *)
LEMMA AwaitChildStack ==
  ASSUME ControlInv, StackInv, NEW t \in Thread, AwaitChild(t)
  PROVE  StackInv'
  <1>1. stack[t] # <<>> /\ Top(t) = <<host_frame, "body">> /\ host_frame \in Frame
    BY Frames DEF AwaitChild, Await, Running, host_frame
  <1>k. Keeps(<<host_frame, "body">>)
    <2>0. host_frame \in Frame
      BY Frames DEF AwaitChild, Await, Running, promiseVars, execVars, taskVars, waitVars,
         ControlInv, FrameTypes, HostInv, CallerInv, LeafInv, ScheduledInv, host_frame,
         other_frame
    <2>1. \A x \in Frame : x # host_frame /\ Active(x) => Active(x)'
      BY Frames DEF Active, AwaitChild, Await, Running, promiseVars, execVars, taskVars,
         waitVars, ControlInv, FrameTypes, HostInv, CallerInv, LeafInv, ScheduledInv,
         host_frame, other_frame
    <2>2. frame[Leaf] = "new" => frame'[Leaf] = "new"
      BY Frames DEF AwaitChild, Await, Running, promiseVars, execVars, taskVars, waitVars,
         ControlInv, FrameTypes, HostInv, CallerInv, LeafInv, ScheduledInv, host_frame,
         other_frame
    <2>3. host' = host /\ (host = "sync" /\ frame[Wrapper] = "freed" => frame'[Wrapper] = "freed")
      BY Frames DEF AwaitChild, Await, Running, promiseVars, execVars, taskVars, waitVars,
         ControlInv, FrameTypes, HostInv, CallerInv, LeafInv, ScheduledInv, host_frame,
         other_frame
    <2> QED
      BY <2>0, <2>1, <2>2, <2>3, KeepsBody
  <1>f. Fresh(<<Child, "body">>, t)
    <2>1. Child \in Frame /\ ~Active(Child) /\ ~(Child = Wrapper /\ host = "sync" /\ frame[Wrapper] = "freed")
      BY Frames DEF Active, AwaitChild, Await, Running, promiseVars, execVars, taskVars,
         waitVars, ControlInv, FrameTypes, HostInv, CallerInv, LeafInv, ScheduledInv,
         host_frame, other_frame
    <2>2. Active(Child)'
      BY Frames DEF Active, AwaitChild, Await, Running, promiseVars, execVars, taskVars,
         waitVars, ControlInv, FrameTypes, HostInv, CallerInv, LeafInv, ScheduledInv,
         host_frame, other_frame
    <2> QED
      BY <2>1, <2>2, Frames, FreshBody
  <1>2. <<Child, "body">> \in Entry /\ stack' = [stack EXCEPT ![t] = Append(Popped(t), <<Child, "body">>)]
    BY Frames, OtherEntries DEF AwaitChild, Await, Running, Transfer
  <1> QED
    BY <1>1, <1>2, <1>k, <1>f, TransferStep

(* co_await of the leaf by the child leaves on the stacks only who may stand*)
(* there.                                                                   *)
LEMMA AwaitLeafStack ==
  ASSUME ControlInv, StackInv, NEW t \in Thread, AwaitLeaf(t)
  PROVE  StackInv'
  <1>1. stack[t] # <<>> /\ Top(t) = <<Child, "body">> /\ Child \in Frame
    BY Frames DEF AwaitLeaf, Await, Create, Running, host_frame
  <1>k. Keeps(<<Child, "body">>)
    <2>0. Child \in Frame
      BY Frames DEF AwaitLeaf, Await, Create, Running, promiseVars, execVars, taskVars,
         waitVars, ControlInv, FrameTypes, HostInv, CallerInv, LeafInv, ScheduledInv,
         host_frame, other_frame
    <2>1. \A x \in Frame : x # Child /\ Active(x) => Active(x)'
      BY Frames, ZenonT(40) DEF Active, AwaitLeaf, Await, Create, Running, promiseVars,
         execVars, taskVars, waitVars, ControlInv, FrameTypes, HostInv, CallerInv,
         LeafInv, ScheduledInv, host_frame, other_frame
    <2>2. frame[Leaf] = "new" => frame'[Leaf] = "new"
      BY Frames DEF AwaitLeaf, Await, Create, Running, promiseVars, execVars, taskVars,
         waitVars, ControlInv, FrameTypes, HostInv, CallerInv, LeafInv, ScheduledInv,
         host_frame, other_frame
    <2>3. host' = host /\ (host = "sync" /\ frame[Wrapper] = "freed" => frame'[Wrapper] = "freed")
      BY Frames DEF AwaitLeaf, Await, Create, Running, promiseVars, execVars, taskVars,
         waitVars, ControlInv, FrameTypes, HostInv, CallerInv, LeafInv, ScheduledInv,
         host_frame, other_frame
    <2> QED
      BY <2>0, <2>1, <2>2, <2>3, KeepsBody
  <1>f. Fresh(<<Leaf, "body">>, t)
    <2>1. Leaf \in Frame /\ ~Active(Leaf) /\ ~(Leaf = Wrapper /\ host = "sync" /\ frame[Wrapper] = "freed")
      BY Frames DEF Active, AwaitLeaf, Await, Create, Running, promiseVars, execVars,
         taskVars, waitVars, ControlInv, FrameTypes, HostInv, CallerInv, LeafInv,
         ScheduledInv, host_frame, other_frame
    <2>2. Active(Leaf)'
      BY Frames DEF Active, AwaitLeaf, Await, Create, Running, promiseVars, execVars,
         taskVars, waitVars, ControlInv, FrameTypes, HostInv, CallerInv, LeafInv,
         ScheduledInv, host_frame, other_frame
    <2> QED
      BY <2>1, <2>2, Frames, FreshBody
  <1>2. <<Leaf, "body">> \in Entry /\ stack' = [stack EXCEPT ![t] = Append(Popped(t), <<Leaf, "body">>)]
    BY Frames, OtherEntries DEF AwaitLeaf, Await, Create, Running, Transfer
  <1> QED
    BY <1>1, <1>2, <1>k, <1>f, TransferStep

(* A coroutine that suspends and is scheduled again leaves on the stacks    *)
(* only who may stand there.                                                *)
LEMMA HopStack ==
  ASSUME ControlInv, StackInv, NEW t \in Thread, NEW f \in {Child, Leaf}, Hop(t, f)
  PROVE  StackInv'
  <1>1. stack[t] # <<>> /\ Top(t) = <<f, "body">> /\ f \in Frame /\ Pop(t)
    BY Frames DEF Hop, Running
  <1>k. Keeps(<<f, "body">>)
    <2>0. f \in Frame
      BY Frames DEF Hop, Running, At, promiseVars, execVars, taskVars, waitVars,
         ControlInv, FrameTypes, HostInv, CallerInv, LeafInv, ScheduledInv, host_frame,
         other_frame
    <2>1. \A x \in Frame : x # f /\ Active(x) => Active(x)'
      BY Frames, ZenonT(40) DEF Active, Hop, Running, At, promiseVars, execVars, taskVars,
         waitVars, ControlInv, FrameTypes, HostInv, CallerInv, LeafInv, ScheduledInv,
         host_frame, other_frame
    <2>2. frame[Leaf] = "new" => frame'[Leaf] = "new"
      BY Frames DEF Hop, Running, At, promiseVars, execVars, taskVars, waitVars,
         ControlInv, FrameTypes, HostInv, CallerInv, LeafInv, ScheduledInv, host_frame,
         other_frame
    <2>3. host' = host /\ (host = "sync" /\ frame[Wrapper] = "freed" => frame'[Wrapper] = "freed")
      BY Frames DEF Hop, Running, At, promiseVars, execVars, taskVars, waitVars,
         ControlInv, FrameTypes, HostInv, CallerInv, LeafInv, ScheduledInv, host_frame,
         other_frame
    <2> QED
      BY <2>0, <2>1, <2>2, <2>3, KeepsBody
  <1> QED
    BY <1>1, <1>k, PopStep

(* start() of an operation returning leaves on the stacks only who may stand*)
(* there.                                                                   *)
LEMMA StartReturnsStack ==
  ASSUME ControlInv, StackInv, NEW t \in Thread, StartReturns(t)
  PROVE  StackInv'
  <1>1. stack[t] # <<>> /\ Top(t) = <<Child, "started">> /\ Pop(t)
    BY DEF StartReturns
  <1>k. Keeps(<<Child, "started">>)
    <2>1. \A f \in Frame : <<Child, "started">> # <<f, "body">> /\ Active(f) => Active(f)'
      BY Frames, OtherEntries DEF Active, StartReturns, promiseVars, execVars, taskVars,
         waitVars, ControlInv, FrameTypes, HostInv, CallerInv, LeafInv, ScheduledInv,
         host_frame, other_frame
    <2>2. <<Child, "started">> # <<Child, "start">> /\ frame[Leaf] = "new" => frame'[Leaf] = "new"
      BY Frames, OtherEntries DEF StartReturns, promiseVars, execVars, taskVars, waitVars,
         ControlInv, FrameTypes, HostInv, CallerInv, LeafInv, ScheduledInv, host_frame,
         other_frame
    <2>3. host' = host /\ (host = "sync" /\ frame[Wrapper] = "freed" => frame'[Wrapper] = "freed")
      BY Frames DEF StartReturns, promiseVars, execVars, taskVars, waitVars, ControlInv,
         FrameTypes, HostInv, CallerInv, LeafInv, ScheduledInv, host_frame, other_frame
    <2> QED
      BY <2>1, <2>2, <2>3, OtherEntries, KeepsFrom
  <1> QED
    BY <1>1, <1>k, PopStep

(* The wrapper of SyncWait() at its final suspension leaves on the stacks   *)
(* only who may stand there.                                                *)
LEMMA WrapperReturnsStack ==
  ASSUME ControlInv, StackInv, NEW t \in Thread, WrapperReturns(t)
  PROVE  StackInv'
  <1>1. stack[t] # <<>> /\ Top(t) = <<Wrapper, "body">> /\ Pop(t)
    BY DEF WrapperReturns
  <1>k. Keeps(<<Wrapper, "body">>)
    <2>0. Wrapper \in Frame
      BY Frames DEF WrapperReturns, promiseVars, execVars, taskVars, waitVars, ControlInv,
         FrameTypes, HostInv, CallerInv, LeafInv, ScheduledInv, host_frame, other_frame
    <2>1. \A x \in Frame : x # Wrapper /\ Active(x) => Active(x)'
      BY Frames DEF Active, WrapperReturns, promiseVars, execVars, taskVars, waitVars,
         ControlInv, FrameTypes, HostInv, CallerInv, LeafInv, ScheduledInv, host_frame,
         other_frame
    <2>2. frame[Leaf] = "new" => frame'[Leaf] = "new"
      BY Frames DEF WrapperReturns, promiseVars, execVars, taskVars, waitVars, ControlInv,
         FrameTypes, HostInv, CallerInv, LeafInv, ScheduledInv, host_frame, other_frame
    <2>3. host' = host /\ (host = "sync" /\ frame[Wrapper] = "freed" => frame'[Wrapper] = "freed")
      BY Frames DEF WrapperReturns, promiseVars, execVars, taskVars, waitVars, ControlInv,
         FrameTypes, HostInv, CallerInv, LeafInv, ScheduledInv, host_frame, other_frame
    <2> QED
      BY <2>0, <2>1, <2>2, <2>3, KeepsBody
  <1> QED
    BY <1>1, <1>k, PopStep

(* co_await of a sender leaves on the stacks only who may stand there.      *)
LEMMA AwaitSenderStack ==
  ASSUME ControlInv, StackInv, NEW t \in Thread, AwaitSender(t)
  PROVE  StackInv'
  <1>1. stack[t] # <<>> /\ Top(t) = <<Child, "body">> /\ Child \in Frame
    BY Frames DEF AwaitSender, Running
  <1>k. Keeps(<<Child, "body">>)
    <2>0. Child \in Frame
      BY Frames DEF AwaitSender, Create, Running, promiseVars, execVars, taskVars,
         waitVars, ControlInv, FrameTypes, HostInv, CallerInv, LeafInv, ScheduledInv,
         host_frame, other_frame
    <2>1. \A x \in Frame : x # Child /\ Active(x) => Active(x)'
      BY Frames DEF Active, AwaitSender, Create, Running, promiseVars, execVars, taskVars,
         waitVars, ControlInv, FrameTypes, HostInv, CallerInv, LeafInv, ScheduledInv,
         host_frame, other_frame
    <2>2. frame[Leaf] = "new" => frame'[Leaf] = "new"
      BY Frames DEF AwaitSender, Create, Running, promiseVars, execVars, taskVars,
         waitVars, ControlInv, FrameTypes, HostInv, CallerInv, LeafInv, ScheduledInv,
         host_frame, other_frame
    <2>3. host' = host /\ (host = "sync" /\ frame[Wrapper] = "freed" => frame'[Wrapper] = "freed")
      BY Frames DEF AwaitSender, Create, Running, promiseVars, execVars, taskVars,
         waitVars, ControlInv, FrameTypes, HostInv, CallerInv, LeafInv, ScheduledInv,
         host_frame, other_frame
    <2> QED
      BY <2>0, <2>1, <2>2, <2>3, KeepsBody
  <1>f. Fresh(<<Child, "start">>, t)
    <2>1. frame[Leaf] = "none" /\ frame'[Leaf] = "new"
      BY Frames DEF AwaitSender, Create, ControlInv, FrameTypes
    <2> QED
      BY <2>1, Frames, OtherEntries DEF Fresh, MayStand
  <1>2. <<Child, "start">> \in Entry /\ stack' = [stack EXCEPT ![t] = Append(Popped(t), <<Child, "start">>)]
    BY OtherEntries DEF AwaitSender
  <1> QED
    BY <1>1, <1>2, <1>k, <1>f, TransferStep

(* co_await of a schedule sender leaves on the stacks only who may stand    *)
(* there.                                                                   *)
LEMMA AwaitScheduleStack ==
  ASSUME ControlInv, StackInv, NEW t \in Thread, AwaitSchedule(t)
  PROVE  StackInv'
  <1>1. stack[t] # <<>> /\ Top(t) = <<Child, "body">> /\ Child \in Frame
    BY Frames DEF AwaitSchedule, Running
  <1>k. Keeps(<<Child, "body">>)
    <2>0. Child \in Frame
      BY Frames DEF AwaitSchedule, At, Running, promiseVars, execVars, taskVars, waitVars,
         ControlInv, FrameTypes, HostInv, CallerInv, LeafInv, ScheduledInv, host_frame,
         other_frame
    <2>1. \A x \in Frame : x # Child /\ Active(x) => Active(x)'
      BY Frames DEF Active, AwaitSchedule, At, Running, promiseVars, execVars, taskVars,
         waitVars, ControlInv, FrameTypes, HostInv, CallerInv, LeafInv, ScheduledInv,
         host_frame, other_frame
    <2>2. frame[Leaf] = "new" => frame'[Leaf] = "new"
      BY Frames DEF AwaitSchedule, At, Running, promiseVars, execVars, taskVars, waitVars,
         ControlInv, FrameTypes, HostInv, CallerInv, LeafInv, ScheduledInv, host_frame,
         other_frame
    <2>3. host' = host /\ (host = "sync" /\ frame[Wrapper] = "freed" => frame'[Wrapper] = "freed")
      BY Frames DEF AwaitSchedule, At, Running, promiseVars, execVars, taskVars, waitVars,
         ControlInv, FrameTypes, HostInv, CallerInv, LeafInv, ScheduledInv, host_frame,
         other_frame
    <2> QED
      BY <2>0, <2>1, <2>2, <2>3, KeepsBody
  <1>2. /\ <<Child, "started">> \in Entry /\ <<Child, "started">>[2] = "started"
        /\ stack' = [stack EXCEPT ![t] = Append(Popped(t), <<Child, "started">>)]
    BY OtherEntries DEF AwaitSchedule
  <1> QED
    BY <1>1, <1>2, <1>k, TransferStep

(* final_suspend of a task leaves on the stacks only who may stand there.   *)
LEMMA ReturnStack ==
  ASSUME ControlInv, StackInv, NEW t \in Thread, NEW f \in {Child, Leaf}, Return(t, f)
  PROVE  StackInv'
  <1> PICK g : g = continuation_[f]
    OBVIOUS
  <1>0. /\ frame[f] = "run" /\ g \in Frame /\ g # f /\ g # Leaf /\ frame[g] = "await" /\ f \in Frame
    <2>1. CASE f = Child
      <3>1. frame[Child] = "run"
        BY <2>1 DEF Return, Running
      <3>2. frame[host_frame] = "await" /\ g = host_frame /\ host_frame \in {Wrapper, Detached}
        BY <2>1, <3>1, HostAwaits
      <3> QED
        BY <2>1, <3>1, <3>2, Frames
    <2>2. CASE f = Leaf
      BY <2>2, Frames DEF Return, Running, ControlInv, LeafInv
    <2> QED
      BY <2>1, <2>2
  <1>1. /\ stack[t] # <<>> /\ Top(t) = <<f, "body">> /\ host' = host
        /\ frame' = [frame EXCEPT ![f] = "final", ![g] = "got"]
        /\ stack' = [stack EXCEPT ![t] = Append(Popped(t), <<g, "body">>)]
    BY DEF Return, Running, Transfer
  <1>k. Keeps(<<f, "body">>)
    <2>0. f \in Frame
      BY Frames, <1>0, <1>1 DEF FrameTypes, promiseVars, execVars, taskVars, waitVars,
         ControlInv, FrameTypes, HostInv, CallerInv, LeafInv, ScheduledInv, host_frame,
         other_frame
    <2>1. \A x \in Frame : x # f /\ Active(x) => Active(x)'
      BY Frames, <1>0, <1>1, ZenonT(40) DEF Active, promiseVars, execVars, taskVars,
         waitVars, ControlInv, FrameTypes, HostInv, CallerInv, LeafInv, ScheduledInv,
         host_frame, other_frame
    <2>2. frame[Leaf] = "new" => frame'[Leaf] = "new"
      BY Frames, <1>0, <1>1 DEF FrameTypes, promiseVars, execVars, taskVars, waitVars,
         ControlInv, FrameTypes, HostInv, CallerInv, LeafInv, ScheduledInv, host_frame,
         other_frame
    <2>3. host' = host /\ (host = "sync" /\ frame[Wrapper] = "freed" => frame'[Wrapper] = "freed")
      BY Frames, <1>0, <1>1 DEF FrameTypes, promiseVars, execVars, taskVars, waitVars,
         ControlInv, FrameTypes, HostInv, CallerInv, LeafInv, ScheduledInv, host_frame,
         other_frame
    <2> QED
      BY <2>0, <2>1, <2>2, <2>3, KeepsBody
  <1>f. Fresh(<<g, "body">>, t)
    <2>1. g \in Frame /\ ~Active(g) /\ ~(g = Wrapper /\ host = "sync" /\ frame[Wrapper] = "freed")
      BY Frames, <1>0, <1>1 DEF Active, promiseVars, execVars, taskVars, waitVars,
         ControlInv, FrameTypes, HostInv, CallerInv, LeafInv, ScheduledInv, host_frame,
         other_frame
    <2>2. Active(g)'
      BY Frames, <1>0, <1>1 DEF Active, promiseVars, execVars, taskVars, waitVars,
         ControlInv, FrameTypes, HostInv, CallerInv, LeafInv, ScheduledInv, host_frame,
         other_frame
    <2> QED
      BY <2>1, <2>2, Frames, FreshBody
  <1>2. <<g, "body">> \in Entry
    BY <1>0, OtherEntries
  <1> QED
    BY <1>1, <1>2, <1>k, <1>f, TransferStep

(* The end of a bridge leaves on the stacks only who may stand there.       *)
LEMMA BridgeEndsStack ==
  ASSUME ControlInv, StackInv, NEW t \in Thread, BridgeEnds(t)
  PROVE  StackInv'
  <1>0. Bridge \in Frame
    BY Frames DEF host_frame
  <1>1. CASE frame[Bridge] = "final"
    <2>1. UNCHANGED stack
      BY <1>1 DEF BridgeEnds, Running
    <2>k. Keeps(<<Child, "started">>)
      <3>1. \A f \in Frame : <<Child, "started">> # <<f, "body">> /\ Active(f) => Active(f)'
        BY <1>1, Frames, OtherEntries DEF Active, BridgeEnds, Running, Destroy,
           promiseVars, execVars, taskVars, waitVars, ControlInv, FrameTypes, HostInv,
           CallerInv, LeafInv, ScheduledInv, host_frame, other_frame
      <3>2. <<Child, "started">> # <<Child, "start">> /\ frame[Leaf] = "new" => frame'[Leaf] = "new"
        BY <1>1, Frames, OtherEntries DEF BridgeEnds, Running, Destroy, promiseVars,
           execVars, taskVars, waitVars, ControlInv, FrameTypes, HostInv, CallerInv,
           LeafInv, ScheduledInv, host_frame, other_frame
      <3>3. host' = host /\ (host = "sync" /\ frame[Wrapper] = "freed" => frame'[Wrapper] = "freed")
        BY <1>1, Frames DEF BridgeEnds, Running, Destroy, promiseVars, execVars, taskVars,
           waitVars, ControlInv, FrameTypes, HostInv, CallerInv, LeafInv, ScheduledInv,
           host_frame, other_frame
      <3> QED
        BY <3>1, <3>2, <3>3, OtherEntries, KeepsFrom
    <2> QED
      BY <2>1, <2>k, SameKeeps
  <1>2. CASE frame[Bridge] = "dying"
    <2>1. stack[t] # <<>> /\ Top(t) = <<Bridge, "body">> /\ Pop(t)
      BY <1>2 DEF BridgeEnds, Running
    <2>k. Keeps(<<Bridge, "body">>)
      <3>0. Bridge \in Frame
        BY <1>0, <1>2, Frames DEF BridgeEnds, Running, Destroy, promiseVars, execVars,
           taskVars, waitVars, ControlInv, FrameTypes, HostInv, CallerInv, LeafInv,
           ScheduledInv, host_frame, other_frame
      <3>1. \A x \in Frame : x # Bridge /\ Active(x) => Active(x)'
        BY <1>0, <1>2, Frames DEF Active, BridgeEnds, Running, Destroy, promiseVars,
           execVars, taskVars, waitVars, ControlInv, FrameTypes, HostInv, CallerInv,
           LeafInv, ScheduledInv, host_frame, other_frame
      <3>2. frame[Leaf] = "new" => frame'[Leaf] = "new"
        BY <1>0, <1>2, Frames DEF BridgeEnds, Running, Destroy, promiseVars, execVars,
           taskVars, waitVars, ControlInv, FrameTypes, HostInv, CallerInv, LeafInv,
           ScheduledInv, host_frame, other_frame
      <3>3. host' = host /\ (host = "sync" /\ frame[Wrapper] = "freed" => frame'[Wrapper] = "freed")
        BY <1>0, <1>2, Frames DEF BridgeEnds, Running, Destroy, promiseVars, execVars,
           taskVars, waitVars, ControlInv, FrameTypes, HostInv, CallerInv, LeafInv,
           ScheduledInv, host_frame, other_frame
      <3> QED
        BY <3>0, <3>1, <3>2, <3>3, KeepsBody
    <2> QED
      BY <2>1, <2>k, PopStep
  <1> QED
    BY <1>1, <1>2 DEF BridgeEnds, Running

(* The end of a host's coroutine leaves on the stacks only who may stand    *)
(* there.                                                                   *)
LEMMA HostEndsStack ==
  ASSUME ControlInv, StackInv, NEW t \in Thread, HostEnds(t)
  PROVE  StackInv'
  <1>0. host_frame \in Frame
    BY Frames DEF host_frame
  <1>1. CASE frame[host_frame] = "ending"
    <2>1. UNCHANGED stack
      BY <1>1 DEF HostEnds, Running
    <2>k. Keeps(<<Child, "started">>)
      <3>1. \A f \in Frame : <<Child, "started">> # <<f, "body">> /\ Active(f) => Active(f)'
        BY <1>1, Frames, OtherEntries DEF Active, HostEnds, Running, Destroy, promiseVars,
           execVars, taskVars, waitVars, ControlInv, FrameTypes, HostInv, CallerInv,
           LeafInv, ScheduledInv, host_frame, other_frame
      <3>2. <<Child, "started">> # <<Child, "start">> /\ frame[Leaf] = "new" => frame'[Leaf] = "new"
        BY <1>1, Frames, OtherEntries DEF HostEnds, Running, Destroy, promiseVars,
           execVars, taskVars, waitVars, ControlInv, FrameTypes, HostInv, CallerInv,
           LeafInv, ScheduledInv, host_frame, other_frame
      <3>3. host' = host /\ (host = "sync" /\ frame[Wrapper] = "freed" => frame'[Wrapper] = "freed")
        BY <1>1, Frames DEF HostEnds, Running, Destroy, promiseVars, execVars, taskVars,
           waitVars, ControlInv, FrameTypes, HostInv, CallerInv, LeafInv, ScheduledInv,
           host_frame, other_frame
      <3> QED
        BY <3>1, <3>2, <3>3, OtherEntries, KeepsFrom
    <2> QED
      BY <2>1, <2>k, SameKeeps
  <1>2. CASE frame[host_frame] = "dying"
    <2>1. stack[t] # <<>> /\ Top(t) = <<host_frame, "body">> /\ Pop(t)
      BY <1>2 DEF HostEnds, Running
    <2>k. Keeps(<<host_frame, "body">>)
      <3>0. host_frame \in Frame
        BY <1>0, <1>2, Frames DEF HostEnds, Running, Destroy, promiseVars, execVars,
           taskVars, waitVars, ControlInv, FrameTypes, HostInv, CallerInv, LeafInv,
           ScheduledInv, host_frame, other_frame
      <3>1. \A x \in Frame : x # host_frame /\ Active(x) => Active(x)'
        BY <1>0, <1>2, Frames DEF Active, HostEnds, Running, Destroy, promiseVars,
           execVars, taskVars, waitVars, ControlInv, FrameTypes, HostInv, CallerInv,
           LeafInv, ScheduledInv, host_frame, other_frame
      <3>2. frame[Leaf] = "new" => frame'[Leaf] = "new"
        BY <1>0, <1>2, Frames DEF HostEnds, Running, Destroy, promiseVars, execVars,
           taskVars, waitVars, ControlInv, FrameTypes, HostInv, CallerInv, LeafInv,
           ScheduledInv, host_frame, other_frame
      <3>3. host' = host /\ (host = "sync" /\ frame[Wrapper] = "freed" => frame'[Wrapper] = "freed")
        BY <1>0, <1>2, Frames DEF HostEnds, Running, Destroy, promiseVars, execVars,
           taskVars, waitVars, ControlInv, FrameTypes, HostInv, CallerInv, LeafInv,
           ScheduledInv, host_frame, other_frame
      <3> QED
        BY <3>0, <3>1, <3>2, <3>3, KeepsBody
    <2> QED
      BY <2>1, <2>k, PopStep
  <1> QED
    BY <1>1, <1>2 DEF HostEnds, Running

(* SyncWait() returning leaves on the stacks only who may stand there.      *)
LEMMA SyncWaitEndsStack ==
  ASSUME ControlInv, StackInv, SyncWaitEnds
  PROVE  StackInv'
  <1>1. CASE caller = "waiting"
    <2>1. UNCHANGED stack /\ stack[Main] = <<>> /\ host' = host
      BY <1>1 DEF SyncWaitEnds
    <2>2. host = "sync" /\ frame'[Wrapper] = "freed" /\ \A f \in Frame : f # Wrapper => frame'[f] = frame[f]
      BY <1>1, Frames DEF SyncWaitEnds, Destroy, ControlInv, CallerInv, FrameTypes
    <2>3. ASSUME NEW x \in Entry, NEW u \in Thread, stack[u] # <<>>, MayStand(x, u)
          PROVE  MayStand(x, u)'
      <3>1. u # Main
        BY <2>1, <2>3
      <3>2. CASE x = <<Wrapper, "body">>
        BY <2>1, <2>2, <3>1, <3>2 DEF MayStand
      <3>3. CASE x[2] = "body" /\ Active(x[1]) /\ x # <<Wrapper, "body">>
        <4>1. x[1] \in Frame /\ x[1] # Wrapper
          BY <3>3 DEF Entry
        <4>2. Active(x[1])'
          BY <2>2, <3>3, <4>1, Frames DEF Active
        <4> QED
          BY <3>3, <4>2 DEF MayStand
      <3>4. CASE x = <<Child, "start">> /\ frame[Leaf] = "new"
        BY <2>2, <3>4, Frames DEF MayStand
      <3> QED
        BY <2>3, <3>2, <3>3, <3>4 DEF MayStand
    <2> QED
      BY <2>1, <2>3, SameStacks
  <1>2. CASE caller = "returning"
    <2>1. UNCHANGED stack
      BY <1>2 DEF SyncWaitEnds
    <2>k. Keeps(<<Child, "started">>)
      <3>1. \A f \in Frame : <<Child, "started">> # <<f, "body">> /\ Active(f) => Active(f)'
        BY <1>2, Frames, OtherEntries DEF Active, SyncWaitEnds, Destroy, promiseVars,
           execVars, taskVars, waitVars, ControlInv, FrameTypes, HostInv, CallerInv,
           LeafInv, ScheduledInv, host_frame, other_frame
      <3>2. <<Child, "started">> # <<Child, "start">> /\ frame[Leaf] = "new" => frame'[Leaf] = "new"
        BY <1>2, Frames, OtherEntries DEF SyncWaitEnds, Destroy, promiseVars, execVars,
           taskVars, waitVars, ControlInv, FrameTypes, HostInv, CallerInv, LeafInv,
           ScheduledInv, host_frame, other_frame
      <3>3. host' = host /\ (host = "sync" /\ frame[Wrapper] = "freed" => frame'[Wrapper] = "freed")
        BY <1>2, Frames DEF SyncWaitEnds, Destroy, promiseVars, execVars, taskVars,
           waitVars, ControlInv, FrameTypes, HostInv, CallerInv, LeafInv, ScheduledInv,
           host_frame, other_frame
      <3> QED
        BY <3>1, <3>2, <3>3, OtherEntries, KeepsFrom
    <2> QED
      BY <2>1, <2>k, SameKeeps
  <1> QED
    BY <1>1, <1>2 DEF SyncWaitEnds

(* run_bridge() leaves on the stacks only who may stand there.              *)
LEMMA StartBridgeStack ==
  ASSUME ControlInv, StackInv, NEW t \in Thread, StartBridge(t)
  PROVE  StackInv'
  <1>1. stack[t] # <<>> /\ Top(t) = <<Child, "start">>
    BY DEF StartBridge
  <1>k. Keeps(<<Child, "start">>)
    <2>1. \A f \in Frame : <<Child, "start">> # <<f, "body">> /\ Active(f) => Active(f)'
      BY Frames, OtherEntries DEF Active, StartBridge, Create, promiseVars, execVars,
         taskVars, waitVars, ControlInv, FrameTypes, HostInv, CallerInv, LeafInv,
         ScheduledInv, host_frame, other_frame
    <2>2. <<Child, "start">> # <<Child, "start">> /\ frame[Leaf] = "new" => frame'[Leaf] = "new"
      BY Frames, OtherEntries DEF StartBridge, Create, promiseVars, execVars, taskVars,
         waitVars, ControlInv, FrameTypes, HostInv, CallerInv, LeafInv, ScheduledInv,
         host_frame, other_frame
    <2>3. host' = host /\ (host = "sync" /\ frame[Wrapper] = "freed" => frame'[Wrapper] = "freed")
      BY Frames DEF StartBridge, Create, promiseVars, execVars, taskVars, waitVars,
         ControlInv, FrameTypes, HostInv, CallerInv, LeafInv, ScheduledInv, host_frame,
         other_frame
    <2> QED
      BY <2>1, <2>2, <2>3, OtherEntries, KeepsFrom
  <1>n. frame[Leaf] = "new"
    <2>1. stack[t][Len(stack[t])] = <<Child, "start">> /\ Len(stack[t]) \in DOMAIN stack[t]
      BY <1>1, TopEntry
    <2>2. stack[t][Len(stack[t])][2] # "started"
      BY <2>1
    <2>3. MayStand(stack[t][Len(stack[t])], t)
      BY <2>1, <2>2 DEF StackInv
    <2> QED
      BY <2>1, <2>3, OtherEntries, Frames DEF MayStand
  <1>f. Fresh(<<Leaf, "body">>, t)
    <2>1. Leaf \in Frame /\ ~Active(Leaf) /\ ~(Leaf = Wrapper /\ host = "sync" /\ frame[Wrapper] = "freed")
      BY Frames, <1>n DEF Active, StartBridge, Create, promiseVars, execVars, taskVars,
         waitVars, ControlInv, FrameTypes, HostInv, CallerInv, LeafInv, ScheduledInv,
         host_frame, other_frame
    <2>2. Active(Leaf)'
      BY Frames, <1>n DEF Active, StartBridge, Create, promiseVars, execVars, taskVars,
         waitVars, ControlInv, FrameTypes, HostInv, CallerInv, LeafInv, ScheduledInv,
         host_frame, other_frame
    <2> QED
      BY <2>1, <2>2, Frames, FreshBody
  <1> DEFINE y == <<Leaf, "body">>
             z == <<Child, "started">>
             q == Popped(t) \o <<z, y>>
             n == Len(stack[t]) - 1
  <1>2. /\ Top(t) \in Entry /\ Popped(t) \in Seq(Entry) /\ Len(Popped(t)) = n
        /\ n \in Nat /\ n < Len(stack[t]) /\ Len(stack[t]) \in Nat
        /\ \A i \in 1 .. n : Popped(t)[i] = stack[t][i]
        /\ \A i \in DOMAIN stack[t] : i > n => stack[t][i] = Top(t)
    BY <1>1, TopEntry
  <1>3. stack' = [stack EXCEPT ![t] = q]
    BY DEF StartBridge
  <1>4. y \in Entry /\ z \in Entry /\ z[2] = "started" /\ Fresh(y, t)
    BY <1>f, Frames, OtherEntries
  <1> HIDE DEF y, z, n
  <1>5. <<z, y>> \in Seq(Entry) /\ Len(<<z, y>>) = 2 /\ <<z, y>>[1] = z /\ <<z, y>>[2] = y
    BY <1>4
  <1>6. /\ q \in Seq(Entry) /\ Len(q) = n + 2 /\ DOMAIN q = 1 .. (n + 2)
        /\ \A i \in 1 .. n : q[i] = Popped(t)[i]
        /\ q[n + 1] = z /\ q[n + 2] = y
    BY <1>2, <1>5
  <1> HIDE DEF q
  <1>7. \A i \in DOMAIN q : i > n => i = n + 1 \/ i = n + 2
    BY <1>2, <1>6
  <1>8. \A i \in DOMAIN q : i > n =>
          q[i][2] = "started" \/ (i = Len(q) /\ q[i] = y /\ Fresh(y, t))
    BY <1>4, <1>6, <1>7
  <1>9. n <= Len(stack[t]) /\ n <= Len(q) /\ \A i \in 1 .. n : q[i] = stack[t][i]
    BY <1>2, <1>6
  <1>10. /\ <<Child, "start">> \in Entry /\ Keeps(<<Child, "start">>)
         /\ \A i \in DOMAIN stack[t] : i > n => stack[t][i] = <<Child, "start">>
    BY <1>1, <1>2, <1>k, OtherEntries
  <1>11. q \in Seq(Entry) /\ n \in Nat /\ n < Len(stack[t])
    BY <1>2, <1>6
  <1> QED
    BY <1>3, <1>4, <1>8, <1>9, <1>10, <1>11, StackStep

-----------------------------------------------------------------------------
(* Tasks: SyncWait() and the DetachedTask                                   *)

(* No step of a Task gives a result before Child returns. *)
LEMMA TaskStepWait ==
  ASSUME ControlInv, WaitInv, NEW t \in Thread, TaskStep(t) \/ HostEnds(t), UNCHANGED waitVars
  PROVE  WaitInv'
  <1> USE Frames DEF ControlInv, FrameTypes, HostInv, CallerInv, LeafInv,
             ScheduledInv, host_frame, other_frame, WaitInv, promiseVars, execVars, waitVars
  <1>1. CASE AwaitChild(t)
    BY <1>1 DEF AwaitChild, Await, Running
  <1>2. CASE AwaitLeaf(t)
    BY <1>2 DEF AwaitLeaf, Await, Create, Running
  <1>3. CASE RunScheduled(t)
    BY <1>3, ZenonT(40) DEF RunScheduled, At
  <1>4. CASE ChildResumed(t)
    BY <1>4, ZenonT(40) DEF ChildResumed, Running, At, Destroy
  <1>5. CASE \E f \in {Child, Leaf} : Hop(t, f)
    BY <1>5 DEF Hop, Running, At
  <1>6. CASE Return(t, Child)
    BY <1>6, ZenonT(40) DEF Return, Running
  <1>7. CASE Return(t, Leaf)
    BY <1>7 DEF Return, Running
  <1>8. CASE AwaitSender(t)
    BY <1>8 DEF AwaitSender, Create, Running
  <1>9. CASE StartBridge(t)
    BY <1>9 DEF StartBridge, Create
  <1>10. CASE SetValue(t)
    BY <1>10 DEF SetValue, Running
  <1>11. CASE BridgeEnds(t)
    BY <1>11, ZenonT(40) DEF BridgeEnds, Running, Destroy
  <1>12. CASE AwaitSchedule(t)
    BY <1>12 DEF AwaitSchedule, Running, At
  <1>13. CASE RunPosted(t)
    BY <1>13 DEF RunPosted, At
  <1>14. CASE StartReturns(t)
    BY <1>14 DEF StartReturns
  <1>15. CASE HostEnds(t)
    BY <1>15, ZenonT(40) DEF HostEnds, Running, Destroy
  <1> QED
    BY <1>1, <1>2, <1>3, <1>4, <1>5, <1>6, <1>7, <1>8, <1>9, <1>10, <1>11, <1>12, <1>13,
       <1>14, <1>15 DEF TaskStep

(* The host of Spawn() is another. *)
LEMMA SpawnStepWait ==
  ASSUME ControlInv, WaitInv, NEW t \in Thread, SpawnStep(t), UNCHANGED waitVars
  PROVE  WaitInv'
  <1> USE Frames DEF ControlInv, FrameTypes, HostInv, CallerInv, LeafInv,
             ScheduledInv, host_frame, other_frame, WaitInv, promiseVars, execVars, waitVars
  <1>1. CASE Complete(t)
    BY <1>1 DEF Complete, Running, AwaitResume, At
  <1>2. CASE CompleteCall(t)
    BY <1>2 DEF CompleteCall, Running, At
  <1> QED
    BY <1>1, <1>2 DEF SpawnStep

(* The wrapper stores the result before it signals, and final_suspend calls the callback. *)
LEMMA WaitStepWait ==
  ASSUME ControlInv, WaitInv, NEW t \in Thread, WaitStep(t)
  PROVE  WaitInv'
  <1> USE Frames DEF ControlInv, FrameTypes, HostInv, CallerInv, LeafInv,
             ScheduledInv, host_frame, other_frame, WaitInv, promiseVars, execVars, waitVars
  <1>1. CASE StoreResult(t)
    BY <1>1 DEF StoreResult, Running, AwaitResume, At
  <1>2. CASE Signal(t)
    BY <1>2 DEF Signal, Running, At
  <1>3. CASE WrapperReturns(t)
    BY <1>3 DEF WrapperReturns
  <1>4. CASE DetachedFinal(t)
    BY <1>4 DEF DetachedFinal, Running, AwaitResume, At
  <1> QED
    BY <1>1, <1>2, <1>3, <1>4 DEF WaitStep

(* SyncWait() goes on only when it is signalled. *)
LEMMA WaitCallerWait ==
  ASSUME ControlInv, WaitInv, WaitCaller
  PROVE  WaitInv'
  <1> USE Frames DEF ControlInv, FrameTypes, HostInv, CallerInv, LeafInv,
             ScheduledInv, host_frame, other_frame, WaitInv, promiseVars, execVars, waitVars
  <1>1. CASE SyncWaitStart
    BY <1>1 DEF SyncWaitStart, Create, At
  <1>2. CASE SyncWaitEnds
    BY <1>2 DEF SyncWaitEnds, Destroy
  <1>3. CASE MakeDetached
    BY <1>3 DEF MakeDetached, Create, At
  <1>4. CASE SetCallback
    BY <1>4 DEF SetCallback, taskVars
  <1>5. CASE Start
    BY <1>5 DEF Start, At
  <1>6. CASE DetachedDropped
    BY <1>6, ZenonT(40) DEF DetachedDropped, Destroy
  <1> QED
    BY <1>1, <1>2, <1>3, <1>4, <1>5, <1>6 DEF WaitCaller

(* The caller's other steps are about no host of these. *)
LEMMA CallerWait ==
  ASSUME ControlInv, WaitInv, (MakeTask \/ DropTask) \/ SpawnCaller, UNCHANGED waitVars
  PROVE  WaitInv'
  <1> USE Frames DEF ControlInv, FrameTypes, HostInv, CallerInv, LeafInv,
             ScheduledInv, host_frame, other_frame, WaitInv, promiseVars, execVars, waitVars
  <1>1. CASE MakeTask
    BY <1>1 DEF MakeTask, Create, At
  <1>2. CASE DropTask
    BY <1>2 DEF DropTask, Destroy
  <1>3. CASE SpawnOn
    BY <1>3 DEF SpawnOn, Create, At
  <1>4. CASE SpawnNoExecutor
    BY <1>4 DEF SpawnNoExecutor, Destroy
  <1>5. CASE /\ (\E cb \in Callback : OnComplete(cb)) \/ OnError \/ LateCall \/ HandleEnds
             /\ UNCHANGED <<host, frame, promiseVars, stack, scheduled, posted, has_op_, hops, poolVars>>
    BY <1>5 DEF OnComplete, OnError, LateCall, HandleEnds
  <1> QED
    BY <1>1, <1>2, <1>3, <1>4, <1>5 DEF SpawnCaller

(* SyncWait() has the result when it returns, and the callback of a         *)
(* DetachedTask has been called.                                            *)
LEMMA WaitSound ==
  ASSUME WaitInv PROVE WaitedFor
  BY DEF WaitInv, WaitedFor

-----------------------------------------------------------------------------
(* Tasks: every step                                                        *)

(* The start of an operation is on a stack only while its Task is new. *)
LEMMA StartedOnce ==
  ASSUME StackInv, NEW t \in Thread, StartBridge(t)
  PROVE  frame[Leaf] = "new"
  <1>1. stack[t][Len(stack[t])] = <<Child, "start">> /\ Len(stack[t]) \in DOMAIN stack[t]
    BY TopEntry DEF StartBridge
  <1>2. stack[t][Len(stack[t])][2] # "started"
    BY <1>1
  <1>3. MayStand(stack[t][Len(stack[t])], t)
    BY <1>1, <1>2 DEF StackInv
  <1> QED
    BY <1>1, <1>3, OtherEntries, Frames DEF MayStand

(* A step that changes no frame and nothing of the executor *)
LEMMA QuietControl ==
  ASSUME ControlInv,
         caller' = caller \/ (/\ host \in {"spawn", "no executor"} /\ caller \in {"handle", "late"}
                              /\ caller' \in {"handle", "late", "end"}),
         UNCHANGED <<host, frame, promiseVars, execVars, waitVars>>
  PROVE  ControlInv'
  <1> USE DEF promiseVars, execVars, waitVars
  <1>1. FrameTypes'
    BY DEF ControlInv, FrameTypes
  <1>2. ScheduledInv' /\ LeafInv'
    BY DEF ControlInv, ScheduledInv, LeafInv
  <1>3. HostInv'
    BY DEF ControlInv, HostInv, host_frame, other_frame
  <1>4. CallerInv'
    <2>1. CASE caller' = caller
      BY <2>1 DEF ControlInv, CallerInv, host_frame
    <2>2. CASE /\ host \in {"spawn", "no executor"} /\ caller \in {"handle", "late"}
               /\ caller' \in {"handle", "late", "end"}
      BY <2>2 DEF ControlInv, CallerInv, host_frame
    <2> QED
      BY <2>1, <2>2
  <1> QED
    BY <1>1, <1>2, <1>3, <1>4 DEF ControlInv

(* Nor is anything else on the stacks then. *)
LEMMA QuietStack ==
  ASSUME StackInv, UNCHANGED <<host, frame, stack>>
  PROVE  StackInv'
  <1>1. \A x \in Entry, u \in Thread : MayStand(x, u) => MayStand(x, u)'
    BY DEF MayStand, Active
  <1> QED
    BY <1>1, SameStacks

(* A step of a Task keeps both. *)
LEMMA TaskStepControl ==
  ASSUME ControlInv, StackInv, NEW t \in Thread, TaskStep(t) \/ HostEnds(t), UNCHANGED waitVars
  PROVE  ControlInv' /\ StackInv'
  <1>1. CASE AwaitChild(t)
    BY <1>1, AwaitChildControl, AwaitChildStack
  <1>2. CASE AwaitLeaf(t)
    BY <1>2, AwaitLeafControl, AwaitLeafStack
  <1>3. CASE RunScheduled(t)
    BY <1>3, RunScheduledControl, RunScheduledStack
  <1>4. CASE ChildResumed(t)
    BY <1>4, ChildResumedControl, ChildResumedStack
  <1>5. CASE \E f \in {Child, Leaf} : Hop(t, f)
    BY <1>5, HopControl, HopStack
  <1>6. CASE \E f \in {Child, Leaf} : Return(t, f)
    BY <1>6, ReturnControl, ReturnStack
  <1>7. CASE AwaitSender(t)
    BY <1>7, AwaitSenderControl, AwaitSenderStack
  <1>8. CASE StartBridge(t)
    BY <1>8, StartedOnce, StartBridgeControl, StartBridgeStack
  <1>9. CASE SetValue(t)
    BY <1>9, SetValueControl, SetValueStack
  <1>10. CASE BridgeEnds(t)
    BY <1>10, BridgeEndsControl, BridgeEndsStack
  <1>11. CASE AwaitSchedule(t)
    BY <1>11, AwaitScheduleControl, AwaitScheduleStack
  <1>12. CASE RunPosted(t)
    BY <1>12, RunPostedControl, RunPostedStack
  <1>13. CASE StartReturns(t)
    BY <1>13, StartReturnsStack, QuietControl DEF StartReturns
  <1>14. CASE HostEnds(t)
    BY <1>14, HostEndsControl, HostEndsStack
  <1> QED
    BY <1>1, <1>2, <1>3, <1>4, <1>5, <1>6, <1>7, <1>8, <1>9, <1>10, <1>11, <1>12, <1>13,
       <1>14 DEF TaskStep

(* So does the end of WrapForSpawn(). *)
LEMMA SpawnStepControl ==
  ASSUME ControlInv, StackInv, NEW t \in Thread, SpawnStep(t), UNCHANGED waitVars
  PROVE  ControlInv' /\ StackInv'
  <1>1. CASE Complete(t)
    BY <1>1, CompleteControl, CompleteStack
  <1>2. CASE CompleteCall(t)
    BY <1>2, CompleteCallControl, CompleteCallStack
  <1> QED
    BY <1>1, <1>2 DEF SpawnStep

(* So do the coroutines of SyncWait() and of a DetachedTask. *)
LEMMA WaitStepControl ==
  ASSUME ControlInv, StackInv, NEW t \in Thread, WaitStep(t)
  PROVE  ControlInv' /\ StackInv'
  <1>1. CASE StoreResult(t)
    BY <1>1, StoreResultControl, StoreResultStack
  <1>2. CASE Signal(t)
    BY <1>2, SignalControl, SignalStack
  <1>3. CASE WrapperReturns(t)
    BY <1>3, WrapperReturnsControl, WrapperReturnsStack
  <1>4. CASE DetachedFinal(t)
    BY <1>4, DetachedFinalControl, DetachedFinalStack
  <1> QED
    BY <1>1, <1>2, <1>3, <1>4 DEF WaitStep

(* So does the caller of SyncWait() and the owner of a DetachedTask. *)
LEMMA WaitCallerControl ==
  ASSUME ControlInv, StackInv, WaitCaller
  PROVE  ControlInv' /\ StackInv'
  <1>1. CASE SyncWaitStart
    BY <1>1, SyncWaitStartControl, SyncWaitStartStack
  <1>2. CASE SyncWaitEnds
    BY <1>2, SyncWaitEndsControl, SyncWaitEndsStack
  <1>3. CASE MakeDetached
    BY <1>3, MakeDetachedControl, MakeDetachedStack
  <1>4. CASE SetCallback
    BY <1>4, SetCallbackControl, SetCallbackStack
  <1>5. CASE Start
    BY <1>5, StartControl, StartStack
  <1>6. CASE DetachedDropped
    BY <1>6, DetachedDroppedControl, DetachedDroppedStack
  <1> QED
    BY <1>1, <1>2, <1>3, <1>4, <1>5, <1>6 DEF WaitCaller

(* The calls of the handle of Spawn() *)
LEMMA HandleNext ==
  ASSUME (\E cb \in Callback : OnComplete(cb)) \/ OnError \/ LateCall \/ HandleEnds
  PROVE  caller \in {"handle", "late"} /\ caller' \in {"handle", "late", "end"}
  BY DEF OnComplete, OnError, LateCall, HandleEnds

(* So does the caller of Spawn(). *)
LEMMA CallerControl ==
  ASSUME ControlInv, StackInv, (MakeTask \/ DropTask) \/ SpawnCaller, UNCHANGED waitVars
  PROVE  ControlInv' /\ StackInv'
  <1>1. CASE MakeTask
    BY <1>1, MakeTaskControl, MakeTaskStack
  <1>2. CASE DropTask
    BY <1>2, DropTaskControl, DropTaskStack
  <1>3. CASE SpawnOn
    BY <1>3, SpawnOnControl, SpawnOnStack
  <1>4. CASE SpawnNoExecutor
    BY <1>4, SpawnNoExecutorControl, SpawnNoExecutorStack
  <1>5. CASE /\ host \in {"spawn", "no executor"}
             /\ (\E cb \in Callback : OnComplete(cb)) \/ OnError \/ LateCall \/ HandleEnds
             /\ UNCHANGED <<host, frame, promiseVars, stack, scheduled, posted, has_op_, hops, poolVars>>
    BY <1>5, HandleNext, QuietControl, QuietStack DEF execVars
  <1> QED
    BY <1>1, <1>2, <1>3, <1>4, <1>5 DEF SpawnCaller

(* An empty stack *)
LEMMA EmptyStack ==
  <<>> \in Seq(Entry) /\ DOMAIN <<>> = {}
  OBVIOUS

(* Initially no coroutine is anywhere. *)
LEMMA TasksInitControl ==
  ASSUME host \in {"spawn", "no executor", "sync", "detach"}, TasksInit, WaitInit
  PROVE  ControlInv /\ StackInv /\ WaitInv
  <1>1. ControlInv
    BY Frames DEF ControlInv, FrameTypes, HostInv, CallerInv, LeafInv, ScheduledInv,
       host_frame, other_frame, TasksInit, WaitInit
  <1>a. \A t \in Thread : stack[t] = <<>>
    BY DEF TasksInit
  <1>b. <<>> \in Seq(Entry) /\ DOMAIN <<>> = {}
    BY EmptyStack
  <1>c. stack \in [Thread -> Seq(Entry)]
    BY <1>b DEF TasksInit
  <1>2. stack \in [Thread -> Seq(Entry)] /\ \A t \in Thread : DOMAIN stack[t] = {}
    BY <1>a, <1>b, <1>c
  <1>3. StackInv
    BY <1>2 DEF StackInv
  <1>4. WaitInv
    BY Frames DEF WaitInv, TasksInit, WaitInit
  <1> QED
    BY <1>1, <1>3, <1>4

-----------------------------------------------------------------------------
(* Tasks: the completions of Spawn()                                        *)

Ended == {"complete", "ending", "dying", "freed"}

(* A step of somebody else, as the handle and the wrapper see it *)
LEMMA SpawnFrame ==
  ASSUME SpawnInv, UNCHANGED <<spawnVars, host>>,
         host = "spawn" => (frame[Wrapper] \in Ended <=> frame'[Wrapper] \in Ended),
         host = "spawn" /\ frame[Wrapper] = "complete" => frame'[Wrapper] = "complete",
         \/ caller' = caller
         \/ caller = "start" /\ caller' = "made"
         \/ caller # "late" /\ caller' = "end"
         \/ caller = "made" /\ caller' = "handle" /\ host = "spawn"
         \/ /\ host \notin {"spawn", "no executor"} /\ caller # "late"
            /\ caller' \notin {"start", "made", "handle", "late"}
  PROVE  SpawnInv'
  <1> USE DEF spawnVars
  <1>1. SpawnTypes'
    BY ZenonT(40) DEF SpawnInv, SpawnTypes
  <1>2. CallbackPlaces'
    BY DEF SpawnInv, CallbackPlaces, CallbackAt, ErrorCallbackAt, ValueGiven
  <1>a. ValueGiven => ValueGiven'
    BY DEF ValueGiven
  <1>3. SpawnPhase'
    <2>1. /\ (host # "spawn" => ~state.completed)'
          /\ (host = "spawn" => (state.completed <=> frame[Wrapper] \in Ended))'
          /\ (calling # Nothing => host = "spawn" /\ frame[Wrapper] = "complete")'
      BY DEF SpawnInv, SpawnPhase, Ended
    <2>2. /\ (state.failed => host = "no executor" /\ caller \in {"handle", "late", "end"})'
          /\ (host = "no executor" /\ caller \in {"handle", "late"} => state.failed)'
          /\ (caller \in {"handle", "late"} => host \in {"spawn", "no executor"})'
          /\ (host \notin {"spawn", "no executor"} => given = {})'
          /\ (caller \in {"start", "made"} => given = {})'
          /\ (late # Nothing => caller = "late")'
      BY DEF SpawnInv, SpawnPhase
    <2>3. /\ (calling.cb # NoCallback <=> calling.val = "value")'
          /\ (state.completed => state.on_complete = NoCallback /\ state.result \in {"value", "moved"})'
          /\ (state.completed /\ state.result = "moved" => ValueGiven)'
          /\ (late.cb = NoCallback <=> late.val = "none")'
          /\ (late.cb \in Callback => state.completed /\ late.val = state.result)'
          /\ (late.cb = ErrorCallback => state.failed /\ late.val = "NoExecutor")'
      BY <1>a DEF SpawnInv, SpawnPhase
    <2> QED
      BY <2>1, <2>2, <2>3 DEF SpawnPhase, Ended
  <1> QED
    BY <1>1, <1>2, <1>3 DEF SpawnInv

(* The Tasks go on without the SpawnState. *)
LEMMA TaskStepSpawn ==
  ASSUME ControlInv, SpawnInv, NEW t \in Thread, TaskStep(t) \/ HostEnds(t), UNCHANGED spawnVars
  PROVE  SpawnInv'
  <1> USE Frames DEF ControlInv, FrameTypes, HostInv, CallerInv, LeafInv,
             ScheduledInv, host_frame, other_frame, promiseVars, execVars
  <1> DEFINE Same == /\ host' = host
                     /\ host = "spawn" => (frame[Wrapper] \in Ended <=> frame'[Wrapper] \in Ended)
                     /\ host = "spawn" /\ frame[Wrapper] = "complete" => frame'[Wrapper] = "complete"
             Go == \/ caller' = caller
                   \/ caller = "start" /\ caller' = "made"
                   \/ caller # "late" /\ caller' = "end"
                   \/ caller = "made" /\ caller' = "handle" /\ host = "spawn"
                   \/ /\ host \notin {"spawn", "no executor"} /\ caller # "late"
                      /\ caller' \notin {"start", "made", "handle", "late"}
  <1>1. CASE AwaitChild(t)
    <2>1. Same
      BY <1>1 DEF Ended, AwaitChild, Await, Running
    <2>2. Go
      BY <1>1 DEF AwaitChild, Await, Running
    <2> QED
      BY <2>1, <2>2, SpawnFrame
  <1>2. CASE AwaitLeaf(t)
    <2>1. Same
      BY <1>2 DEF Ended, AwaitLeaf, Await, Create, Running
    <2>2. Go
      BY <1>2 DEF AwaitLeaf, Await, Create, Running
    <2> QED
      BY <2>1, <2>2, SpawnFrame
  <1>3. CASE RunScheduled(t)
    <2>1. Same
      BY <1>3, ZenonT(40) DEF Ended, RunScheduled, At
    <2>2. Go
      BY <1>3 DEF RunScheduled, At
    <2> QED
      BY <2>1, <2>2, SpawnFrame
  <1>4. CASE ChildResumed(t)
    <2>1. Same
      BY <1>4 DEF Ended, ChildResumed, Running, At, Destroy
    <2>2. Go
      BY <1>4 DEF ChildResumed, Running, At, Destroy
    <2> QED
      BY <2>1, <2>2, SpawnFrame
  <1>5. CASE \E f \in {Child, Leaf} : Hop(t, f)
    <2>1. Same
      BY <1>5, ZenonT(40) DEF Ended, Hop, Running, At
    <2>2. Go
      BY <1>5 DEF Hop, Running, At
    <2> QED
      BY <2>1, <2>2, SpawnFrame
  <1>6. CASE Return(t, Child)
    <2>1. Same
      BY <1>6 DEF Ended, Return, Running
    <2>2. Go
      BY <1>6 DEF Return, Running
    <2> QED
      BY <2>1, <2>2, SpawnFrame
  <1>7. CASE Return(t, Leaf)
    <2>1. Same
      BY <1>7 DEF Ended, Return, Running
    <2>2. Go
      BY <1>7 DEF Return, Running
    <2> QED
      BY <2>1, <2>2, SpawnFrame
  <1>8. CASE AwaitSender(t)
    <2>1. Same
      BY <1>8 DEF Ended, AwaitSender, Create, Running
    <2>2. Go
      BY <1>8 DEF AwaitSender, Create, Running
    <2> QED
      BY <2>1, <2>2, SpawnFrame
  <1>9. CASE StartBridge(t)
    <2>1. Same
      BY <1>9 DEF Ended, StartBridge, Create
    <2>2. Go
      BY <1>9 DEF StartBridge, Create
    <2> QED
      BY <2>1, <2>2, SpawnFrame
  <1>10. CASE SetValue(t)
    <2>1. Same
      BY <1>10 DEF Ended, SetValue, Running
    <2>2. Go
      BY <1>10 DEF SetValue, Running
    <2> QED
      BY <2>1, <2>2, SpawnFrame
  <1>11. CASE BridgeEnds(t)
    <2>1. Same
      BY <1>11, ZenonT(40) DEF Ended, BridgeEnds, Running, Destroy
    <2>2. Go
      BY <1>11 DEF BridgeEnds, Running, Destroy
    <2> QED
      BY <2>1, <2>2, SpawnFrame
  <1>12. CASE AwaitSchedule(t)
    <2>1. Same
      BY <1>12 DEF Ended, AwaitSchedule, Running, At
    <2>2. Go
      BY <1>12 DEF AwaitSchedule, Running, At
    <2> QED
      BY <2>1, <2>2, SpawnFrame
  <1>13. CASE RunPosted(t)
    <2>1. Same
      BY <1>13 DEF Ended, RunPosted, At
    <2>2. Go
      BY <1>13 DEF RunPosted, At
    <2> QED
      BY <2>1, <2>2, SpawnFrame
  <1>14. CASE StartReturns(t)
    <2>1. Same
      BY <1>14 DEF Ended, StartReturns
    <2>2. Go
      BY <1>14 DEF StartReturns
    <2> QED
      BY <2>1, <2>2, SpawnFrame
  <1>15. CASE HostEnds(t)
    <2>1. Same
      BY <1>15 DEF Ended, HostEnds, Running, Destroy
    <2>2. Go
      BY <1>15 DEF HostEnds, Running, Destroy
    <2> QED
      BY <2>1, <2>2, SpawnFrame
  <1> QED
    BY <1>1, <1>2, <1>3, <1>4, <1>5, <1>6, <1>7, <1>8, <1>9, <1>10, <1>11, <1>12, <1>13,
       <1>14, <1>15 DEF TaskStep

(* So do the other hosts. *)
LEMMA WaitStepSpawn ==
  ASSUME ControlInv, SpawnInv, NEW t \in Thread, WaitStep(t), UNCHANGED spawnVars
  PROVE  SpawnInv'
  <1> USE Frames DEF ControlInv, FrameTypes, HostInv, CallerInv, LeafInv,
             ScheduledInv, host_frame, other_frame, promiseVars, execVars
  <1> DEFINE Same == /\ host' = host
                     /\ host = "spawn" => (frame[Wrapper] \in Ended <=> frame'[Wrapper] \in Ended)
                     /\ host = "spawn" /\ frame[Wrapper] = "complete" => frame'[Wrapper] = "complete"
             Go == \/ caller' = caller
                   \/ caller = "start" /\ caller' = "made"
                   \/ caller # "late" /\ caller' = "end"
                   \/ caller = "made" /\ caller' = "handle" /\ host = "spawn"
                   \/ /\ host \notin {"spawn", "no executor"} /\ caller # "late"
                      /\ caller' \notin {"start", "made", "handle", "late"}
  <1>1. CASE StoreResult(t)
    <2>1. Same
      BY <1>1 DEF Ended, StoreResult, Running, AwaitResume, At
    <2>2. Go
      BY <1>1 DEF StoreResult, Running, AwaitResume, At
    <2> QED
      BY <2>1, <2>2, SpawnFrame
  <1>2. CASE Signal(t)
    <2>1. Same
      BY <1>2 DEF Ended, Signal, Running, At
    <2>2. Go
      BY <1>2 DEF Signal, Running, At
    <2> QED
      BY <2>1, <2>2, SpawnFrame
  <1>3. CASE WrapperReturns(t)
    <2>1. Same
      BY <1>3 DEF Ended, WrapperReturns
    <2>2. Go
      BY <1>3 DEF WrapperReturns
    <2> QED
      BY <2>1, <2>2, SpawnFrame
  <1>4. CASE DetachedFinal(t)
    <2>1. Same
      BY <1>4 DEF Ended, DetachedFinal, Running, AwaitResume, At
    <2>2. Go
      BY <1>4 DEF DetachedFinal, Running, AwaitResume, At
    <2> QED
      BY <2>1, <2>2, SpawnFrame
  <1> QED
    BY <1>1, <1>2, <1>3, <1>4 DEF WaitStep

(* So do their callers. *)
LEMMA WaitCallerSpawn ==
  ASSUME ControlInv, SpawnInv, WaitCaller, UNCHANGED spawnVars
  PROVE  SpawnInv'
  <1> USE Frames DEF ControlInv, FrameTypes, HostInv, CallerInv, LeafInv,
             ScheduledInv, host_frame, other_frame, promiseVars, execVars
  <1> DEFINE Same == /\ host' = host
                     /\ host = "spawn" => (frame[Wrapper] \in Ended <=> frame'[Wrapper] \in Ended)
                     /\ host = "spawn" /\ frame[Wrapper] = "complete" => frame'[Wrapper] = "complete"
             Go == \/ caller' = caller
                   \/ caller = "start" /\ caller' = "made"
                   \/ caller # "late" /\ caller' = "end"
                   \/ caller = "made" /\ caller' = "handle" /\ host = "spawn"
                   \/ /\ host \notin {"spawn", "no executor"} /\ caller # "late"
                      /\ caller' \notin {"start", "made", "handle", "late"}
  <1>1. CASE SyncWaitStart
    <2>1. Same
      BY <1>1 DEF Ended, SyncWaitStart, Create, At
    <2>2. Go
      BY <1>1 DEF SyncWaitStart, Create, At
    <2> QED
      BY <2>1, <2>2, SpawnFrame
  <1>2. CASE SyncWaitEnds
    <2>1. Same
      BY <1>2 DEF Ended, SyncWaitEnds, Destroy
    <2>2. Go
      BY <1>2 DEF SyncWaitEnds, Destroy
    <2> QED
      BY <2>1, <2>2, SpawnFrame
  <1>3. CASE MakeDetached
    <2>1. Same
      BY <1>3 DEF Ended, MakeDetached, Create, At
    <2>2. Go
      BY <1>3 DEF MakeDetached, Create, At
    <2> QED
      BY <2>1, <2>2, SpawnFrame
  <1>4. CASE SetCallback
    <2>1. Same
      BY <1>4 DEF Ended, SetCallback, taskVars
    <2>2. Go
      BY <1>4 DEF SetCallback, taskVars
    <2> QED
      BY <2>1, <2>2, SpawnFrame
  <1>5. CASE Start
    <2>1. Same
      BY <1>5 DEF Ended, Start, At
    <2>2. Go
      BY <1>5 DEF Start, At
    <2> QED
      BY <2>1, <2>2, SpawnFrame
  <1>6. CASE DetachedDropped
    <2>1. Same
      BY <1>6 DEF Ended, DetachedDropped, Destroy
    <2>2. Go
      BY <1>6 DEF DetachedDropped, Destroy
    <2> QED
      BY <2>1, <2>2, SpawnFrame
  <1> QED
    BY <1>1, <1>2, <1>3, <1>4, <1>5, <1>6 DEF WaitCaller

(* Nothing is given before Spawn(). *)
LEMMA CallerSpawn ==
  ASSUME ControlInv, SpawnInv, (MakeTask \/ DropTask) \/ SpawnOn, UNCHANGED spawnVars
  PROVE  SpawnInv'
  <1> USE Frames DEF ControlInv, FrameTypes, HostInv, CallerInv, LeafInv,
             ScheduledInv, host_frame, other_frame, promiseVars, execVars
  <1> DEFINE Same == /\ host' = host
                     /\ host = "spawn" => (frame[Wrapper] \in Ended <=> frame'[Wrapper] \in Ended)
                     /\ host = "spawn" /\ frame[Wrapper] = "complete" => frame'[Wrapper] = "complete"
             Go == \/ caller' = caller
                   \/ caller = "start" /\ caller' = "made"
                   \/ caller # "late" /\ caller' = "end"
                   \/ caller = "made" /\ caller' = "handle" /\ host = "spawn"
                   \/ /\ host \notin {"spawn", "no executor"} /\ caller # "late"
                      /\ caller' \notin {"start", "made", "handle", "late"}
  <1>1. CASE MakeTask
    <2>1. Same
      BY <1>1 DEF Ended, MakeTask, Create, At
    <2>2. Go
      BY <1>1 DEF MakeTask, Create, At
    <2> QED
      BY <2>1, <2>2, SpawnFrame
  <1>2. CASE DropTask
    <2>1. Same
      BY <1>2 DEF Ended, DropTask, Destroy
    <2>2. Go
      BY <1>2 DEF DropTask, Destroy
    <2> QED
      BY <2>1, <2>2, SpawnFrame
  <1>3. CASE SpawnOn
    <2>1. Same
      BY <1>3 DEF Ended, SpawnOn, Create, At
    <2>2. Go
      BY <1>3 DEF SpawnOn, Create, At
    <2> QED
      BY <2>1, <2>2, SpawnFrame
  <1> QED
    BY <1>1, <1>2, <1>3

(* What callbacks are called with *)
LEMMA Words ==
  /\ <<"value">> # <<>> /\ <<"moved">> # <<>> /\ <<"NoExecutor">> # <<>>
  /\ <<"value">> # <<"NoExecutor">> /\ <<"moved">> # <<"NoExecutor">> /\ <<"value">> # <<"moved">>
  OBVIOUS

(* Whom a call is for and with what, whether or not there is one *)
LEMMA CallEffect ==
  ASSUME SpawnTypes, NEW c,
         c \in [cb : Somebody \union {NoCallback}, val : {"none", "value", "moved", "NoExecutor"}],
         c.cb = NoCallback <=> c.val = "none",
         c.cb # NoCallback => called[c.cb] = <<>>,
         Call(c)
  PROVE  /\ called' \in [Somebody -> {<<>>, <<"value">>, <<"moved">>, <<"NoExecutor">>}]
         /\ \A d \in Somebody : d # c.cb => called'[d] = called[d]
         /\ c.cb # NoCallback => called'[c.cb] = <<c.val>>
         /\ c.cb = NoCallback => called' = called
  <1>1. CASE c.cb = NoCallback
    <2>1. c = Nothing
      BY <1>1 DEF Nothing
    <2> QED
      BY <1>1, <2>1 DEF Call, SpawnTypes
  <1>2. CASE c.cb # NoCallback
    <2>1. c # Nothing /\ c.cb \in Somebody /\ c.val \in {"value", "moved", "NoExecutor"}
      BY <1>2 DEF Nothing
    <2>2. called[c.cb] = <<>>
      BY <1>2
    <2>3. Append(<<>>, c.val) = <<c.val>>
      OBVIOUS
    <2>4. called' = [called EXCEPT ![c.cb] = <<c.val>>]
      BY <2>1, <2>2, <2>3 DEF Call
    <2>5. <<c.val>> \in {<<"value">>, <<"moved">>, <<"NoExecutor">>}
      BY <2>1
    <2> QED
      BY <1>2, <2>1, <2>4, <2>5 DEF SpawnTypes
  <1> QED
    BY <1>1, <1>2

(* The parts of a SpawnState *)
LEMMA StateFields ==
  ASSUME SpawnTypes
  PROVE  /\ state.completed \in BOOLEAN /\ state.failed \in BOOLEAN
         /\ state.result \in {"none", "value", "moved"}
         /\ state.on_complete \in Callback \union {NoCallback}
         /\ calling.cb \in Callback \union {NoCallback} /\ calling.val \in {"none", "value"}
         /\ late.cb \in Somebody \union {NoCallback}
         /\ late.val \in {"none", "value", "moved", "NoExecutor"}
         /\ NoCallback \notin Somebody /\ ErrorCallback \notin Callback
         /\ calling = Nothing <=> calling.cb = NoCallback /\ calling.val = "none"
         /\ late = Nothing <=> late.cb = NoCallback /\ late.val = "none"
  BY CallbackAssumption DEF SpawnTypes, Nothing, Somebody

(* Spawn() without an executor fails. *)
LEMMA SpawnNoExecutorSpawn ==
  ASSUME ControlInv, SpawnInv, SpawnNoExecutor
  PROVE  SpawnInv'
  <1>1. /\ host = "no executor" /\ host' = host /\ caller = "made" /\ caller' = "handle"
        /\ state' = [state EXCEPT !.failed = TRUE]
        /\ UNCHANGED <<calling, late, given, replaced, called>>
        /\ given = {} /\ ~state.completed
    BY DEF SpawnNoExecutor, SpawnInv, SpawnPhase
  <1>2. SpawnTypes
    BY DEF SpawnInv
  <1>3. /\ state'.completed = state.completed /\ state'.failed /\ state'.result = state.result
        /\ state'.on_complete = state.on_complete
    BY <1>1, <1>2 DEF SpawnTypes
  <1>4. SpawnTypes'
    BY <1>1, <1>2 DEF SpawnTypes
  <1>5. SpawnPhase'
    BY <1>1, <1>3 DEF SpawnInv, SpawnPhase, ValueGiven
  <1>6. CallbackPlaces'
    BY <1>1, <1>3 DEF SpawnInv, CallbackPlaces, CallbackAt, ErrorCallbackAt, ValueGiven
  <1> QED
    BY <1>4, <1>5, <1>6 DEF SpawnInv

(* The handle goes. *)
LEMMA HandleEndsSpawn ==
  ASSUME SpawnInv, HandleEnds, UNCHANGED <<host, frame>>
  PROVE  SpawnInv'
  BY SpawnFrame DEF HandleEnds

(* OnError() stores the callback, or finds the error. *)
LEMMA OnErrorSpawn ==
  ASSUME ControlInv, SpawnInv, OnError, UNCHANGED <<host, frame>>, host \in {"spawn", "no executor"}
  PROVE  SpawnInv'
  <1>1. /\ caller = "handle" /\ ErrorCallback \notin given
        /\ given' = given \union {ErrorCallback}
        /\ UNCHANGED <<host, frame, calling, replaced, called>>
    BY DEF OnError
  <1>2. SpawnTypes /\ ErrorCallback \in Somebody
    BY DEF SpawnInv, Somebody
  <1>b. late = Nothing
    BY <1>1 DEF SpawnInv, SpawnPhase
  <1>3. late = Nothing /\ late.cb = NoCallback /\ late.val = "none"
    BY <1>b DEF Nothing
  <1>4. CASE state.failed /\ caller' = "late" /\ UNCHANGED state
             /\ late' = [cb |-> ErrorCallback, val |-> "NoExecutor"]
    <2>1. late'.cb = ErrorCallback /\ late'.val = "NoExecutor" /\ late' # Nothing
      BY <1>2, <1>4, StateFields DEF Nothing
    <2>2. SpawnTypes'
      BY <1>1, <1>2, <1>4 DEF SpawnTypes
    <2>3. SpawnPhase'
      BY <1>1, <1>2, <1>4, <2>1, StateFields DEF SpawnInv, SpawnPhase, ValueGiven
    <2>4. CallbackPlaces'
      <3>1. ASSUME NEW d \in Callback PROVE CallbackAt(d)'
        <4>1. CallbackAt(d) /\ d # ErrorCallback /\ d # NoCallback
          BY CallbackAssumption DEF SpawnInv, CallbackPlaces
        <4> QED
          BY <1>1, <1>3, <1>4, <2>1, <4>1 DEF CallbackAt, ValueGiven
      <3>2. ErrorCallbackAt'
        <4>1. ErrorCallbackAt /\ ErrorCallback \notin Callback /\ ErrorCallback # NoCallback
          BY CallbackAssumption DEF SpawnInv, CallbackPlaces
        <4> QED
          BY <1>1, <1>3, <1>4, <2>1, <4>1 DEF ErrorCallbackAt
      <3> QED
        BY <3>1, <3>2 DEF CallbackPlaces
    <2> QED
      BY <2>2, <2>3, <2>4 DEF SpawnInv
  <1>5. CASE ~state.failed /\ state' = [state EXCEPT !.on_error = ErrorCallback]
             /\ UNCHANGED <<caller, late>>
    <2>1. /\ state'.completed = state.completed /\ state'.failed = state.failed
          /\ state'.result = state.result /\ state'.on_complete = state.on_complete
      BY <1>2, <1>5 DEF SpawnTypes
    <2>2. SpawnTypes'
      BY <1>1, <1>2, <1>5 DEF SpawnTypes
    <2>3. SpawnPhase'
      BY <1>1, <1>2, <1>5, <2>1, StateFields DEF SpawnInv, SpawnPhase, ValueGiven
    <2>4. CallbackPlaces'
      BY <1>1, <1>2, <1>3, <1>5, <2>1, StateFields DEF SpawnInv, CallbackPlaces,
         CallbackAt, ErrorCallbackAt, ValueGiven
    <2> QED
      BY <2>2, <2>3, <2>4 DEF SpawnInv
  <1> QED
    BY <1>4, <1>5 DEF OnError

(* OnComplete() stores the callback, in the place of another, or finds the  *)
(* result.                                                                  *)
LEMMA OnCompleteSpawn ==
  ASSUME ControlInv, SpawnInv, NEW cb \in Callback, OnComplete(cb), UNCHANGED <<host, frame>>,
         host \in {"spawn", "no executor"}
  PROVE  SpawnInv'
  <1>1. /\ caller = "handle" /\ cb \notin given /\ given' = given \union {cb}
        /\ UNCHANGED <<host, frame, calling, called>>
    BY DEF OnComplete
  <1>2. SpawnTypes /\ cb \in Somebody /\ cb # NoCallback /\ cb # ErrorCallback
    BY CallbackAssumption DEF SpawnInv, Somebody
  <1>b. late = Nothing
    BY <1>1 DEF SpawnInv, SpawnPhase
  <1>3. late = Nothing /\ late.cb = NoCallback /\ late.val = "none"
    BY <1>b DEF Nothing
  <1>a. ValueGiven' <=> ValueGiven
    BY <1>1 DEF ValueGiven
  <1>4. CASE state.completed /\ caller' = "late" /\ UNCHANGED <<state, replaced>>
             /\ late' = [cb |-> cb, val |-> state.result]
    <2>1. late'.cb = cb /\ late'.val = state.result /\ late' # Nothing
          /\ state.result \in {"value", "moved"} /\ state.on_complete = NoCallback
      BY <1>2, <1>4, StateFields DEF Nothing, SpawnInv, SpawnPhase
    <2>2. SpawnTypes'
      BY <1>1, <1>2, <1>4, <2>1 DEF SpawnTypes
    <2>3. SpawnPhase'
      BY <1>1, <1>2, <1>4, <1>a, <2>1, StateFields DEF SpawnInv, SpawnPhase
    <2>4. CallbackPlaces'
      <3>1. ASSUME NEW d \in Callback PROVE CallbackAt(d)'
        <4>1. CallbackAt(d) /\ d # ErrorCallback /\ d # NoCallback
          BY CallbackAssumption DEF SpawnInv, CallbackPlaces
        <4>2. CASE d = cb
          BY <1>1, <1>2, <1>3, <1>4, <1>a, <2>1, <4>1, <4>2 DEF CallbackAt
        <4>3. CASE d # cb
          BY <1>1, <1>2, <1>3, <1>4, <1>a, <2>1, <4>1, <4>3 DEF CallbackAt
        <4> QED
          BY <4>2, <4>3
      <3>2. ErrorCallbackAt'
        <4>1. ErrorCallbackAt /\ ErrorCallback \notin Callback /\ ErrorCallback # NoCallback
          BY CallbackAssumption DEF SpawnInv, CallbackPlaces
        <4> QED
          BY <1>1, <1>2, <1>3, <1>4, <2>1, <4>1 DEF ErrorCallbackAt
      <3> QED
        BY <3>1, <3>2 DEF CallbackPlaces
    <2> QED
      BY <2>2, <2>3, <2>4 DEF SpawnInv
  <1>5. CASE ~state.completed /\ state' = [state EXCEPT !.on_complete = cb]
             /\ replaced' = replaced \union ({state.on_complete} \ {NoCallback})
             /\ UNCHANGED <<caller, late>>
    <2>1. /\ state'.completed = state.completed /\ state'.failed = state.failed
          /\ state'.result = state.result /\ state'.on_complete = cb
      BY <1>2, <1>5 DEF SpawnTypes
    <2>2. SpawnTypes'
      <3>1. replaced' \subseteq Callback
        BY <1>2, <1>5, StateFields DEF SpawnTypes
      <3> QED
        BY <1>1, <1>2, <1>5, <3>1 DEF SpawnTypes
    <2>3. SpawnPhase'
      BY <1>1, <1>2, <1>5, <1>a, <2>1, StateFields DEF SpawnInv, SpawnPhase
    <2>4. CallbackPlaces'
      <3>1. ASSUME NEW d \in Callback PROVE CallbackAt(d)'
        <4>1. CallbackAt(d) /\ d # ErrorCallback /\ d # NoCallback
          BY CallbackAssumption DEF SpawnInv, CallbackPlaces
        <4>2. CASE d = cb
          BY <1>1, <1>2, <1>3, <1>5, <1>a, <2>1, <4>1, <4>2 DEF CallbackAt
        <4>3. CASE d # cb
          BY <1>1, <1>2, <1>3, <1>5, <1>a, <2>1, <4>1, <4>3 DEF CallbackAt
        <4> QED
          BY <4>2, <4>3
      <3>2. ErrorCallbackAt'
        <4>1. ErrorCallbackAt /\ ErrorCallback \notin Callback /\ ErrorCallback # NoCallback
          BY CallbackAssumption DEF SpawnInv, CallbackPlaces
        <4> QED
          BY <1>1, <1>2, <1>3, <1>5, <2>1, <4>1 DEF ErrorCallbackAt
      <3> QED
        BY <3>1, <3>2 DEF CallbackPlaces
    <2> QED
      BY <2>2, <2>3, <2>4 DEF SpawnInv
  <1> QED
    BY <1>4, <1>5 DEF OnComplete

(* The callback that came too late is called. *)
LEMMA LateCallSpawn ==
  ASSUME ControlInv, SpawnInv, LateCall, UNCHANGED <<host, frame>>, host \in {"spawn", "no executor"}
  PROVE  SpawnInv'
  <1>1. /\ caller = "late" /\ caller' = "handle" /\ Call(late) /\ late' = Nothing
        /\ UNCHANGED <<host, frame, state, calling, given, replaced>>
    BY DEF LateCall
  <1>2. SpawnTypes
    BY DEF SpawnInv
  <1>3. late.cb # NoCallback => called[late.cb] = <<>>
    BY <1>2, StateFields DEF SpawnInv, CallbackPlaces, CallbackAt, ErrorCallbackAt, Somebody
  <1>4. /\ called' \in [Somebody -> {<<>>, <<"value">>, <<"moved">>, <<"NoExecutor">>}]
        /\ \A d \in Somebody : d # late.cb => called'[d] = called[d]
        /\ late.cb # NoCallback => called'[late.cb] = <<late.val>>
        /\ late.cb = NoCallback => called' = called
    BY <1>1, <1>2, <1>3, CallEffect DEF SpawnInv, SpawnPhase, SpawnTypes
  <1>5. late'.cb = NoCallback /\ late'.val = "none"
    BY <1>1 DEF Nothing
  <1>6. SpawnTypes'
    <2>1. late' \in [cb : Somebody \union {NoCallback}, val : {"none", "value", "moved", "NoExecutor"}]
      BY <1>1 DEF Nothing
    <2> QED
      BY <1>1, <1>2, <1>4, <2>1 DEF SpawnTypes
  <1>a. ValueGiven => ValueGiven'
    <2> SUFFICES ASSUME NEW d \in Callback,
                        called[d] = <<"value">> \/ calling = [cb |-> d, val |-> "value"]
                 PROVE  called'[d] = <<"value">> \/ calling' = [cb |-> d, val |-> "value"]
      BY DEF ValueGiven
    <2>1. d \in Somebody /\ (called[d] # <<>> => d # late.cb)
      BY <1>3, <1>2, StateFields, CallbackAssumption DEF Somebody
    <2>2. <<"value">> # <<>> /\ calling' = calling
      BY <1>1
    <2>3. CASE called[d] = <<"value">>
      BY <1>4, <2>1, <2>2, <2>3
    <2> QED
      BY <2>2, <2>3
  <1>7. SpawnPhase'
    BY <1>1, <1>2, <1>5, <1>a, CallbackAssumption DEF SpawnInv, SpawnPhase
  <1>8. CallbackPlaces'
    <2>1. ASSUME NEW cb \in Callback, cb # late.cb
          PROVE  called'[cb] = called[cb]
      BY <1>4, <2>1 DEF Somebody
    <2>2. ASSUME NEW cb \in Callback, cb = late.cb
          PROVE  /\ called'[cb] # <<>> /\ called'[cb] # <<"NoExecutor">> /\ state.completed
                 /\ called'[cb] = <<"moved">> => ValueGiven'
                 /\ cb \in given /\ cb \notin replaced
                 /\ cb \notin {state.on_complete, calling.cb}
      <3>1. /\ cb # NoCallback /\ cb \in given /\ cb \notin replaced
            /\ cb \notin {state.on_complete, calling.cb}
        BY <1>2, <2>2, StateFields DEF SpawnInv, CallbackPlaces, CallbackAt,
           ErrorCallbackAt, Somebody
      <3>2. state.completed /\ late.val = state.result /\ late.val \in {"value", "moved"}
        BY <2>2 DEF SpawnInv, SpawnPhase
      <3>3. called'[cb] = <<late.val>>
        BY <1>4, <2>2, <3>1
      <3>4. late.val = "moved" => ValueGiven
        BY <3>2 DEF SpawnInv, SpawnPhase
      <3>5. /\ called'[cb] # <<>> /\ called'[cb] # <<"NoExecutor">>
            /\ called'[cb] = <<"moved">> => late.val = "moved"
        <4>1. CASE late.val = "value"
          BY <3>3, <4>1, Words
        <4>2. CASE late.val = "moved"
          BY <3>3, <4>2, Words
        <4> QED
          BY <3>2, <4>1, <4>2
      <3> QED
        BY <1>a, <3>1, <3>2, <3>4, <3>5
    <2>3. /\ late.cb # ErrorCallback => called'[ErrorCallback] = called[ErrorCallback]
          /\ late.cb = ErrorCallback => called'[ErrorCallback] = <<"NoExecutor">> /\ state.failed
                                        /\ ErrorCallback \in given
      BY <1>2, <1>4, StateFields DEF SpawnInv, SpawnPhase, CallbackPlaces, CallbackAt,
         ErrorCallbackAt, Somebody
    <2>4. ErrorCallback # late'.cb /\ \A cb \in Callback : cb # late'.cb
      BY <1>2, <1>5, CallbackAssumption
    <2>5. <<"NoExecutor">> # <<>>
      OBVIOUS
    <2>6. (\A cb \in Callback : CallbackAt(cb))'
      <3> SUFFICES ASSUME NEW cb \in Callback PROVE CallbackAt(cb)'
        OBVIOUS
      <3>1. CASE cb = late.cb
        BY <1>1, <2>2, <2>4, <3>1 DEF CallbackAt
      <3>2. CASE cb # late.cb
        BY <1>1, <1>a, <2>1, <2>4, <3>2 DEF SpawnInv, CallbackPlaces, CallbackAt,
           ErrorCallbackAt
      <3> QED
        BY <3>1, <3>2
    <2>7. ErrorCallbackAt'
      BY <1>1, <2>3, <2>4, <2>5 DEF SpawnInv, CallbackPlaces, CallbackAt, ErrorCallbackAt
    <2> QED
      BY <2>6, <2>7 DEF CallbackPlaces
  <1> QED
    BY <1>6, <1>7, <1>8 DEF SpawnInv

(* Complete() takes the callback, or leaves the result. *)
LEMMA CompleteSpawn ==
  ASSUME ControlInv, SpawnInv, NEW t \in Thread, Complete(t)
  PROVE  SpawnInv'
  <1>1. /\ host = "spawn" /\ frame[Wrapper] = "got" /\ frame'[Wrapper] = "complete"
        /\ UNCHANGED <<host, caller, late, given, replaced, called>>
    BY Frames DEF Complete, Running, AwaitResume, At, ControlInv, FrameTypes
  <1>2. SpawnTypes /\ ~state.completed /\ calling = Nothing
    BY <1>1 DEF SpawnInv, SpawnPhase
  <1>3. calling.cb = NoCallback /\ calling.val = "none" /\ late.cb \notin Callback
    BY <1>2 DEF Nothing, SpawnInv, SpawnPhase
  <1>4. \A cb \in Callback : called[cb] = <<>> /\ cb # late.cb
    BY <1>2, <1>3 DEF SpawnInv, CallbackPlaces, CallbackAt
  <1>5. CASE /\ state.on_complete # NoCallback
             /\ calling' = [cb |-> state.on_complete, val |-> "value"]
             /\ state' = [state EXCEPT !.completed = TRUE, !.result = "moved",
                                       !.on_complete = NoCallback]
    <2>1. /\ state'.completed /\ state'.failed = state.failed
          /\ state'.result = "moved" /\ state'.on_complete = NoCallback
          /\ calling'.cb = state.on_complete /\ calling'.val = "value" /\ calling' # Nothing
      BY <1>2, <1>5 DEF SpawnTypes, Nothing
    <2>2. SpawnTypes'
      BY <1>1, <1>2, <1>5 DEF SpawnTypes
    <2>3. ValueGiven'
      BY <1>2, <1>5, <2>1, StateFields DEF ValueGiven
    <2>4. SpawnPhase'
      BY <1>1, <1>3, <1>5, <2>1, <2>3 DEF SpawnInv, SpawnPhase
    <2>5. CallbackPlaces'
      <3>1. ASSUME NEW d \in Callback PROVE CallbackAt(d)'
        <4>1. CallbackAt(d) /\ d # NoCallback
          BY CallbackAssumption DEF SpawnInv, CallbackPlaces
        <4> QED
          BY <1>1, <1>3, <1>4, <2>1, <2>3, <4>1 DEF CallbackAt
      <3>2. ErrorCallbackAt'
        BY <1>1, <2>1 DEF ErrorCallbackAt, SpawnInv, CallbackPlaces
      <3> QED
        BY <3>1, <3>2 DEF CallbackPlaces
    <2> QED
      BY <2>2, <2>4, <2>5 DEF SpawnInv
  <1>6. CASE /\ state.on_complete = NoCallback /\ UNCHANGED calling
             /\ state' = [state EXCEPT !.completed = TRUE, !.result = "value"]
    <2>1. /\ state'.completed /\ state'.failed = state.failed
          /\ state'.result = "value" /\ state'.on_complete = NoCallback
      BY <1>2, <1>6 DEF SpawnTypes
    <2>2. SpawnTypes'
      BY <1>1, <1>2, <1>6 DEF SpawnTypes
    <2>4. SpawnPhase'
      BY <1>1, <1>2, <1>3, <1>6, <2>1 DEF SpawnInv, SpawnPhase
    <2>5. CallbackPlaces'
      <3>1. ASSUME NEW d \in Callback PROVE CallbackAt(d)'
        <4>1. CallbackAt(d) /\ d # NoCallback
          BY CallbackAssumption DEF SpawnInv, CallbackPlaces
        <4> QED
          BY <1>1, <1>3, <1>4, <1>6, <2>1, <4>1, Words DEF CallbackAt
      <3>2. ErrorCallbackAt'
        BY <1>1, <2>1 DEF ErrorCallbackAt, SpawnInv, CallbackPlaces
      <3> QED
        BY <3>1, <3>2 DEF CallbackPlaces
    <2> QED
      BY <2>2, <2>4, <2>5 DEF SpawnInv
  <1> QED
    BY <1>5, <1>6 DEF Complete

(* Complete() calls the callback it took. *)
LEMMA CompleteCallSpawn ==
  ASSUME ControlInv, SpawnInv, NEW t \in Thread, CompleteCall(t)
  PROVE  SpawnInv'
  <1>1. /\ host = "spawn" /\ frame[Wrapper] = "complete" /\ frame'[Wrapper] = "ending"
        /\ Call(calling) /\ calling' = Nothing
        /\ UNCHANGED <<host, caller, state, late, given, replaced>>
    BY Frames DEF CompleteCall, Running, At, ControlInv, FrameTypes
  <1>2. SpawnTypes /\ state.completed
    BY <1>1 DEF SpawnInv, SpawnPhase
  <1>3. calling.cb # NoCallback => /\ called[calling.cb] = <<>> /\ calling.cb \in Callback
                                   /\ calling.val = "value" /\ calling.cb \in given \ replaced
                                   /\ calling.cb \notin {late.cb, state.on_complete}
    BY <1>2, StateFields DEF SpawnInv, SpawnPhase, CallbackPlaces, CallbackAt
  <1>4. calling.cb = NoCallback <=> calling.val = "none"
    BY <1>2, StateFields DEF SpawnInv, SpawnPhase
  <1>5. calling \in [cb : Somebody \union {NoCallback}, val : {"none", "value", "moved", "NoExecutor"}]
    BY <1>2 DEF SpawnTypes, Somebody
  <1>6. /\ called' \in [Somebody -> {<<>>, <<"value">>, <<"moved">>, <<"NoExecutor">>}]
        /\ \A d \in Somebody : d # calling.cb => called'[d] = called[d]
        /\ calling.cb # NoCallback => called'[calling.cb] = <<"value">>
        /\ calling.cb = NoCallback => called' = called
    <2>1. calling.cb # NoCallback => called[calling.cb] = <<>>
      BY <1>3
    <2>2. /\ called' \in [Somebody -> {<<>>, <<"value">>, <<"moved">>, <<"NoExecutor">>}]
          /\ \A d \in Somebody : d # calling.cb => called'[d] = called[d]
          /\ calling.cb # NoCallback => called'[calling.cb] = <<calling.val>>
          /\ calling.cb = NoCallback => called' = called
      BY <1>1, <1>2, <1>4, <1>5, <2>1, CallEffect
    <2> QED
      BY <1>3, <2>2
  <1>7. calling'.cb = NoCallback /\ calling'.val = "none"
    BY <1>1 DEF Nothing
  <1>8. SpawnTypes'
    <2>1. calling' \in [cb : Callback \union {NoCallback}, val : {"none", "value"}]
      BY <1>1 DEF Nothing
    <2> QED
      BY <1>1, <1>2, <1>6, <2>1 DEF SpawnTypes
  <1>a. ValueGiven => ValueGiven'
    <2> SUFFICES ASSUME NEW d \in Callback,
                        called[d] = <<"value">> \/ calling = [cb |-> d, val |-> "value"]
                 PROVE  called'[d] = <<"value">>
      BY DEF ValueGiven
    <2>1. d \in Somebody /\ d # NoCallback
      BY CallbackAssumption DEF Somebody
    <2>2. CASE called[d] = <<"value">>
      <3>1. d # calling.cb
        BY <1>3, <2>1, <2>2, Words
      <3> QED
        BY <1>6, <2>1, <2>2, <3>1
    <2>3. CASE calling = [cb |-> d, val |-> "value"]
      <3>1. calling.cb = d
        BY <2>3
      <3> QED
        BY <1>6, <2>1, <3>1
    <2> QED
      BY <2>2, <2>3
  <1>9. SpawnPhase'
    BY <1>1, <1>2, <1>7, <1>a, CallbackAssumption DEF SpawnInv, SpawnPhase
  <1>10. CallbackPlaces'
    <2>1. ASSUME NEW d \in Callback PROVE CallbackAt(d)'
      <3>1. CallbackAt(d) /\ d # NoCallback /\ d \in Somebody
        BY CallbackAssumption DEF SpawnInv, CallbackPlaces, Somebody
      <3>2. CASE d = calling.cb
        BY <1>1, <1>2, <1>3, <1>6, <1>7, <3>1, <3>2, Words DEF CallbackAt
      <3>3. CASE d # calling.cb
        BY <1>1, <1>2, <1>6, <1>7, <1>a, <3>1, <3>3 DEF CallbackAt
      <3> QED
        BY <3>2, <3>3
    <2>2. ErrorCallbackAt'
      <3>1. ErrorCallback \in Somebody /\ ErrorCallback # calling.cb
        BY <1>2, <1>3, StateFields, CallbackAssumption DEF Somebody
      <3> QED
        BY <1>1, <1>6, <3>1 DEF ErrorCallbackAt, SpawnInv, CallbackPlaces
    <2> QED
      BY <2>1, <2>2 DEF CallbackPlaces
  <1> QED
    BY <1>8, <1>9, <1>10 DEF SpawnInv

(* Initially there are no callbacks. *)
LEMMA SpawnInitInv ==
  ASSUME TasksInit, SpawnInit
  PROVE  SpawnInv
  <1>0. FALSE \in BOOLEAN /\ calling.cb = NoCallback /\ calling.val = "none"
        /\ late.cb = NoCallback /\ late.val = "none"
    BY DEF SpawnInit, Nothing
  <1>1. SpawnTypes
    BY <1>0 DEF SpawnTypes, SpawnInit, Nothing, Somebody
  <1>2. ~state.completed /\ ~state.failed /\ state.on_complete = NoCallback
    BY DEF SpawnInit
  <1>3. SpawnPhase
    BY <1>0, <1>2, Frames, CallbackAssumption DEF SpawnPhase, SpawnInit, TasksInit, ValueGiven
  <1>4. \A cb \in Callback \union {ErrorCallback} : called[cb] = <<>>
    BY DEF SpawnInit
  <1>5. given = {} /\ replaced = {}
    BY DEF SpawnInit
  <1>6. CallbackPlaces
    BY <1>0, <1>2, <1>4, <1>5, CallbackAssumption, Words DEF CallbackPlaces, CallbackAt,
       ErrorCallbackAt
  <1> QED
    BY <1>1, <1>3, <1>6 DEF SpawnInv

(* The callbacks are called as they should be. *)
LEMMA SpawnSound ==
  ASSUME ControlInv, SpawnInv
  PROVE  SpawnedOnce
  <1> DEFINE due == IF state.failed THEN {ErrorCallback} ELSE Callback
             quiet == late = Nothing /\ (state.failed \/ frame[Wrapper] = "freed")
             Called == {cb \in DOMAIN called : called[cb] # <<>>}
  <1>1. SpawnTypes
    BY DEF SpawnInv
  <1>2. ASSUME NEW cb \in Callback
        PROVE  /\ called[cb] \in {<<>>, <<"value">>, <<"moved">>}
               /\ called[cb] = <<"moved">> => ValueGiven
    <2>1. cb \in Somebody /\ CallbackAt(cb)
      BY DEF Somebody, SpawnInv, CallbackPlaces
    <2>2. called[cb] \in {<<>>, <<"value">>, <<"moved">>, <<"NoExecutor">>}
      BY <1>1, <2>1 DEF SpawnTypes
    <2> QED
      BY <2>1, <2>2 DEF CallbackAt
  <1>3. called[ErrorCallback] \in {<<>>, <<"NoExecutor">>}
    BY DEF SpawnInv, CallbackPlaces, ErrorCallbackAt
  <1>4. ASSUME quiet, NEW d \in Somebody
        PROVE  called[d] # <<>> <=> d \in (given \intersect due) \ replaced
    <2>1. late.cb = NoCallback
      BY <1>4 DEF Nothing
    <2>2. CASE d = ErrorCallback
      <3>1. d \notin replaced /\ d \notin Callback
        BY <1>1, <2>2, CallbackAssumption DEF SpawnTypes
      <3> QED
        BY <2>1, <2>2, <3>1, CallbackAssumption DEF SpawnInv, CallbackPlaces, ErrorCallbackAt
    <2>3. CASE d \in Callback
      <3>1. CallbackAt(d) /\ d # ErrorCallback /\ d # NoCallback
        BY <2>3, CallbackAssumption DEF SpawnInv, CallbackPlaces
      <3>2. CASE state.failed
        <4>1. called[d] = <<>>
          BY <3>1, <3>2 DEF CallbackAt, SpawnInv, SpawnPhase
        <4> QED
          BY <3>1, <3>2, <4>1
      <3>3. CASE ~state.failed /\ host = "spawn"
        <4>1. state.on_complete = NoCallback /\ calling = Nothing
          BY <1>4, <3>3 DEF SpawnInv, SpawnPhase
        <4>2. calling.cb = NoCallback
          BY <4>1 DEF Nothing
        <4> QED
          BY <2>1, <2>3, <3>1, <3>3, <4>1, <4>2 DEF CallbackAt
      <3>4. CASE ~state.failed /\ host # "spawn"
        <4>1. host # "no executor"
          BY <1>4, <3>4 DEF ControlInv, HostInv
        <4>2. given = {}
          BY <3>4, <4>1 DEF SpawnInv, SpawnPhase
        <4> QED
          BY <3>1, <4>2 DEF CallbackAt
      <3> QED
        BY <3>2, <3>3, <3>4
    <2> QED
      BY <2>2, <2>3 DEF Somebody
  <1>5. DOMAIN called = Somebody /\ given \subseteq Somebody
    BY <1>1 DEF SpawnTypes
  <1>6. quiet => Called = (given \intersect due) \ replaced
    <2> SUFFICES ASSUME quiet PROVE Called = (given \intersect due) \ replaced
      OBVIOUS
    <2>1. \A d \in Somebody : called[d] # <<>> <=> d \in (given \intersect due) \ replaced
      BY <1>4
    <2> HIDE DEF due, quiet
    <2> QED
      BY <1>5, <2>1
  <1> QED
    BY <1>2, <1>3, <1>6 DEF SpawnedOnce, ValueGiven

-----------------------------------------------------------------------------
(* Tasks: the memory of the frames                                          *)

(* GetBucket() finds the first bucket that is large enough. *)
LEMMA BucketOf ==
  ASSUME NEW size \in Nat \ {0}
  PROVE  /\ GetBucket(size) = Oversized \/ GetBucket(size) \in Bucket
         /\ GetBucket(size) # Oversized =>
              GetBucket(size) \in Bucket /\ size <= GetBucketSize[GetBucket(size)]
         /\ Oversized \notin Bucket /\ Bucket = 1 .. 6
         /\ \A b \in Bucket : GetBucketSize[b] \in Nat \ {0}
  <1>1. /\ Bucket = 1 .. 6 /\ GetBucketSize[1] = 64 /\ GetBucketSize[2] = 128
        /\ GetBucketSize[3] = 256 /\ GetBucketSize[4] = 512 /\ GetBucketSize[5] = 1024
        /\ GetBucketSize[6] = 2048
    BY DEF Bucket, GetBucketSize
  <1>2. \A b \in Bucket : b \in {1, 2, 3, 4, 5, 6}
    BY <1>1
  <1>3. \A b \in Bucket : GetBucketSize[b] \in Nat \ {0}
    BY <1>1, <1>2
  <1>4. Oversized \notin Bucket
    BY <1>1 DEF Oversized
  <1>5. CASE size > 2048
    BY <1>1, <1>3, <1>4, <1>5 DEF GetBucket
  <1>6. CASE ~(size > 2048)
    <2> DEFINE P(b) == /\ size <= GetBucketSize[b]
                       /\ \A c \in 1 .. (b - 1) : size > GetBucketSize[c]
    <2>1. \E b \in Bucket : P(b)
      <3>1. CASE size <= 64
        <4>1. 1 \in Bucket /\ P(1)
          BY <1>1, <3>1
        <4> QED
          BY <4>1
      <3>2. CASE 64 < size /\ size <= 128
        <4>1. 2 \in Bucket /\ P(2)
          BY <1>1, <3>2
        <4> QED
          BY <4>1
      <3>3. CASE 128 < size /\ size <= 256
        <4>1. 3 \in Bucket /\ P(3)
          BY <1>1, <3>3
        <4> QED
          BY <4>1
      <3>4. CASE 256 < size /\ size <= 512
        <4>1. 4 \in Bucket /\ P(4)
          BY <1>1, <3>4
        <4> QED
          BY <4>1
      <3>5. CASE 512 < size /\ size <= 1024
        <4>1. 5 \in Bucket /\ P(5)
          BY <1>1, <3>5
        <4> QED
          BY <4>1
      <3>6. CASE 1024 < size /\ size <= 2048
        <4>1. 6 \in Bucket /\ P(6)
          BY <1>1, <3>6
        <4> QED
          BY <4>1
      <3> QED
        BY <1>6, <3>1, <3>2, <3>3, <3>4, <3>5, <3>6
    <2>2. GetBucket(size) = CHOOSE b \in Bucket : P(b)
      BY <1>6 DEF GetBucket
    <2>3. GetBucket(size) \in Bucket /\ P(GetBucket(size))
      BY <2>1, <2>2
    <2> QED
      BY <1>1, <1>3, <1>4, <2>3
  <1> QED
    BY <1>5, <1>6

(* What is allocated for a frame is enough for it. *)
LEMMA NeedSuffices ==
  ASSUME NEW f \in Frame
  PROVE  /\ Need(f) \in Nat \ {0} /\ Need(f) >= FrameSize[f]
         /\ \/ GetBucket(FrameSize[f]) = Oversized /\ Need(f) = FrameSize[f]
            \/ /\ GetBucket(FrameSize[f]) # Oversized /\ GetBucket(FrameSize[f]) \in Bucket
               /\ Need(f) = GetBucketSize[GetBucket(FrameSize[f])]
  <1>1. FrameSize[f] \in Nat \ {0}
    BY PoolAssumption
  <1>2. /\ GetBucket(FrameSize[f]) = Oversized \/ GetBucket(FrameSize[f]) \in Bucket
        /\ GetBucket(FrameSize[f]) # Oversized => /\ GetBucket(FrameSize[f]) \in Bucket
              /\ FrameSize[f] <= GetBucketSize[GetBucket(FrameSize[f])]
        /\ \A b \in Bucket : GetBucketSize[b] \in Nat \ {0}
    BY <1>1, BucketOf
  <1> QED
    BY <1>1, <1>2 DEF Need

(* A place of a free list *)
LEMMA SlotType ==
  ASSUME PoolTypes, NEW s \in Slots
  PROVE  /\ s[1] \in Thread /\ s[2] \in Bucket /\ s[3] \in Nat \ {0}
         /\ s[3] \in DOMAIN buckets_[s[1]][s[2]] /\ Held(s) \in Block
         /\ s = <<s[1], s[2], s[3]>> /\ Held(s) # NoBlock
  <1>1. /\ s[1] \in Thread /\ s[2] \in Bucket /\ s[3] \in Nat \ {0}
        /\ s[3] \in DOMAIN buckets_[s[1]][s[2]] /\ s = <<s[1], s[2], s[3]>>
    BY PoolAssumption DEF Slots
  <1>2. buckets_[s[1]][s[2]] \in Seq(Block)
    BY <1>1 DEF PoolTypes
  <1>3. Held(s) \in Block
    BY <1>1, <1>2 DEF Held
  <1> QED
    BY <1>1, <1>3, PoolAssumption

(* ... is where the list has an element. *)
LEMMA SlotOf ==
  ASSUME PoolTypes, NEW t \in Thread, NEW b \in Bucket, NEW i
  PROVE  /\ <<t, b, i>> \in Slots <=> i \in DOMAIN buckets_[t][b]
         /\ Held(<<t, b, i>>) = buckets_[t][b][i]
  <1>1. buckets_[t][b] \in Seq(Block) /\ Len(buckets_[t][b]) <= kMaxPooledPerBucket
    BY DEF PoolTypes
  <1>2. \A j \in DOMAIN buckets_[t][b] : j \in 1 .. kMaxPooledPerBucket
    BY <1>1, PoolAssumption
  <1> QED
    BY <1>2 DEF Slots, Held

(* A place of a list has a size. *)
LEMMA SlotSize ==
  ASSUME PoolData, NEW s \in Slots
  PROVE  Held(s) \in Block /\ capacity[Held(s)] # 0
  <1>1. s[2] \in Bucket /\ Held(s) \in Block /\ capacity[Held(s)] = GetBucketSize[s[2]]
    BY SlotType DEF PoolData, PoolSizes
  <1>2. 1 \in Nat \ {0}
    OBVIOUS
  <1>3. GetBucketSize[s[2]] \in Nat \ {0}
    BY <1>1, <1>2, BucketOf
  <1> QED
    BY <1>1, <1>3

(* A block of the heap becomes the memory of f. *)
LEMMA NewBlock ==
  ASSUME PoolData, NEW f \in Frame, NEW m \in Block, memory[f] = NoBlock, capacity[m] = 0,
         UNCHANGED buckets_, capacity' = [capacity EXCEPT ![m] = Need(f)],
         memory' = [memory EXCEPT ![f] = m]
  PROVE  PoolData' /\ Allocated' = Allocated \union {m}
  <1>1. PoolTypes /\ Need(f) \in Nat \ {0} /\ m # NoBlock
    BY NeedSuffices, PoolAssumption DEF PoolData
  <1>2. PoolTypes'
    BY <1>1 DEF PoolTypes
  <1>3. /\ capacity'[m] = Need(f) /\ \A n \in Block : n # m => capacity'[n] = capacity[n]
        /\ memory'[f] = m /\ \A g \in Frame : g # f => memory'[g] = memory[g]
        /\ \A g \in Frame : memory[g] \in Block \union {NoBlock}
    BY <1>1 DEF PoolTypes
  <1>4. \A s : (s \in Slots' <=> s \in Slots) /\ Held(s)' = Held(s)
    BY DEF Slots, Held
  <1>5. \A s \in Slots : Held(s) \in Block /\ Held(s) # m
    BY SlotSize
  <1>6. \A g \in Frame : memory[g] # m
    <2> SUFFICES ASSUME NEW g \in Frame, memory[g] = m PROVE FALSE
      OBVIOUS
    <2>1. capacity[m] = Need(g)
      BY <1>1 DEF PoolData, PoolSizes
    <2> QED
      BY <2>1, NeedSuffices
  <1>7. \A g \in Frame : Need(g)' = Need(g)
    BY DEF Need
  <1>8. PoolSizes'
    <2>1. ASSUME NEW g \in Frame, memory'[g] # NoBlock
          PROVE  capacity'[memory'[g]] = Need(g)
      <3>1. CASE g = f
        BY <1>3, <3>1
      <3>2. CASE g # f
        BY <1>3, <1>6, <2>1, <3>2 DEF PoolData, PoolSizes
      <3> QED
        BY <3>1, <3>2
    <2>2. ASSUME NEW s \in Slots'
          PROVE  capacity'[Held(s)'] = GetBucketSize[s[2]]
      BY <1>3, <1>4, <1>5 DEF PoolData, PoolSizes
    <2> QED
      BY <1>7, <2>1, <2>2 DEF PoolSizes
  <1>9. PoolApart'
    <2>1. ASSUME NEW g \in Frame, NEW h \in Frame, memory'[g] = memory'[h], memory'[g] # NoBlock
          PROVE  g = h
      <3>1. CASE g # f /\ h # f
        BY <1>3, <2>1, <3>1 DEF PoolData, PoolApart
      <3>2. CASE g = f \/ h = f
        BY <1>3, <1>6, <2>1, <3>2
      <3> QED
        BY <3>1, <3>2
    <2>2. ASSUME NEW g \in Frame, NEW s \in Slots'
          PROVE  memory'[g] # Held(s)'
      BY <1>3, <1>4, <1>5 DEF PoolData, PoolApart
    <2>3. ASSUME NEW r \in Slots', NEW s \in Slots', Held(r)' = Held(s)'
          PROVE  r = s
      BY <1>4, <2>3 DEF PoolData, PoolApart
    <2> QED
      BY <2>1, <2>2, <2>3 DEF PoolApart
  <1>10. PoolUsed'
    <2> SUFFICES ASSUME NEW n \in Block, capacity'[n] # 0
                 PROVE  (\E g \in Frame : memory'[g] = n) \/ \E s \in Slots' : Held(s)' = n
      BY DEF PoolUsed
    <2>1. CASE n = m
      BY <1>3, <2>1
    <2>2. CASE n # m
      <3>1. (\E g \in Frame : memory[g] = n) \/ \E s \in Slots : Held(s) = n
        BY <1>3, <2>2 DEF PoolData, PoolUsed
      <3>2. n # NoBlock
        BY PoolAssumption
      <3> QED
        BY <1>3, <1>4, <3>1, <3>2
    <2> QED
      BY <2>1, <2>2
  <1>11. Allocated' = Allocated \union {m}
    BY <1>1, <1>3 DEF Allocated
  <1> QED
    BY <1>2, <1>8, <1>9, <1>10, <1>11 DEF PoolData

(* The memory of f goes back to the heap. *)
LEMMA DeleteBlock ==
  ASSUME PoolData, NEW f \in Frame, memory[f] # NoBlock, UNCHANGED buckets_,
         capacity' = [capacity EXCEPT ![memory[f]] = 0],
         memory' = [memory EXCEPT ![f] = NoBlock]
  PROVE  PoolData' /\ Allocated' \subseteq Allocated
  <1> PICK m : m = memory[f]
    OBVIOUS
  <1>1. PoolTypes /\ m \in Block
    BY DEF PoolData, PoolTypes
  <1>2. PoolTypes'
    BY <1>1 DEF PoolTypes
  <1>3. /\ capacity'[m] = 0 /\ \A n \in Block : n # m => capacity'[n] = capacity[n]
        /\ memory'[f] = NoBlock /\ \A g \in Frame : g # f => memory'[g] = memory[g]
        /\ \A g \in Frame : memory[g] \in Block \union {NoBlock}
    BY <1>1 DEF PoolTypes
  <1>4. \A s : (s \in Slots' <=> s \in Slots) /\ Held(s)' = Held(s)
    BY DEF Slots, Held
  <1>5. \A s \in Slots : Held(s) \in Block /\ Held(s) # m
    BY SlotSize DEF PoolData, PoolApart
  <1>6. \A g \in Frame : g # f => memory[g] # m
    BY DEF PoolData, PoolApart
  <1>7. \A g \in Frame : Need(g)' = Need(g)
    BY DEF Need
  <1>8. PoolSizes'
    <2>1. ASSUME NEW g \in Frame, memory'[g] # NoBlock
          PROVE  capacity'[memory'[g]] = Need(g)
      BY <1>3, <1>6, <2>1 DEF PoolData, PoolSizes
    <2>2. ASSUME NEW s \in Slots'
          PROVE  capacity'[Held(s)'] = GetBucketSize[s[2]]
      BY <1>3, <1>4, <1>5 DEF PoolData, PoolSizes
    <2> QED
      BY <1>7, <2>1, <2>2 DEF PoolSizes
  <1>9. PoolApart'
    <2>1. ASSUME NEW g \in Frame, NEW h \in Frame, memory'[g] = memory'[h], memory'[g] # NoBlock
          PROVE  g = h
      BY <1>3, <2>1 DEF PoolData, PoolApart
    <2>2. ASSUME NEW g \in Frame, NEW s \in Slots'
          PROVE  memory'[g] # Held(s)'
      <3>1. Held(s) # NoBlock
        BY <1>1, <1>4, SlotType
      <3> QED
        BY <1>3, <1>4, <3>1 DEF PoolData, PoolApart
    <2>3. ASSUME NEW r \in Slots', NEW s \in Slots', Held(r)' = Held(s)'
          PROVE  r = s
      BY <1>4, <2>3 DEF PoolData, PoolApart
    <2> QED
      BY <2>1, <2>2, <2>3 DEF PoolApart
  <1>10. PoolUsed'
    <2> SUFFICES ASSUME NEW n \in Block, capacity'[n] # 0
                 PROVE  (\E g \in Frame : memory'[g] = n) \/ \E s \in Slots' : Held(s)' = n
      BY DEF PoolUsed
    <2>1. n # m
      BY <1>3
    <2>2. (\E g \in Frame : memory[g] = n) \/ \E s \in Slots : Held(s) = n
      BY <1>3, <2>1 DEF PoolData, PoolUsed
    <2> QED
      BY <1>3, <1>4, <2>1, <2>2
  <1>11. Allocated' \subseteq Allocated
    BY <1>3 DEF Allocated
  <1> QED
    BY <1>2, <1>8, <1>9, <1>10, <1>11 DEF PoolData

(* The last block of a free list becomes the memory of f. *)
LEMMA TakePooled ==
  ASSUME PoolData, NEW t \in Thread, NEW b \in Bucket, NEW f \in Frame, memory[f] = NoBlock,
         Need(f) = GetBucketSize[b], NEW pool, pool = buckets_[t][b], pool # <<>>,
         memory' = [memory EXCEPT ![f] = pool[Len(pool)]],
         buckets_' = [buckets_ EXCEPT ![t][b] = SubSeq(pool, 1, Len(pool) - 1)],
         UNCHANGED capacity
  PROVE  PoolData'
  <1> PICK m : m = pool[Len(pool)]
    OBVIOUS
  <1> PICK last : last = <<t, b, Len(pool)>>
    OBVIOUS
  <1> PICK rest : rest = SubSeq(pool, 1, Len(pool) - 1)
    OBVIOUS
  <1>1. /\ PoolTypes /\ pool \in Seq(Block) /\ Len(pool) \in Nat \ {0}
        /\ Len(pool) \in DOMAIN pool /\ m \in Block
    BY DEF PoolData, PoolTypes
  <1>2. /\ rest \in Seq(Block) /\ Len(rest) = Len(pool) - 1
        /\ \A i : i \in DOMAIN rest <=> i \in DOMAIN pool /\ i # Len(pool)
        /\ \A i \in DOMAIN rest : rest[i] = pool[i]
    BY <1>1
  <1>3. /\ buckets_'[t][b] = rest
        /\ \A u \in Thread, c \in Bucket : u # t \/ c # b => buckets_'[u][c] = buckets_[u][c]
        /\ \A u \in Thread, c \in Bucket : buckets_[u][c] \in Seq(Block)
    BY <1>1 DEF PoolTypes
  <1>4. PoolTypes'
    <2>1. buckets_' \in [Thread -> [Bucket -> Seq(Block)]]
      BY <1>1, <1>2 DEF PoolTypes
    <2>2. Len(rest) <= kMaxPooledPerBucket
      BY <1>1, <1>2, PoolAssumption DEF PoolTypes
    <2>3. \A u \in Thread, c \in Bucket : Len(buckets_'[u][c]) <= kMaxPooledPerBucket
      BY <1>1, <1>3, <2>2 DEF PoolTypes
    <2> QED
      BY <1>1, <2>1, <2>3 DEF PoolTypes
  <1>5. last \in Slots /\ Held(last) = m
    BY <1>1, SlotOf
  <1>6. ASSUME NEW s \in Slots'
        PROVE  s \in Slots /\ s # last /\ Held(s)' = Held(s)
    <2>1. /\ s[1] \in Thread /\ s[2] \in Bucket /\ s = <<s[1], s[2], s[3]>>
          /\ s[3] \in DOMAIN buckets_'[s[1]][s[2]] /\ s \in Thread \X Bucket \X (1 .. kMaxPooledPerBucket)
      BY DEF Slots
    <2>2. /\ s[3] \in DOMAIN buckets_[s[1]][s[2]]
          /\ buckets_'[s[1]][s[2]][s[3]] = buckets_[s[1]][s[2]][s[3]]
          /\ ~(s[1] = t /\ s[2] = b /\ s[3] = Len(pool))
      <3>1. CASE s[1] = t /\ s[2] = b
        BY <1>2, <1>3, <2>1, <3>1
      <3>2. CASE s[1] # t \/ s[2] # b
        BY <1>3, <2>1, <3>2
      <3> QED
        BY <3>1, <3>2
    <2>3. s # last
      BY <2>2
    <2> QED
      BY <2>1, <2>2, <2>3 DEF Slots, Held
  <1>7. ASSUME NEW s \in Slots, s # last
        PROVE  s \in Slots' /\ Held(s)' = Held(s)
    <2>1. /\ s[1] \in Thread /\ s[2] \in Bucket /\ s = <<s[1], s[2], s[3]>>
          /\ s[3] \in DOMAIN buckets_[s[1]][s[2]] /\ s \in Thread \X Bucket \X (1 .. kMaxPooledPerBucket)
      BY DEF Slots
    <2>2. s[3] \in DOMAIN buckets_'[s[1]][s[2]]
          /\ buckets_'[s[1]][s[2]][s[3]] = buckets_[s[1]][s[2]][s[3]]
      <3>1. CASE s[1] = t /\ s[2] = b
        <4>1. s[3] # Len(pool)
          BY <1>7, <2>1, <3>1
        <4> QED
          BY <1>2, <1>3, <2>1, <3>1, <4>1
      <3>2. CASE s[1] # t \/ s[2] # b
        BY <1>3, <2>1, <3>2
      <3> QED
        BY <3>1, <3>2
    <2> QED
      BY <2>1, <2>2 DEF Slots, Held
  <1>8. /\ memory'[f] = m /\ \A g \in Frame : g # f => memory'[g] = memory[g]
        /\ \A g \in Frame : memory[g] # m
    BY <1>1, <1>5 DEF PoolTypes, PoolData, PoolApart
  <1>9. capacity[m] = Need(f) /\ m # NoBlock
    <2>1. capacity[Held(last)] = GetBucketSize[last[2]] /\ last[2] = b
      BY <1>5 DEF PoolData, PoolSizes
    <2> QED
      BY <1>1, <1>5, <2>1, PoolAssumption
  <1>10. PoolSizes'
    <2>1. ASSUME NEW g \in Frame, memory'[g] # NoBlock
          PROVE  capacity'[memory'[g]] = Need(g)
      BY <1>8, <1>9, <2>1 DEF PoolData, PoolSizes
    <2>2. ASSUME NEW s \in Slots'
          PROVE  capacity'[Held(s)'] = GetBucketSize[s[2]]
      BY <1>6 DEF PoolData, PoolSizes
    <2>3. \A g \in Frame : Need(g)' = Need(g)
      BY DEF Need
    <2> QED
      BY <2>1, <2>2, <2>3 DEF PoolSizes
  <1>11. PoolApart'
    <2>1. ASSUME NEW g \in Frame, NEW h \in Frame, memory'[g] = memory'[h], memory'[g] # NoBlock
          PROVE  g = h
      BY <1>8, <2>1 DEF PoolData, PoolApart
    <2>2. ASSUME NEW g \in Frame, NEW s \in Slots'
          PROVE  memory'[g] # Held(s)'
      <3>1. s \in Slots /\ s # last /\ Held(s)' = Held(s)
        BY <1>6
      <3>2. Held(s) # m
        BY <1>5, <3>1 DEF PoolData, PoolApart
      <3> QED
        BY <1>8, <3>1, <3>2 DEF PoolData, PoolApart
    <2>3. ASSUME NEW r \in Slots', NEW s \in Slots', Held(r)' = Held(s)'
          PROVE  r = s
      BY <1>6, <2>3 DEF PoolData, PoolApart
    <2> QED
      BY <2>1, <2>2, <2>3 DEF PoolApart
  <1>12. PoolUsed'
    <2> SUFFICES ASSUME NEW n \in Block, capacity'[n] # 0
                 PROVE  (\E g \in Frame : memory'[g] = n) \/ \E s \in Slots' : Held(s)' = n
      BY DEF PoolUsed
    <2>1. CASE n = m
      BY <1>8, <2>1
    <2>2. CASE n # m
      <3>1. n # NoBlock
        BY PoolAssumption
      <3>2. (\E g \in Frame : memory[g] = n) \/ \E s \in Slots : Held(s) = n
        BY DEF PoolData, PoolUsed
      <3>3. ASSUME NEW s \in Slots, Held(s) = n PROVE \E r \in Slots' : Held(r)' = n
        BY <1>5, <1>7, <2>2, <3>3
      <3>4. ASSUME NEW g \in Frame, memory[g] = n PROVE memory'[g] = n
        BY <1>8, <3>1, <3>4
      <3> QED
        BY <3>2, <3>3, <3>4
    <2> QED
      BY <2>1, <2>2
  <1> QED
    BY <1>4, <1>10, <1>11, <1>12 DEF PoolData

(* The memory of f goes to the end of a free list that has room. *)
LEMMA GiveBack ==
  ASSUME PoolData, NEW t \in Thread, NEW b \in Bucket, NEW f \in Frame, memory[f] # NoBlock,
         Need(f) = GetBucketSize[b], NEW pool, pool = buckets_[t][b],
         Len(pool) < kMaxPooledPerBucket,
         buckets_' = [buckets_ EXCEPT ![t][b] = Append(pool, memory[f])],
         memory' = [memory EXCEPT ![f] = NoBlock],
         UNCHANGED capacity
  PROVE  PoolData'
  <1> PICK m : m = memory[f]
    OBVIOUS
  <1> PICK new : new = <<t, b, Len(pool) + 1>>
    OBVIOUS
  <1> PICK more : more = Append(pool, m)
    OBVIOUS
  <1>1. /\ PoolTypes /\ pool \in Seq(Block) /\ Len(pool) \in Nat /\ m \in Block
        /\ kMaxPooledPerBucket \in Nat
    BY PoolAssumption DEF PoolData, PoolTypes
  <1>2. /\ more \in Seq(Block) /\ Len(more) = Len(pool) + 1
        /\ \A i : i \in DOMAIN more <=> i \in DOMAIN pool \/ i = Len(pool) + 1
        /\ \A i \in DOMAIN pool : more[i] = pool[i]
        /\ more[Len(pool) + 1] = m /\ Len(pool) + 1 \notin DOMAIN pool
    BY <1>1
  <1>3. /\ buckets_'[t][b] = more
        /\ \A u \in Thread, c \in Bucket : u # t \/ c # b => buckets_'[u][c] = buckets_[u][c]
    BY <1>1 DEF PoolTypes
  <1>4. PoolTypes'
    <2>1. buckets_' \in [Thread -> [Bucket -> Seq(Block)]]
      BY <1>1, <1>2 DEF PoolTypes
    <2>2. Len(more) <= kMaxPooledPerBucket
      BY <1>1, <1>2
    <2>3. \A u \in Thread, c \in Bucket : Len(buckets_'[u][c]) <= kMaxPooledPerBucket
      BY <1>1, <1>3, <2>2 DEF PoolTypes
    <2> QED
      BY <1>1, <2>1, <2>3 DEF PoolTypes
  <1>5. new \in Slots' /\ Held(new)' = m /\ new \notin Slots
    <2>1. Len(pool) + 1 \in 1 .. kMaxPooledPerBucket
      BY <1>1
    <2> QED
      BY <1>2, <1>3, <2>1 DEF Slots, Held
  <1>6. ASSUME NEW s \in Slots', s # new
        PROVE  s \in Slots /\ Held(s)' = Held(s)
    <2>1. /\ s[1] \in Thread /\ s[2] \in Bucket /\ s = <<s[1], s[2], s[3]>>
          /\ s[3] \in DOMAIN buckets_'[s[1]][s[2]]
          /\ s \in Thread \X Bucket \X (1 .. kMaxPooledPerBucket)
      BY DEF Slots
    <2>2. /\ s[3] \in DOMAIN buckets_[s[1]][s[2]]
          /\ buckets_'[s[1]][s[2]][s[3]] = buckets_[s[1]][s[2]][s[3]]
      <3>1. CASE s[1] = t /\ s[2] = b
        <4>1. s[3] # Len(pool) + 1
          BY <1>6, <2>1, <3>1
        <4> QED
          BY <1>2, <1>3, <2>1, <3>1, <4>1
      <3>2. CASE s[1] # t \/ s[2] # b
        BY <1>3, <2>1, <3>2
      <3> QED
        BY <3>1, <3>2
    <2> QED
      BY <2>1, <2>2 DEF Slots, Held
  <1>7. ASSUME NEW s \in Slots
        PROVE  s \in Slots' /\ Held(s)' = Held(s) /\ s # new
    <2>1. /\ s[1] \in Thread /\ s[2] \in Bucket /\ s = <<s[1], s[2], s[3]>>
          /\ s[3] \in DOMAIN buckets_[s[1]][s[2]]
          /\ s \in Thread \X Bucket \X (1 .. kMaxPooledPerBucket)
      BY DEF Slots
    <2>2. /\ s[3] \in DOMAIN buckets_'[s[1]][s[2]]
          /\ buckets_'[s[1]][s[2]][s[3]] = buckets_[s[1]][s[2]][s[3]]
      <3>1. CASE s[1] = t /\ s[2] = b
        BY <1>2, <1>3, <2>1, <3>1
      <3>2. CASE s[1] # t \/ s[2] # b
        BY <1>3, <2>1, <3>2
      <3> QED
        BY <3>1, <3>2
    <2> QED
      BY <1>5, <2>1, <2>2 DEF Slots, Held
  <1>8. /\ memory'[f] = NoBlock /\ \A g \in Frame : g # f => memory'[g] = memory[g] /\ memory[g] # m
        /\ m # NoBlock
    BY <1>1 DEF PoolTypes, PoolData, PoolApart
  <1>9. capacity[m] = GetBucketSize[new[2]] /\ \A s \in Slots : Held(s) # m /\ Held(s) # NoBlock
    <2>1. new[2] = b /\ capacity[m] = Need(f)
      BY DEF PoolData, PoolSizes
    <2>2. \A s \in Slots : Held(s) # m /\ Held(s) # NoBlock
      BY <1>1, SlotType DEF PoolData, PoolApart
    <2> QED
      BY <2>1, <2>2
  <1>10. PoolSizes'
    <2>1. ASSUME NEW g \in Frame, memory'[g] # NoBlock
          PROVE  capacity'[memory'[g]] = Need(g)
      BY <1>8, <2>1 DEF PoolData, PoolSizes
    <2>2. ASSUME NEW s \in Slots'
          PROVE  capacity'[Held(s)'] = GetBucketSize[s[2]]
      <3>1. CASE s = new
        BY <1>5, <1>9, <3>1
      <3>2. CASE s # new
        BY <1>6, <3>2 DEF PoolData, PoolSizes
      <3> QED
        BY <3>1, <3>2
    <2>3. \A g \in Frame : Need(g)' = Need(g)
      BY DEF Need
    <2> QED
      BY <2>1, <2>2, <2>3 DEF PoolSizes
  <1>11. PoolApart'
    <2>1. ASSUME NEW g \in Frame, NEW h \in Frame, memory'[g] = memory'[h], memory'[g] # NoBlock
          PROVE  g = h
      BY <1>8, <2>1 DEF PoolData, PoolApart
    <2>2. ASSUME NEW g \in Frame, NEW s \in Slots'
          PROVE  memory'[g] # Held(s)'
      <3>1. CASE s = new
        BY <1>5, <1>8, <3>1
      <3>2. CASE s # new
        BY <1>6, <1>8, <1>9, <3>2 DEF PoolData, PoolApart
      <3> QED
        BY <3>1, <3>2
    <2>3. ASSUME NEW r \in Slots', NEW s \in Slots', Held(r)' = Held(s)'
          PROVE  r = s
      <3>1. CASE r # new /\ s # new
        BY <1>6, <2>3, <3>1 DEF PoolData, PoolApart
      <3>2. CASE r = new /\ s # new
        BY <1>5, <1>6, <1>9, <2>3, <3>2
      <3>3. CASE r # new /\ s = new
        BY <1>5, <1>6, <1>9, <2>3, <3>3
      <3> QED
        BY <3>1, <3>2, <3>3
    <2> QED
      BY <2>1, <2>2, <2>3 DEF PoolApart
  <1>12. PoolUsed'
    <2> SUFFICES ASSUME NEW n \in Block, capacity'[n] # 0
                 PROVE  (\E g \in Frame : memory'[g] = n) \/ \E s \in Slots' : Held(s)' = n
      BY DEF PoolUsed
    <2>1. CASE n = m
      BY <1>5, <2>1
    <2>2. CASE n # m
      <3>1. (\E g \in Frame : memory[g] = n) \/ \E s \in Slots : Held(s) = n
        BY DEF PoolData, PoolUsed
      <3> QED
        BY <1>7, <1>8, <2>2, <3>1
    <2> QED
      BY <2>1, <2>2
  <1> QED
    BY <1>4, <1>10, <1>11, <1>12 DEF PoolData

(* Clear() gives the blocks of a thread's free lists to the heap. *)
LEMMA ClearBlocks ==
  ASSUME PoolData, NEW t \in Thread, DoClear(t)
  PROVE  PoolData' /\ Allocated' \subseteq Allocated
  <1>1. PoolTypes
    BY DEF PoolData
  <1>2. \A m : m \in Pooled(t) <=> \E s \in Slots : s[1] = t /\ Held(s) = m
    <2>1. ASSUME NEW s \in Slots, s[1] = t PROVE Held(s) \in Pooled(t)
      <3>1. s[2] \in Bucket /\ s[3] \in DOMAIN buckets_[t][s[2]]
        BY <1>1, <2>1, SlotType
      <3>2. <<s[2], s[3]>> \in UNION {{b} \X DOMAIN buckets_[t][b] : b \in Bucket}
        BY <3>1
      <3>3. Held(s) = buckets_[t][<<s[2], s[3]>>[1]][<<s[2], s[3]>>[2]]
        BY <2>1 DEF Held
      <3> QED
        BY <3>2, <3>3 DEF Pooled
    <2>2. ASSUME NEW m \in Pooled(t) PROVE \E s \in Slots : s[1] = t /\ Held(s) = m
      <3> PICK p \in UNION {{b} \X DOMAIN buckets_[t][b] : b \in Bucket} :
                 m = buckets_[t][p[1]][p[2]]
        BY <2>2 DEF Pooled
      <3>1. p[1] \in Bucket /\ p[2] \in DOMAIN buckets_[t][p[1]]
        OBVIOUS
      <3>2. <<t, p[1], p[2]>> \in Slots /\ Held(<<t, p[1], p[2]>>) = m
        BY <1>1, <3>1, SlotOf
      <3> QED
        BY <3>2
    <2> QED
      BY <2>1, <2>2
  <1>3. /\ capacity' = [m \in Block |-> IF m \in Pooled(t) THEN 0 ELSE capacity[m]]
        /\ buckets_' = [buckets_ EXCEPT ![t] = [b \in Bucket |-> <<>>]]
        /\ UNCHANGED memory
    BY DEF DoClear
  <1>4. PoolTypes'
    <2>1. <<>> \in Seq(Block) /\ Len(<<>>) = 0
      OBVIOUS
    <2>2. [b \in Bucket |-> <<>>] \in [Bucket -> Seq(Block)]
      BY <2>1
    <2>3. buckets_' \in [Thread -> [Bucket -> Seq(Block)]]
      BY <1>1, <1>3, <2>2 DEF PoolTypes
    <2>4. /\ \A b \in Bucket : buckets_'[t][b] = <<>>
          /\ \A u \in Thread : u # t => buckets_'[u] = buckets_[u]
      BY <1>1, <1>3 DEF PoolTypes
    <2>5. \A u \in Thread, b \in Bucket : Len(buckets_'[u][b]) <= kMaxPooledPerBucket
      <3>1. ASSUME NEW b \in Bucket PROVE Len(buckets_'[t][b]) <= kMaxPooledPerBucket
        <4>1. Len(buckets_'[t][b]) = 0
          BY <2>1, <2>4
        <4> QED
          BY <4>1, PoolAssumption
      <3>2. ASSUME NEW u \in Thread, NEW b \in Bucket, u # t
            PROVE  Len(buckets_'[u][b]) <= kMaxPooledPerBucket
        BY <1>1, <2>4, <3>2 DEF PoolTypes
      <3> QED
        BY <3>1, <3>2
    <2>6. capacity' \in [Block -> Nat]
      BY <1>1, <1>3 DEF PoolTypes
    <2> QED
      BY <1>1, <1>3, <2>3, <2>5, <2>6 DEF PoolTypes
  <1>5. \A s : s \in Slots' <=> s \in Slots /\ s[1] # t
    <2>1. /\ \A b \in Bucket : buckets_'[t][b] = <<>>
          /\ \A u \in Thread : u # t => buckets_'[u] = buckets_[u]
      BY <1>1, <1>3 DEF PoolTypes
    <2>2. DOMAIN <<>> = {}
      OBVIOUS
    <2> QED
      BY <2>1, <2>2 DEF Slots
  <1>6. \A s \in Slots' : Held(s)' = Held(s) /\ Held(s) \notin Pooled(t) /\ Held(s) \in Block
    <2> SUFFICES ASSUME NEW s \in Slots'
                 PROVE  Held(s)' = Held(s) /\ Held(s) \notin Pooled(t) /\ Held(s) \in Block
      OBVIOUS
    <2>1. s \in Slots /\ s[1] # t /\ s[1] \in Thread /\ Held(s) \in Block
      BY <1>1, <1>5, SlotType
    <2>2. Held(s)' = Held(s)
      BY <1>1, <1>3, <2>1 DEF Held, PoolTypes
    <2>3. Held(s) \notin Pooled(t)
      BY <1>2, <2>1 DEF PoolData, PoolApart
    <2> QED
      BY <2>1, <2>2, <2>3
  <1>7. \A f \in Frame : memory[f] \notin Pooled(t) /\ memory[f] \in Block \union {NoBlock}
    BY <1>1, <1>2 DEF PoolData, PoolApart, PoolTypes
  <1>8. \A m \in Block : capacity'[m] = IF m \in Pooled(t) THEN 0 ELSE capacity[m]
    BY <1>3
  <1>9. PoolSizes'
    <2>1. \A f \in Frame : memory'[f] # NoBlock => capacity'[memory'[f]] = Need(f)
      BY <1>3, <1>7, <1>8 DEF PoolData, PoolSizes
    <2>2. \A s \in Slots' : capacity'[Held(s)'] = GetBucketSize[s[2]]
      BY <1>5, <1>6, <1>8 DEF PoolData, PoolSizes
    <2>3. \A g \in Frame : Need(g)' = Need(g)
      BY DEF Need
    <2> QED
      BY <2>1, <2>2, <2>3 DEF PoolSizes
  <1>10. PoolApart'
    <2>1. \A f, g \in Frame : memory'[f] = memory'[g] /\ memory'[f] # NoBlock => f = g
      BY <1>3 DEF PoolData, PoolApart
    <2>2. \A f \in Frame, s \in Slots' : memory'[f] # Held(s)'
      BY <1>3, <1>5, <1>6 DEF PoolData, PoolApart
    <2>3. \A r, s \in Slots' : Held(r)' = Held(s)' => r = s
      BY <1>5, <1>6 DEF PoolData, PoolApart
    <2> QED
      BY <2>1, <2>2, <2>3 DEF PoolApart
  <1>11. PoolUsed'
    <2> SUFFICES ASSUME NEW n \in Block, capacity'[n] # 0
                 PROVE  (\E g \in Frame : memory'[g] = n) \/ \E s \in Slots' : Held(s)' = n
      BY DEF PoolUsed
    <2>1. n \notin Pooled(t) /\ capacity[n] # 0
      BY <1>8
    <2>2. (\E g \in Frame : memory[g] = n) \/ \E s \in Slots : Held(s) = n
      BY <2>1 DEF PoolData, PoolUsed
    <2>3. ASSUME NEW s \in Slots, Held(s) = n PROVE s \in Slots' /\ Held(s)' = n
      BY <1>2, <1>5, <1>6, <2>1, <2>3
    <2> QED
      BY <1>3, <2>2, <2>3
  <1>12. Allocated' \subseteq Allocated
    BY <1>8 DEF Allocated
  <1> QED
    BY <1>4, <1>9, <1>10, <1>11, <1>12 DEF PoolData

(* As long as a coroutine is to be created, there is memory for it. *)
LEMMA HeapSuffices ==
  ASSUME PoolInv, NEW f \in Frame, frame[f] = "none"
  PROVE  \E m \in Block : capacity[m] = 0
  <1> SUFFICES ASSUME \A m \in Block : capacity[m] # 0 PROVE FALSE
    OBVIOUS
  <1>1. Allocated = Block
    BY DEF Allocated
  <1>2. IsFiniteSet(Frame) /\ IsFiniteSet(Block) /\ Cardinality(Block) >= Cardinality(Frame)
    BY PoolAssumption
  <1>3. Created \in SUBSET Frame /\ Created # Frame
    BY DEF Created
  <1>4. /\ IsFiniteSet(Created) /\ Cardinality(Created) <= Cardinality(Frame)
        /\ Cardinality(Frame) # Cardinality(Created)
    BY <1>2, <1>3, FS_Subset
  <1>5. /\ Cardinality(Created) \in Nat /\ Cardinality(Frame) \in Nat
        /\ Cardinality(Block) \in Nat
    BY <1>2, <1>4, FS_CardinalityType
  <1>6. Cardinality(Block) <= Cardinality(Created)
    BY <1>1 DEF PoolInv
  <1> QED
    BY <1>2, <1>4, <1>5, <1>6

(* DoAllocate(), from the pool or the heap *)
LEMMA AllocateData ==
  ASSUME PoolInv, NEW t \in Thread, NEW f \in Frame, frame[f] = "none", DoAllocate(t, f)
  PROVE  /\ PoolData'
         /\ \A g \in Frame : memory'[g] # NoBlock <=> memory[g] # NoBlock \/ g = f
         /\ \E m : Allocated' \subseteq Allocated \union {m}
  <1> PICK b : b = GetBucket(FrameSize[f])
    OBVIOUS
  <1> PICK pool : pool = buckets_[t][b]
    OBVIOUS
  <1> PICK m : m = CHOOSE x \in Block : capacity[x] = 0
    OBVIOUS
  <1>1. /\ PoolData /\ PoolTypes /\ memory[f] = NoBlock /\ m \in Block /\ capacity[m] = 0
        /\ NoBlock \notin Block
    BY HeapSuffices, PoolAssumption DEF PoolInv, PoolData, Live
  <1>2. CASE b = Oversized /\ OperatorNew(f, FrameSize[f]) /\ UNCHANGED buckets_
    <2>1. Need(f) = FrameSize[f]
      BY <1>2, NeedSuffices
    <2>2. capacity' = [capacity EXCEPT ![m] = Need(f)] /\ memory' = [memory EXCEPT ![f] = m]
      BY <1>2, <2>1 DEF OperatorNew
    <2>3. PoolData' /\ Allocated' = Allocated \union {m}
      BY <1>1, <1>2, <2>2, NewBlock
    <2> QED
      BY <1>1, <2>2, <2>3 DEF PoolTypes
  <1>3. CASE /\ b # Oversized /\ pool # <<>>
             /\ memory' = [memory EXCEPT ![f] = pool[Len(pool)]]
             /\ buckets_' = [buckets_ EXCEPT ![t][b] = SubSeq(pool, 1, Len(pool) - 1)]
             /\ UNCHANGED capacity
    <2>1. Need(f) = GetBucketSize[b] /\ b \in Bucket
      BY <1>3, NeedSuffices
    <2>2. PoolData'
      BY <1>1, <1>3, <2>1, TakePooled
    <2>3. pool \in Seq(Block)
      BY <1>1, <2>1 DEF PoolTypes
    <2>4. pool[Len(pool)] \in Block
      BY <1>3, <2>3
    <2>5. Allocated' = Allocated
      BY <1>3 DEF Allocated
    <2> QED
      BY <1>1, <1>3, <2>2, <2>4, <2>5 DEF PoolTypes
  <1>4. CASE /\ b # Oversized /\ pool = <<>>
             /\ OperatorNew(f, GetBucketSize[b]) /\ UNCHANGED buckets_
    <2>1. Need(f) = GetBucketSize[b]
      BY <1>4, NeedSuffices
    <2>2. capacity' = [capacity EXCEPT ![m] = Need(f)] /\ memory' = [memory EXCEPT ![f] = m]
      BY <1>4, <2>1 DEF OperatorNew
    <2>3. PoolData' /\ Allocated' = Allocated \union {m}
      BY <1>1, <1>4, <2>2, NewBlock
    <2> QED
      BY <1>1, <2>2, <2>3 DEF PoolTypes
  <1> QED
    BY <1>2, <1>3, <1>4 DEF DoAllocate

(* DoDeallocate(), to the pool or the heap *)
LEMMA DeallocateData ==
  ASSUME PoolInv, NEW t \in Thread, NEW f \in Frame, Live(f), DoDeallocate(t, f)
  PROVE  /\ PoolData'
         /\ \A g \in Frame : memory'[g] # NoBlock <=> memory[g] # NoBlock /\ g # f
         /\ Allocated' \subseteq Allocated
  <1> PICK b : b = GetBucket(FrameSize[f])
    OBVIOUS
  <1> PICK pool : pool = buckets_[t][b]
    OBVIOUS
  <1>1. PoolData /\ PoolTypes /\ memory[f] # NoBlock
    BY DEF PoolInv, PoolData
  <1>2. CASE OperatorDelete(f) /\ UNCHANGED buckets_
    <2>1. PoolData' /\ Allocated' \subseteq Allocated
      BY <1>1, <1>2, DeleteBlock DEF OperatorDelete
    <2> QED
      BY <1>1, <1>2, <2>1 DEF OperatorDelete, PoolTypes
  <1>3. CASE /\ b # Oversized /\ Len(pool) < kMaxPooledPerBucket
             /\ buckets_' = [buckets_ EXCEPT ![t][b] = Append(pool, memory[f])]
             /\ memory' = [memory EXCEPT ![f] = NoBlock]
             /\ UNCHANGED capacity
    <2>1. Need(f) = GetBucketSize[b] /\ b \in Bucket
      BY <1>3, NeedSuffices
    <2>2. PoolData'
      BY <1>1, <1>3, <2>1, GiveBack
    <2>3. Allocated' = Allocated
      BY <1>3 DEF Allocated
    <2> QED
      BY <1>1, <1>3, <2>2, <2>3 DEF PoolTypes
  <1> QED
    BY <1>2, <1>3 DEF DoDeallocate

(* A frame is created. *)
LEMMA CreatePool ==
  ASSUME PoolInv, NEW t \in Thread, NEW f \in Frame, Create(t, f), Live(f)',
         \A g \in Frame : g # f => (Live(g)' <=> Live(g)),
         \A g \in Frame : frame[g] # "none" => frame'[g] # "none"
  PROVE  PoolInv'
  <1>1. frame[f] = "none" /\ DoAllocate(t, f)
    BY DEF Create
  <1>2. /\ PoolData'
        /\ \A g \in Frame : memory'[g] # NoBlock <=> memory[g] # NoBlock \/ g = f
        /\ \E m : Allocated' \subseteq Allocated \union {m}
    BY <1>1, AllocateData
  <1> PICK m : Allocated' \subseteq Allocated \union {m}
    BY <1>2
  <1>3. \A g \in Frame : memory'[g] # NoBlock <=> Live(g)'
    BY <1>2 DEF PoolInv
  <1>4. IsFiniteSet(Allocated) /\ IsFiniteSet(Created) /\ IsFiniteSet(Created')
    <2>1. IsFiniteSet(Block) /\ IsFiniteSet(Frame)
      BY PoolAssumption
    <2>2. Allocated \in SUBSET Block /\ Created \in SUBSET Frame /\ Created' \in SUBSET Frame
      BY DEF Allocated, Created
    <2> QED
      BY <2>1, <2>2, FS_Subset
  <1>5. /\ IsFiniteSet(Allocated \union {m})
        /\ Cardinality(Allocated \union {m}) <= Cardinality(Allocated) + 1
        /\ Cardinality(Allocated) \in Nat
    <2>1. Cardinality(Allocated) \in Nat
      BY <1>4, FS_CardinalityType
    <2>2. /\ IsFiniteSet(Allocated \union {m})
          /\ Cardinality(Allocated \union {m}) =
               IF m \in Allocated THEN Cardinality(Allocated) ELSE Cardinality(Allocated) + 1
      BY <1>4, FS_AddElement
    <2> QED
      BY <2>1, <2>2
  <1>6. /\ IsFiniteSet(Allocated') /\ Cardinality(Allocated') <= Cardinality(Allocated \union {m})
    BY <1>5, FS_Subset
  <1>7. f \notin Created /\ Created \union {f} \in SUBSET Created'
    BY <1>1 DEF Created, Live
  <1>8. Cardinality(Created \union {f}) = Cardinality(Created) + 1
    BY <1>4, <1>7, FS_AddElement
  <1>9. Cardinality(Created \union {f}) <= Cardinality(Created')
    BY <1>4, <1>7, FS_Subset
  <1>10. /\ Cardinality(Created) \in Nat /\ Cardinality(Created') \in Nat
         /\ Cardinality(Allocated') \in Nat /\ Cardinality(Allocated \union {m}) \in Nat
    BY <1>4, <1>5, <1>6, FS_CardinalityType
  <1>11. Cardinality(Allocated') <= Cardinality(Created')
    BY <1>5, <1>6, <1>8, <1>9, <1>10 DEF PoolInv
  <1> QED
    BY <1>2, <1>3, <1>11 DEF PoolInv

(* Fewer blocks are allocated, and no fewer coroutines were created. *)
LEMMA FewerBlocks ==
  ASSUME PoolInv, Allocated' \subseteq Allocated,
         \A g \in Frame : frame[g] # "none" => frame'[g] # "none"
  PROVE  Cardinality(Allocated') <= Cardinality(Created')
  <1>1. IsFiniteSet(Block) /\ IsFiniteSet(Frame)
    BY PoolAssumption
  <1>2. /\ Allocated \in SUBSET Block /\ Created' \in SUBSET Frame /\ Created \in SUBSET Created'
        /\ Allocated' \in SUBSET Allocated
    BY DEF Allocated, Created
  <1>3. IsFiniteSet(Allocated) /\ IsFiniteSet(Created')
    BY <1>1, <1>2, FS_Subset
  <1>4. /\ IsFiniteSet(Allocated') /\ Cardinality(Allocated') <= Cardinality(Allocated)
        /\ IsFiniteSet(Created) /\ Cardinality(Created) <= Cardinality(Created')
    BY <1>2, <1>3, FS_Subset
  <1>5. /\ Cardinality(Created) \in Nat /\ Cardinality(Created') \in Nat
        /\ Cardinality(Allocated') \in Nat /\ Cardinality(Allocated) \in Nat
    BY <1>3, <1>4, FS_CardinalityType
  <1> QED
    BY <1>4, <1>5 DEF PoolInv

(* A frame is destroyed. *)
LEMMA DestroyPool ==
  ASSUME PoolInv, NEW t \in Thread, NEW f \in Frame, Live(f), DoDeallocate(t, f), ~Live(f)',
         \A g \in Frame : g # f => (Live(g)' <=> Live(g)),
         \A g \in Frame : frame[g] # "none" => frame'[g] # "none"
  PROVE  PoolInv'
  <1>1. /\ PoolData' /\ Allocated' \subseteq Allocated
        /\ \A g \in Frame : memory'[g] # NoBlock <=> memory[g] # NoBlock /\ g # f
    BY DeallocateData
  <1>2. \A g \in Frame : memory'[g] # NoBlock <=> Live(g)'
    BY <1>1 DEF PoolInv
  <1> QED
    BY <1>1, <1>2, FewerBlocks DEF PoolInv

(* The free lists of a thread are cleared. *)
LEMMA ClearPoolPool ==
  ASSUME PoolInv, NEW t \in Thread, DoClear(t), UNCHANGED frame
  PROVE  PoolInv'
  <1>1. PoolData' /\ Allocated' \subseteq Allocated
    BY ClearBlocks DEF PoolInv
  <1>2. Cardinality(Allocated') <= Cardinality(Created')
    BY <1>1, FewerBlocks
  <1>3. \A f \in Frame : memory'[f] # NoBlock <=> Live(f)'
    BY DEF PoolInv, Live, DoClear
  <1> QED
    BY <1>1, <1>2, <1>3 DEF PoolInv

(* No frame is created or destroyed. *)
LEMMA SamePool ==
  ASSUME PoolInv, UNCHANGED poolVars, \A f \in Frame : Live(f)' <=> Live(f),
         \A g \in Frame : frame[g] # "none" => frame'[g] # "none"
  PROVE  PoolInv'
  <1> USE DEF poolVars
  <1>1. Allocated' = Allocated
    BY DEF Allocated
  <1>2. \A s : (s \in Slots' <=> s \in Slots) /\ Held(s)' = Held(s)
    BY DEF Slots, Held
  <1>3. \A f \in Frame : Need(f)' = Need(f)
    BY DEF Need
  <1>4. PoolTypes'
    BY DEF PoolTypes, PoolInv, PoolData
  <1>5. PoolSizes' /\ PoolApart' /\ PoolUsed'
    BY <1>2, <1>3 DEF PoolSizes, PoolApart, PoolUsed, PoolInv, PoolData
  <1>6. \A f \in Frame : memory'[f] # NoBlock <=> Live(f)'
    BY DEF PoolInv
  <1> QED
    BY <1>1, <1>4, <1>5, <1>6, FewerBlocks DEF PoolInv, PoolData

(* A step of a Task creates or destroys one frame at most, and a live one. *)
LEMMA TaskStepPool ==
  ASSUME ControlInv, PoolInv, StackInv, NEW t \in Thread, TaskStep(t) \/ HostEnds(t)
  PROVE  PoolInv'
  <1> USE Frames DEF ControlInv, FrameTypes, HostInv, CallerInv, LeafInv,
             ScheduledInv, host_frame, other_frame, promiseVars, execVars, Live
  <1>1. CASE AwaitChild(t)
    <2>1. \A g \in Frame : Live(g)' <=> Live(g)
      BY <1>1 DEF AwaitChild, Await, Running
    <2>2. (\A g \in Frame : frame[g] # "none" => frame'[g] # "none") /\ UNCHANGED poolVars
      BY <1>1 DEF AwaitChild, Await, Running
    <2> QED
      BY <2>1, <2>2, SamePool
  <1>2. CASE AwaitLeaf(t)
    <2>1. \A g \in Frame : g # Leaf => (Live(g)' <=> Live(g))
      BY <1>2 DEF Create, AwaitLeaf, Await, Running
    <2>2. \A g \in Frame : frame[g] # "none" => frame'[g] # "none"
      BY <1>2 DEF Create, AwaitLeaf, Await, Running
    <2>3. Live(Leaf)' /\ Create(t, Leaf)
      BY <1>2 DEF AwaitLeaf, Await, Running
    <2> QED
      BY <2>1, <2>2, <2>3, CreatePool
  <1>3. CASE RunScheduled(t)
    <2>1. \A g \in Frame : Live(g)' <=> Live(g)
      BY <1>3 DEF RunScheduled, At
    <2>2. (\A g \in Frame : frame[g] # "none" => frame'[g] # "none") /\ UNCHANGED poolVars
      BY <1>3, ZenonT(40) DEF RunScheduled, At
    <2> QED
      BY <2>1, <2>2, SamePool
  <1>4. CASE ChildResumed(t)
    <2>1. CASE has_op_
      <3>1. \A g \in Frame : Live(g)' <=> Live(g)
        BY <1>4, <2>1 DEF ChildResumed, Running, At
      <3>2. (\A g \in Frame : frame[g] # "none" => frame'[g] # "none") /\ UNCHANGED poolVars
        BY <1>4, <2>1 DEF ChildResumed, Running, At
      <3> QED
        BY <3>1, <3>2, SamePool
    <2>2. CASE ~has_op_
      <3>1. \A g \in Frame : g # Leaf => (Live(g)' <=> Live(g))
        BY <1>4, <2>2, ZenonT(40) DEF Destroy, ChildResumed, Running, At
      <3>2. \A g \in Frame : frame[g] # "none" => frame'[g] # "none"
        BY <1>4, <2>2, ZenonT(40) DEF Destroy, ChildResumed, Running, At
      <3>3. Leaf \in Frame /\ Live(Leaf) /\ ~Live(Leaf)' /\ DoDeallocate(t, Leaf)
        BY <1>4, <2>2, ZenonT(40) DEF Destroy, ChildResumed, Running, At
      <3> QED
        BY <3>1, <3>2, <3>3, DestroyPool
    <2> QED
      BY <1>4, <2>1, <2>2 DEF ChildResumed, Running, At
  <1>5. CASE \E f \in {Child, Leaf} : Hop(t, f)
    <2>1. \A g \in Frame : Live(g)' <=> Live(g)
      BY <1>5, ZenonT(40) DEF Hop, Running, At
    <2>2. (\A g \in Frame : frame[g] # "none" => frame'[g] # "none") /\ UNCHANGED poolVars
      BY <1>5 DEF Hop, Running, At
    <2> QED
      BY <2>1, <2>2, SamePool
  <1>6. CASE Return(t, Child)
    <2>1. \A g \in Frame : Live(g)' <=> Live(g)
      BY <1>6, ZenonT(40) DEF Return, Running
    <2>2. (\A g \in Frame : frame[g] # "none" => frame'[g] # "none") /\ UNCHANGED poolVars
      BY <1>6 DEF Return, Running
    <2> QED
      BY <2>1, <2>2, SamePool
  <1>7. CASE Return(t, Leaf)
    <2>1. \A g \in Frame : Live(g)' <=> Live(g)
      BY <1>7 DEF Return, Running
    <2>2. (\A g \in Frame : frame[g] # "none" => frame'[g] # "none") /\ UNCHANGED poolVars
      BY <1>7 DEF Return, Running
    <2> QED
      BY <2>1, <2>2, SamePool
  <1>8. CASE AwaitSender(t)
    <2>1. \A g \in Frame : g # Leaf => (Live(g)' <=> Live(g))
      BY <1>8 DEF Create, AwaitSender, Running
    <2>2. \A g \in Frame : frame[g] # "none" => frame'[g] # "none"
      BY <1>8 DEF Create, AwaitSender, Running
    <2>3. Live(Leaf)' /\ Create(t, Leaf)
      BY <1>8 DEF AwaitSender, Running
    <2> QED
      BY <2>1, <2>2, <2>3, CreatePool
  <1>9. CASE StartBridge(t)
    <2>1. \A g \in Frame : g # Bridge => (Live(g)' <=> Live(g))
      BY <1>9, StartedOnce DEF Create, StartBridge
    <2>2. \A g \in Frame : frame[g] # "none" => frame'[g] # "none"
      BY <1>9, StartedOnce DEF Create, StartBridge
    <2>3. Live(Bridge)' /\ Create(t, Bridge)
      BY <1>9, StartedOnce DEF StartBridge
    <2> QED
      BY <2>1, <2>2, <2>3, CreatePool
  <1>10. CASE SetValue(t)
    <2>1. \A g \in Frame : Live(g)' <=> Live(g)
      BY <1>10 DEF SetValue, Running
    <2>2. (\A g \in Frame : frame[g] # "none" => frame'[g] # "none") /\ UNCHANGED poolVars
      BY <1>10 DEF SetValue, Running
    <2> QED
      BY <2>1, <2>2, SamePool
  <1>11. CASE BridgeEnds(t)
    <2>1. CASE frame[Bridge] = "final"
      <3>1. \A g \in Frame : g # Leaf => (Live(g)' <=> Live(g))
        BY <1>11, <2>1 DEF Destroy, BridgeEnds, Running
      <3>2. \A g \in Frame : frame[g] # "none" => frame'[g] # "none"
        BY <1>11, <2>1 DEF Destroy, BridgeEnds, Running
      <3>3. Leaf \in Frame /\ Live(Leaf) /\ ~Live(Leaf)' /\ DoDeallocate(t, Leaf)
        BY <1>11, <2>1 DEF Destroy, BridgeEnds, Running
      <3> QED
        BY <3>1, <3>2, <3>3, DestroyPool
    <2>2. CASE frame[Bridge] = "dying"
      <3>1. \A g \in Frame : g # Bridge => (Live(g)' <=> Live(g))
        BY <1>11, <2>2 DEF Destroy, BridgeEnds, Running
      <3>2. \A g \in Frame : frame[g] # "none" => frame'[g] # "none"
        BY <1>11, <2>2 DEF Destroy, BridgeEnds, Running
      <3>3. Bridge \in Frame /\ Live(Bridge) /\ ~Live(Bridge)' /\ DoDeallocate(t, Bridge)
        BY <1>11, <2>2 DEF Destroy, BridgeEnds, Running
      <3> QED
        BY <3>1, <3>2, <3>3, DestroyPool
    <2> QED
      BY <1>11, <2>1, <2>2, ZenonT(40) DEF BridgeEnds, Running
  <1>12. CASE AwaitSchedule(t)
    <2>1. \A g \in Frame : Live(g)' <=> Live(g)
      BY <1>12 DEF AwaitSchedule, Running, At
    <2>2. (\A g \in Frame : frame[g] # "none" => frame'[g] # "none") /\ UNCHANGED poolVars
      BY <1>12 DEF AwaitSchedule, Running, At
    <2> QED
      BY <2>1, <2>2, SamePool
  <1>13. CASE RunPosted(t)
    <2>1. \A g \in Frame : Live(g)' <=> Live(g)
      BY <1>13 DEF RunPosted, At
    <2>2. (\A g \in Frame : frame[g] # "none" => frame'[g] # "none") /\ UNCHANGED poolVars
      BY <1>13 DEF RunPosted, At
    <2> QED
      BY <2>1, <2>2, SamePool
  <1>14. CASE StartReturns(t)
    <2>1. \A g \in Frame : Live(g)' <=> Live(g)
      BY <1>14 DEF StartReturns
    <2>2. (\A g \in Frame : frame[g] # "none" => frame'[g] # "none") /\ UNCHANGED poolVars
      BY <1>14 DEF StartReturns
    <2> QED
      BY <2>1, <2>2, SamePool
  <1>15. CASE HostEnds(t)
    <2>1. CASE frame[host_frame] = "ending"
      <3>1. \A g \in Frame : g # Child => (Live(g)' <=> Live(g))
        BY <1>15, <2>1 DEF Destroy, HostEnds, Running
      <3>2. \A g \in Frame : frame[g] # "none" => frame'[g] # "none"
        BY <1>15, <2>1 DEF Destroy, HostEnds, Running
      <3>3. Child \in Frame /\ Live(Child) /\ ~Live(Child)' /\ DoDeallocate(t, Child)
        BY <1>15, <2>1 DEF Destroy, HostEnds, Running
      <3> QED
        BY <3>1, <3>2, <3>3, DestroyPool
    <2>2. CASE frame[host_frame] = "dying"
      <3> PICK h : h = host_frame
        OBVIOUS
      <3>1. \A g \in Frame : g # h => (Live(g)' <=> Live(g))
        BY <1>15, <2>2 DEF Destroy, HostEnds, Running
      <3>2. \A g \in Frame : frame[g] # "none" => frame'[g] # "none"
        BY <1>15, <2>2 DEF Destroy, HostEnds, Running
      <3>3. h \in Frame /\ Live(h) /\ ~Live(h)' /\ DoDeallocate(t, h)
        BY <1>15, <2>2 DEF Destroy, HostEnds, Running
      <3> QED
        BY <3>1, <3>2, <3>3, DestroyPool
    <2> QED
      BY <1>15, <2>1, <2>2 DEF HostEnds, Running
  <1> QED
    BY <1>1, <1>2, <1>3, <1>4, <1>5, <1>6, <1>7, <1>8, <1>9, <1>10, <1>11, <1>12, <1>13,
       <1>14, <1>15 DEF TaskStep

(* The other steps of the hosts create and destroy none. *)
LEMMA HostStepPool ==
  ASSUME ControlInv, PoolInv, NEW t \in Thread, SpawnStep(t) \/ WaitStep(t)
  PROVE  PoolInv'
  <1> USE Frames DEF ControlInv, FrameTypes, HostInv, CallerInv, LeafInv,
             ScheduledInv, host_frame, other_frame, promiseVars, execVars, Live
  <1>1. CASE Complete(t)
    <2>1. \A g \in Frame : Live(g)' <=> Live(g)
      BY <1>1 DEF Complete, Running, AwaitResume, At
    <2>2. (\A g \in Frame : frame[g] # "none" => frame'[g] # "none") /\ UNCHANGED poolVars
      BY <1>1 DEF Complete, Running, AwaitResume, At
    <2> QED
      BY <2>1, <2>2, SamePool
  <1>2. CASE CompleteCall(t)
    <2>1. \A g \in Frame : Live(g)' <=> Live(g)
      BY <1>2 DEF CompleteCall, Running, At
    <2>2. (\A g \in Frame : frame[g] # "none" => frame'[g] # "none") /\ UNCHANGED poolVars
      BY <1>2 DEF CompleteCall, Running, At
    <2> QED
      BY <2>1, <2>2, SamePool
  <1>3. CASE StoreResult(t)
    <2>1. \A g \in Frame : Live(g)' <=> Live(g)
      BY <1>3 DEF StoreResult, Running, AwaitResume, At
    <2>2. (\A g \in Frame : frame[g] # "none" => frame'[g] # "none") /\ UNCHANGED poolVars
      BY <1>3 DEF StoreResult, Running, AwaitResume, At
    <2> QED
      BY <2>1, <2>2, SamePool
  <1>4. CASE Signal(t)
    <2>1. \A g \in Frame : Live(g)' <=> Live(g)
      BY <1>4 DEF Signal, Running, At
    <2>2. (\A g \in Frame : frame[g] # "none" => frame'[g] # "none") /\ UNCHANGED poolVars
      BY <1>4 DEF Signal, Running, At
    <2> QED
      BY <2>1, <2>2, SamePool
  <1>5. CASE WrapperReturns(t)
    <2>1. \A g \in Frame : Live(g)' <=> Live(g)
      BY <1>5 DEF WrapperReturns
    <2>2. (\A g \in Frame : frame[g] # "none" => frame'[g] # "none") /\ UNCHANGED poolVars
      BY <1>5 DEF WrapperReturns
    <2> QED
      BY <2>1, <2>2, SamePool
  <1>6. CASE DetachedFinal(t)
    <2>1. \A g \in Frame : Live(g)' <=> Live(g)
      BY <1>6 DEF DetachedFinal, Running, AwaitResume, At
    <2>2. (\A g \in Frame : frame[g] # "none" => frame'[g] # "none") /\ UNCHANGED poolVars
      BY <1>6 DEF DetachedFinal, Running, AwaitResume, At
    <2> QED
      BY <2>1, <2>2, SamePool
  <1> QED
    BY <1>1, <1>2, <1>3, <1>4, <1>5, <1>6 DEF SpawnStep, WaitStep

(* So do the caller of SyncWait() and the owner of a DetachedTask. *)
LEMMA WaitCallerPool ==
  ASSUME ControlInv, PoolInv, WaitCaller
  PROVE  PoolInv'
  <1> USE Frames DEF ControlInv, FrameTypes, HostInv, CallerInv, LeafInv,
             ScheduledInv, host_frame, other_frame, promiseVars, execVars, Live
  <1>1. CASE SyncWaitStart
    <2>1. \A g \in Frame : g # Wrapper => (Live(g)' <=> Live(g))
      BY <1>1 DEF Create, SyncWaitStart, At
    <2>2. \A g \in Frame : frame[g] # "none" => frame'[g] # "none"
      BY <1>1 DEF Create, SyncWaitStart, At
    <2>3. Live(Wrapper)' /\ Create(Main, Wrapper)
      BY <1>1 DEF SyncWaitStart, At
    <2> QED
      BY <2>1, <2>2, <2>3, CreatePool
  <1>2. CASE SyncWaitEnds
    <2>1. CASE caller = "waiting"
      <3>1. \A g \in Frame : g # Wrapper => (Live(g)' <=> Live(g))
        BY <1>2, <2>1 DEF Destroy, SyncWaitEnds
      <3>2. \A g \in Frame : frame[g] # "none" => frame'[g] # "none"
        BY <1>2, <2>1 DEF Destroy, SyncWaitEnds
      <3>3. Wrapper \in Frame /\ Live(Wrapper) /\ ~Live(Wrapper)' /\ DoDeallocate(Main, Wrapper)
        BY <1>2, <2>1 DEF Destroy, SyncWaitEnds
      <3> QED
        BY <3>1, <3>2, <3>3, DestroyPool
    <2>2. CASE caller = "returning"
      <3>1. \A g \in Frame : g # Child => (Live(g)' <=> Live(g))
        BY <1>2, <2>2 DEF Destroy, SyncWaitEnds
      <3>2. \A g \in Frame : frame[g] # "none" => frame'[g] # "none"
        BY <1>2, <2>2 DEF Destroy, SyncWaitEnds
      <3>3. Child \in Frame /\ Live(Child) /\ ~Live(Child)' /\ DoDeallocate(Main, Child)
        BY <1>2, <2>2 DEF Destroy, SyncWaitEnds
      <3> QED
        BY <3>1, <3>2, <3>3, DestroyPool
    <2> QED
      BY <1>2, <2>1, <2>2 DEF SyncWaitEnds
  <1>3. CASE MakeDetached
    <2>1. \A g \in Frame : g # Detached => (Live(g)' <=> Live(g))
      BY <1>3 DEF Create, MakeDetached, At
    <2>2. \A g \in Frame : frame[g] # "none" => frame'[g] # "none"
      BY <1>3 DEF Create, MakeDetached, At
    <2>3. Live(Detached)' /\ Create(Main, Detached)
      BY <1>3 DEF MakeDetached, At
    <2> QED
      BY <2>1, <2>2, <2>3, CreatePool
  <1>4. CASE SetCallback
    <2>1. \A g \in Frame : Live(g)' <=> Live(g)
      BY <1>4 DEF SetCallback, taskVars
    <2>2. (\A g \in Frame : frame[g] # "none" => frame'[g] # "none") /\ UNCHANGED poolVars
      BY <1>4 DEF SetCallback, taskVars
    <2> QED
      BY <2>1, <2>2, SamePool
  <1>5. CASE Start
    <2>1. \A g \in Frame : Live(g)' <=> Live(g)
      BY <1>5 DEF Start, At
    <2>2. (\A g \in Frame : frame[g] # "none" => frame'[g] # "none") /\ UNCHANGED poolVars
      BY <1>5 DEF Start, At
    <2> QED
      BY <2>1, <2>2, SamePool
  <1>6. CASE DetachedDropped
    <2>1. CASE caller = "started"
      <3>1. \A g \in Frame : Live(g)' <=> Live(g)
        BY <1>6, <2>1 DEF DetachedDropped
      <3>2. (\A g \in Frame : frame[g] # "none" => frame'[g] # "none") /\ UNCHANGED poolVars
        BY <1>6, <2>1 DEF DetachedDropped
      <3> QED
        BY <3>1, <3>2, SamePool
    <2>2. CASE caller = "detached"
      <3>1. \A g \in Frame : g # Child => (Live(g)' <=> Live(g))
        BY <1>6, <2>2 DEF Destroy, DetachedDropped
      <3>2. \A g \in Frame : frame[g] # "none" => frame'[g] # "none"
        BY <1>6, <2>2 DEF Destroy, DetachedDropped
      <3>3. Child \in Frame /\ Live(Child) /\ ~Live(Child)' /\ DoDeallocate(Main, Child)
        BY <1>6, <2>2 DEF Destroy, DetachedDropped
      <3> QED
        BY <3>1, <3>2, <3>3, DestroyPool
    <2>3. CASE caller = "dropped"
      <3>1. \A g \in Frame : g # Detached => (Live(g)' <=> Live(g))
        BY <1>6, <2>3 DEF Destroy, DetachedDropped
      <3>2. \A g \in Frame : frame[g] # "none" => frame'[g] # "none"
        BY <1>6, <2>3 DEF Destroy, DetachedDropped
      <3>3. Detached \in Frame /\ Live(Detached) /\ ~Live(Detached)' /\ DoDeallocate(Main, Detached)
        BY <1>6, <2>3 DEF Destroy, DetachedDropped
      <3> QED
        BY <3>1, <3>2, <3>3, DestroyPool
    <2> QED
      BY <1>6, <2>1, <2>2, <2>3 DEF DetachedDropped
  <1> QED
    BY <1>1, <1>2, <1>3, <1>4, <1>5, <1>6 DEF WaitCaller

(* So does the caller of Spawn(). *)
LEMMA CallerPool ==
  ASSUME ControlInv, PoolInv, (MakeTask \/ DropTask) \/ SpawnCaller
  PROVE  PoolInv'
  <1> USE Frames DEF ControlInv, FrameTypes, HostInv, CallerInv, LeafInv,
             ScheduledInv, host_frame, other_frame, promiseVars, execVars, Live
  <1>1. CASE MakeTask
    <2>1. \A g \in Frame : g # Child => (Live(g)' <=> Live(g))
      BY <1>1 DEF Create, MakeTask, At
    <2>2. \A g \in Frame : frame[g] # "none" => frame'[g] # "none"
      BY <1>1 DEF Create, MakeTask, At
    <2>3. Live(Child)' /\ Create(Main, Child)
      BY <1>1 DEF MakeTask, At
    <2> QED
      BY <2>1, <2>2, <2>3, CreatePool
  <1>2. CASE DropTask
    <2>1. \A g \in Frame : g # Child => (Live(g)' <=> Live(g))
      BY <1>2 DEF Destroy, DropTask
    <2>2. \A g \in Frame : frame[g] # "none" => frame'[g] # "none"
      BY <1>2 DEF Destroy, DropTask
    <2>3. Child \in Frame /\ Live(Child) /\ ~Live(Child)' /\ DoDeallocate(Main, Child)
      BY <1>2 DEF Destroy, DropTask
    <2> QED
      BY <2>1, <2>2, <2>3, DestroyPool
  <1>3. CASE SpawnOn
    <2>1. \A g \in Frame : g # Wrapper => (Live(g)' <=> Live(g))
      BY <1>3 DEF Create, SpawnOn, At
    <2>2. \A g \in Frame : frame[g] # "none" => frame'[g] # "none"
      BY <1>3 DEF Create, SpawnOn, At
    <2>3. Live(Wrapper)' /\ Create(Main, Wrapper)
      BY <1>3 DEF SpawnOn, At
    <2> QED
      BY <2>1, <2>2, <2>3, CreatePool
  <1>4. CASE SpawnNoExecutor
    <2>1. \A g \in Frame : g # Child => (Live(g)' <=> Live(g))
      BY <1>4 DEF Destroy, SpawnNoExecutor
    <2>2. \A g \in Frame : frame[g] # "none" => frame'[g] # "none"
      BY <1>4 DEF Destroy, SpawnNoExecutor
    <2>3. Child \in Frame /\ Live(Child) /\ ~Live(Child)' /\ DoDeallocate(Main, Child)
      BY <1>4 DEF Destroy, SpawnNoExecutor
    <2> QED
      BY <2>1, <2>2, <2>3, DestroyPool
  <1>5. CASE /\ (\E cb \in Callback : OnComplete(cb)) \/ OnError \/ LateCall \/ HandleEnds
             /\ UNCHANGED <<host, frame, promiseVars, stack, scheduled, posted, has_op_, hops, poolVars>>
    <2>1. \A g \in Frame : Live(g)' <=> Live(g)
      BY <1>5 DEF Live
    <2>2. (\A g \in Frame : frame[g] # "none" => frame'[g] # "none") /\ UNCHANGED poolVars
      BY <1>5 DEF Live
    <2> QED
      BY <2>1, <2>2, SamePool
  <1> QED
    BY <1>1, <1>2, <1>3, <1>4, <1>5 DEF SpawnCaller

(* Initially all memory is in the heap. *)
LEMMA PoolInitInv ==
  ASSUME TasksInit
  PROVE  PoolInv
  <1>1. /\ buckets_ = [t \in Thread |-> [b \in Bucket |-> <<>>]]
        /\ capacity = [m \in Block |-> 0] /\ memory = [f \in Frame |-> NoBlock]
        /\ frame = [f \in Frame |-> "none"]
    BY DEF TasksInit, PoolInit
  <1>2. <<>> \in Seq(Block) /\ Len(<<>>) = 0 /\ DOMAIN <<>> = {}
    OBVIOUS
  <1>3. \A t \in Thread, b \in Bucket : buckets_[t][b] = <<>>
    BY <1>1
  <1>4. PoolTypes
    <2>1. buckets_ \in [Thread -> [Bucket -> Seq(Block)]]
      BY <1>1, <1>2
    <2>2. \A t \in Thread, b \in Bucket : Len(buckets_[t][b]) = 0
      BY <1>2, <1>3
    <2>3. \A t \in Thread, b \in Bucket : Len(buckets_[t][b]) <= kMaxPooledPerBucket
      BY <2>2, PoolAssumption
    <2> QED
      BY <1>1, <2>1, <2>3 DEF PoolTypes
  <1>5. Slots = {}
    BY <1>2, <1>3 DEF Slots
  <1>6. PoolSizes /\ PoolApart /\ PoolUsed
    BY <1>1, <1>5 DEF PoolSizes, PoolApart, PoolUsed
  <1>7. Allocated = {} /\ Created = {}
    BY <1>1 DEF Allocated, Created
  <1>8. Cardinality(Allocated) <= Cardinality(Created)
    <2>1. Cardinality({}) = 0
      BY FS_EmptySet
    <2> QED
      BY <1>7, <2>1
  <1> QED
    BY <1>1, <1>4, <1>6, <1>8 DEF PoolInv, PoolData, Live

(* The image of an injective operator has as many elements as its domain. *)
LEMMA SameNumber ==
  ASSUME NEW S, NEW T, IsFiniteSet(T), NEW h \in [S -> T],
         \A x, y \in S : h[x] = h[y] => x = y, \A z \in T : \E x \in S : h[x] = z
  PROVE  IsFiniteSet(S) /\ Cardinality(S) = Cardinality(T)
  <1>1. h \in Injection(S, T) /\ h \in Surjection(S, T)
    BY DEF Injection, Surjection, IsInjective
  <1> QED
    BY <1>1, FS_Injection

(* Every block is where it belongs. *)
LEMMA PoolSound ==
  ASSUME PoolInv
  PROVE  BlocksConserved
  <1> DEFINE InFrame == {f \in Frame : memory[f] # NoBlock}
             A == {memory[f] : f \in InFrame}
             B == {Held(s) : s \in Slots}
             Used == {m \in Block : capacity[m] > 0}
  <1>1. PoolData /\ PoolTypes
    BY DEF PoolInv, PoolData
  <1>2. Used = Allocated
    BY <1>1 DEF PoolTypes, Allocated
  <1>3. \A f \in InFrame : memory[f] \in Block /\ capacity[memory[f]] = Need(f)
    BY <1>1 DEF PoolTypes, PoolData, PoolSizes
  <1>4. A \subseteq Allocated
    BY <1>3, NeedSuffices DEF Allocated
  <1>5. B \subseteq Allocated
    BY <1>1, SlotSize DEF Allocated
  <1>6. Allocated = A \union B
    <2>1. ASSUME NEW m \in Allocated PROVE m \in A \union B
      <3>1. m \in Block /\ capacity[m] # 0 /\ m # NoBlock
        BY PoolAssumption DEF Allocated
      <3>2. (\E f \in Frame : memory[f] = m) \/ \E s \in Slots : Held(s) = m
        BY <1>1, <3>1 DEF PoolData, PoolUsed
      <3> QED
        BY <3>1, <3>2
    <2> QED
      BY <1>4, <1>5, <2>1
  <1>7. A \intersect B = {}
    BY <1>1 DEF PoolData, PoolApart
  <1>8. IsFiniteSet(Allocated) /\ IsFiniteSet(A) /\ IsFiniteSet(B)
    <2>1. Allocated \in SUBSET Block /\ IsFiniteSet(Block)
      BY PoolAssumption DEF Allocated
    <2>2. IsFiniteSet(Allocated)
      BY <2>1, FS_Subset
    <2> QED
      BY <1>4, <1>5, <2>2, FS_Subset
  <1>9. Cardinality(A) = Cardinality(InFrame)
    <2> DEFINE h == [f \in InFrame |-> memory[f]]
    <2>1. h \in [InFrame -> A] /\ \A z \in A : \E x \in InFrame : h[x] = z
      OBVIOUS
    <2>2. \A x, y \in InFrame : h[x] = h[y] => x = y
      BY <1>1 DEF PoolData, PoolApart
    <2> HIDE DEF h, InFrame, A
    <2> QED
      BY <1>8, <2>1, <2>2, SameNumber
  <1>10. Cardinality(B) = Cardinality(Slots)
    <2> DEFINE h == [s \in Slots |-> Held(s)]
    <2>1. h \in [Slots -> B] /\ \A z \in B : \E x \in Slots : h[x] = z
      OBVIOUS
    <2>2. \A x, y \in Slots : h[x] = h[y] => x = y
      BY <1>1 DEF PoolData, PoolApart
    <2> HIDE DEF h, B
    <2> QED
      BY <1>8, <2>1, <2>2, SameNumber
  <1>11. Cardinality(Allocated) = Cardinality(A) + Cardinality(B)
    <2>1. Cardinality(A \union B) = Cardinality(A) + Cardinality(B) - Cardinality(A \intersect B)
      BY <1>8, FS_Union
    <2>2. Cardinality(A) \in Nat /\ Cardinality(B) \in Nat /\ Cardinality({}) = 0
      BY <1>8, FS_CardinalityType, FS_EmptySet
    <2> HIDE DEF A, B
    <2>3. Cardinality(A \intersect B) = 0
      BY <1>7, <2>2
    <2>4. Cardinality(Allocated) = Cardinality(A \union B)
      BY <1>6
    <2> QED
      BY <2>1, <2>2, <2>3, <2>4
  <1>12. Used = A \union B /\ Cardinality(Used) = Cardinality(InFrame) + Cardinality(Slots)
    BY <1>2, <1>6, <1>9, <1>10, <1>11
  <1>13. \A f \in InFrame : capacity[memory[f]] >= FrameSize[f]
    BY <1>3, NeedSuffices
  <1>14. \A s \in Slots : capacity[Held(s)] = GetBucketSize[s[2]]
    BY <1>1 DEF PoolData, PoolSizes
  <1>15. \A t \in Thread, b \in Bucket : Len(buckets_[t][b]) <= kMaxPooledPerBucket
    BY <1>1 DEF PoolTypes
  <1> QED
    BY <1>12, <1>13, <1>14, <1>15 DEF BlocksConserved, Slots, Held

-----------------------------------------------------------------------------
(* Tasks: the invariant and what follows from it                            *)

TasksInv == ControlInv /\ StackInv /\ WaitInv /\ SpawnInv /\ PoolInv

(* Main's own program keeps it. *)
LEMMA CallerInvariant ==
  ASSUME TasksInv, Caller
  PROVE  TasksInv'
  <1> USE DEF TasksInv
  <1>1. CASE (MakeTask \/ DropTask) /\ UNCHANGED <<spawnVars, waitVars>>
    BY <1>1, CallerControl, CallerWait, CallerSpawn, CallerPool
  <1>2. CASE SpawnCaller /\ UNCHANGED waitVars
    <2>1. ControlInv' /\ StackInv' /\ WaitInv' /\ PoolInv'
      BY <1>2, CallerControl, CallerWait, CallerPool
    <2>2. SpawnInv'
      <3>1. CASE SpawnOn
        BY <3>1, CallerSpawn DEF SpawnOn, spawnVars
      <3>2. CASE SpawnNoExecutor
        BY <3>2, SpawnNoExecutorSpawn
      <3>3. CASE \E cb \in Callback : OnComplete(cb) /\ UNCHANGED <<host, frame>>
        BY <1>2, <3>3, OnCompleteSpawn DEF SpawnCaller
      <3>4. CASE OnError /\ UNCHANGED <<host, frame>>
        BY <1>2, <3>4, OnErrorSpawn DEF SpawnCaller
      <3>5. CASE LateCall /\ UNCHANGED <<host, frame>>
        BY <1>2, <3>5, LateCallSpawn DEF SpawnCaller
      <3>6. CASE HandleEnds /\ UNCHANGED <<host, frame>>
        BY <3>6, HandleEndsSpawn
      <3> QED
        BY <1>2, <3>1, <3>2, <3>3, <3>4, <3>5, <3>6 DEF SpawnCaller
    <2> QED
      BY <2>1, <2>2
  <1>3. CASE WaitCaller /\ UNCHANGED spawnVars
    BY <1>3, WaitCallerControl, WaitCallerWait, WaitCallerSpawn, WaitCallerPool
  <1> QED
    BY <1>1, <1>2, <1>3 DEF Caller

(* What a thread runs keeps it. *)
LEMMA ThreadInvariant ==
  ASSUME TasksInv, NEW t \in Thread, ThreadStep(t)
  PROVE  TasksInv'
  <1> USE DEF TasksInv
  <1>1. CASE (TaskStep(t) \/ HostEnds(t)) /\ UNCHANGED <<spawnVars, waitVars>>
    BY <1>1, TaskStepControl, TaskStepWait, TaskStepSpawn, TaskStepPool
  <1>2. CASE SpawnStep(t) /\ UNCHANGED waitVars
    <2>1. ControlInv' /\ StackInv' /\ WaitInv' /\ PoolInv'
      BY <1>2, SpawnStepControl, SpawnStepWait, HostStepPool
    <2>2. SpawnInv'
      BY <1>2, CompleteSpawn, CompleteCallSpawn DEF SpawnStep
    <2> QED
      BY <2>1, <2>2
  <1>3. CASE WaitStep(t) /\ UNCHANGED spawnVars
    BY <1>3, WaitStepControl, WaitStepWait, WaitStepSpawn, HostStepPool
  <1> QED
    BY <1>1, <1>2, <1>3 DEF ThreadStep

(* FramePool::Clear() keeps it. *)
LEMMA ClearInvariant ==
  ASSUME TasksInv, NEW t \in Thread, ClearPool(t)
  PROVE  TasksInv'
  <1>1. DoClear(t) /\ UNCHANGED <<host, caller, frame, promiseVars, stack, execVars, spawnVars, waitVars>>
    BY DEF ClearPool
  <1>2. ControlInv' /\ StackInv'
    BY <1>1, QuietControl, QuietStack DEF TasksInv
  <1>3. WaitInv'
    BY <1>1 DEF TasksInv, WaitInv, waitVars, promiseVars
  <1>4. SpawnInv'
    BY <1>1, SpawnFrame DEF TasksInv
  <1>5. PoolInv'
    BY <1>1, ClearPoolPool DEF TasksInv
  <1> QED
    BY <1>2, <1>3, <1>4, <1>5 DEF TasksInv

(* So does a step that is about none of this. *)
LEMMA TasksSame ==
  ASSUME TasksInv, UNCHANGED tasks
  PROVE  TasksInv'
  <1>1. /\ UNCHANGED <<host, caller, frame, promiseVars, stack, execVars, spawnVars, waitVars>>
        /\ UNCHANGED poolVars
    BY DEF tasks, taskVars
  <1>2. ControlInv' /\ StackInv'
    BY <1>1, QuietControl, QuietStack DEF TasksInv
  <1>3. WaitInv'
    BY <1>1 DEF TasksInv, WaitInv, waitVars, promiseVars
  <1>4. SpawnInv'
    BY <1>1, SpawnFrame DEF TasksInv
  <1>5. PoolInv'
    BY <1>1, SamePool DEF TasksInv, Live
  <1> QED
    BY <1>2, <1>3, <1>4, <1>5 DEF TasksInv

(* The bodies on the stacks, the handles of the executor and the            *)
(* continuations belong to frames that exist and that nobody else runs.     *)
LEMMA TasksSound ==
  ASSUME TasksInv
  PROVE  FramesSafe
  <1> DEFINE Entries == UNION {{t} \X DOMAIN stack[t] : t \in Thread}
             On(e) == stack[e[1]][e[2]]
             Bodies == {e \in Entries : On(e)[2] = "body"}
  <1>1. ControlInv /\ StackInv /\ PoolInv
    BY DEF TasksInv
  <1>2. ASSUME NEW e \in Bodies
        PROVE  /\ e[1] \in Thread /\ e[2] \in DOMAIN stack[e[1]] /\ e = <<e[1], e[2]>>
               /\ On(e) \in Entry /\ On(e)[2] = "body" /\ MayStand(On(e), e[1])
    <2>1. e[1] \in Thread /\ e[2] \in DOMAIN stack[e[1]] /\ e = <<e[1], e[2]>> /\ On(e)[2] = "body"
      BY <1>2
    <2>2. stack[e[1]] \in Seq(Entry)
      BY <1>1, <2>1 DEF StackInv
    <2>3. On(e) \in Entry
      BY <2>1, <2>2
    <2>4. MayStand(On(e), e[1])
      BY <1>1, <2>1 DEF StackInv
    <2> QED
      BY <2>1, <2>3, <2>4
  <1>3. ASSUME NEW e \in Bodies
        PROVE  /\ On(e)[1] \in Frame
               /\ \/ Active(On(e)[1])
                  \/ /\ On(e)[1] = Wrapper /\ host = "sync" /\ frame[Wrapper] = "freed"
                     /\ e[1] # Main
    <2> PICK x, t : x = On(e) /\ t = e[1]
      OBVIOUS
    <2>1. x \in Entry /\ x[2] = "body" /\ MayStand(x, t)
      BY <1>2
    <2>2. x[1] \in Frame
      BY <2>1 DEF Entry
    <2>3. x # <<Child, "start">>
      BY <2>1
    <2>4. Active(x[1]) \/ (x[1] = Wrapper /\ host = "sync" /\ frame[Wrapper] = "freed" /\ t # Main)
      BY <2>1, <2>3 DEF MayStand
    <2> QED
      BY <2>2, <2>4
  <1>4. \A f \in Frame : Active(f) => Live(f)
    BY DEF Active, Live
  <1>5. \A e \in Bodies : Live(On(e)[1]) \/ (host = "sync" /\ On(e)[1] = Wrapper /\ e[1] # Main)
    BY <1>3, <1>4
  <1>6. \A d, e \in Bodies : On(d) = On(e) => d = e
    <2> SUFFICES ASSUME NEW d \in Bodies, NEW e \in Bodies, On(d) = On(e) PROVE d = e
      OBVIOUS
    <2>1. /\ d[1] \in Thread /\ d[2] \in DOMAIN stack[d[1]] /\ d = <<d[1], d[2]>>
          /\ e[1] \in Thread /\ e[2] \in DOMAIN stack[e[1]] /\ e = <<e[1], e[2]>>
          /\ On(d)[2] = "body"
      BY <1>2
    <2>2. d[1] = e[1] /\ d[2] = e[2]
      BY <1>1, <2>1 DEF StackInv
    <2> QED
      BY <2>1, <2>2
  <1>7. \A f \in scheduled : Live(f) /\ ~\E e \in Bodies : On(e)[1] = f
    <2> SUFFICES ASSUME NEW f \in scheduled
                 PROVE  Live(f) /\ ~\E e \in Bodies : On(e)[1] = f
      OBVIOUS
    <2>1. \/ f \in {Child, Leaf} /\ frame[f] = "hop"
          \/ f = Wrapper /\ host = "spawn" /\ frame[f] = "new"
      BY <1>1 DEF ControlInv, ScheduledInv
    <2>2. Live(f) /\ ~Active(f) /\ ~(f = Wrapper /\ host = "sync")
      BY <2>1, Frames DEF Live, Active
    <2> HIDE DEF Bodies
    <2> QED
      BY <1>3, <2>2
  <1>8. \A f \in Frame : frame[f] \in {"run", "hop", "await"} /\ continuation_[f] # NoFrame =>
          frame[continuation_[f]] = "await"
    <2> SUFFICES ASSUME NEW f \in Frame, frame[f] \in {"run", "hop", "await"},
                        continuation_[f] # NoFrame
                 PROVE  frame[continuation_[f]] = "await"
      OBVIOUS
    <2>1. f \in {Child, Leaf}
      BY <1>1, Frames DEF ControlInv, HostInv
    <2>2. CASE f = Child
      BY <1>1, <2>2, HostAwaits
    <2>3. CASE f = Leaf
      BY <1>1, <2>3 DEF ControlInv, LeafInv
    <2> QED
      BY <2>1, <2>2, <2>3
  <1>9. posted \/ has_op_ => Live(Child)
    BY <1>1 DEF ControlInv, LeafInv, Live
  <1>10. BlocksConserved
    BY <1>1, PoolSound
  <1> QED
    BY <1>5, <1>6, <1>7, <1>8, <1>9, <1>10 DEF FramesSafe

-----------------------------------------------------------------------------
(* The four programs together                                               *)

Inv == TasksInv /\ CancelInv /\ RetryInv /\ GeneratorInv

(* Initially they stand at their beginnings. *)
LEMMA InitInv == Init => Inv
  <1> SUFFICES ASSUME Init PROVE Inv
    OBVIOUS
  <1>1. TasksInv
    BY TasksInitControl, SpawnInitInv, PoolInitInv DEF Init, TasksInv
  <1> QED
    BY <1>1, CancelInitInv, RetryInitInv, GeneratorInitInv DEF Init, Inv

(* Each keeps its own invariant and leaves the others' variables alone. *)
LEMMA NextInv == Inv /\ [Next]_allVars => Inv'
  <1> SUFFICES ASSUME Inv, [Next]_allVars PROVE Inv'
    OBVIOUS
  <1> USE DEF Inv
  <1>1. CASE TaskProgram
    <2>1. UNCHANGED <<cancelVars, retryVars, generatorVars>>
      BY <1>1 DEF TaskProgram
    <2>2. TasksInv'
      BY <1>1, CallerInvariant, ThreadInvariant, ClearInvariant DEF TaskProgram
    <2> QED
      BY <2>1, <2>2, CancelNextInv, RetryNextInv, GeneratorNextInv
  <1>2. CASE CancelProgram
    <2>1. CancelNext /\ UNCHANGED <<tasks, retryVars, generatorVars>>
      BY <1>2 DEF CancelProgram
    <2> QED
      BY <2>1, TasksSame, CancelNextInv, RetryNextInv, GeneratorNextInv
  <1>3. CASE RetryProgram
    <2>1. RetryNext /\ UNCHANGED <<tasks, cancelVars, generatorVars>>
      BY <1>3 DEF RetryProgram
    <2> QED
      BY <2>1, TasksSame, CancelNextInv, RetryNextInv, GeneratorNextInv
  <1>4. CASE GeneratorProgram
    <2>1. GeneratorNext /\ UNCHANGED <<tasks, cancelVars, retryVars>>
      BY <1>4 DEF GeneratorProgram
    <2> QED
      BY <2>1, TasksSame, CancelNextInv, RetryNextInv, GeneratorNextInv
  <1>5. CASE UNCHANGED allVars
    <2>1. UNCHANGED <<tasks, cancelVars, retryVars, generatorVars>>
      BY <1>5 DEF allVars
    <2> QED
      BY <2>1, TasksSame, CancelNextInv, RetryNextInv, GeneratorNextInv
  <1> QED
    BY <1>1, <1>2, <1>3, <1>4, <1>5 DEF Next

(* The inductive invariant of the four programs holds in every behaviour. *)
THEOREM LifetimesInv == Spec => []Inv
  BY InitInv, NextInv, PTL DEF Spec

(* No thread runs in, and nobody will resume, a coroutine frame that is     *)
(* destroyed or that another thread runs in (but for the wrapper that       *)
(* SyncWait() destroys while it reaches its final_suspend); an operation    *)
(* state is gone with its frame; and every block of memory is in one place, *)
(* large enough for what is in it, wherever the frames are created and      *)
(* destroyed.                                                               *)
THEOREM FramesSound == Spec => []FramesSafe
  <1>1. Inv => FramesSafe
    BY TasksSound DEF Inv
  <1> QED
    BY <1>1, LifetimesInv, PTL

(* A callback of Spawn() is called at most once and as it should be when    *)
(* both sides are through, SyncWait() has its result and the callback of a  *)
(* DetachedTask was called, and a cancellation calls each callback once.    *)
THEOREM ToldSound == Spec => []ToldOnce
  <1>1. Inv => ToldOnce
    BY SpawnSound, WaitSound, CancelSound DEF Inv, TasksInv, ToldOnce
  <1> QED
    BY <1>1, LifetimesInv, PTL

(* Retry makes the attempts and the delays that its policy asks for, and a  *)
(* Generator gives its values in order, each once.                          *)
THEOREM LoopsSound == Spec => []LoopsRight
  <1>1. Inv => LoopsRight
    BY DEF Inv, RetryInv, GeneratorInv, LoopsRight
  <1> QED
    BY <1>1, LifetimesInv, PTL

=============================================================================
