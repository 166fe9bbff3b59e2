-------------------------- MODULE ExecutorsProofs --------------------------
(***************************************************************************)
(* The event loops, for any number of threads and items: no lost wakeup,   *)
(* io_uring's timeouts accounted for, and the refinement of FifoExecutor.  *)
(***************************************************************************)
EXTENDS Executors, TLAPS

(* push_back *)
LEMMA QueuePush ==
  ASSUME NEW S, NEW q \in Seq(S), NEW x \in S
  PROVE  /\ Append(q, x) \in Seq(S) /\ Append(q, x) # <<>>
         /\ ToSet(Append(q, x)) = ToSet(q) \union {x}
         /\ IsInjective(q) /\ x \notin ToSet(q) => IsInjective(Append(q, x))
  <1> DEFINE r == Append(q, x)
  <1>1. /\ r \in Seq(S) /\ r # <<>> /\ DOMAIN r = DOMAIN q \union {Len(q) + 1}
        /\ Len(q) + 1 \notin DOMAIN q /\ r[Len(q) + 1] = x
        /\ \A i \in DOMAIN q : r[i] = q[i]
    OBVIOUS
  <1> HIDE DEF r
  <1>2. ToSet(r) = ToSet(q) \union {x}
    BY <1>1 DEF ToSet
  <1>3. IsInjective(q) /\ x \notin ToSet(q) => IsInjective(r)
    BY <1>1 DEF ToSet, IsInjective
  <1> QED
    BY <1>1, <1>2, <1>3 DEF r

(* front() and pop_front() *)
LEMMA QueuePop ==
  ASSUME NEW S, NEW q \in Seq(S), q # <<>>
  PROVE  /\ Tail(q) \in Seq(S) /\ Head(q) \in S
         /\ Head(q) \in ToSet(q)
         /\ ToSet(q) = ToSet(Tail(q)) \union {Head(q)}
         /\ IsInjective(q) => IsInjective(Tail(q)) /\ Head(q) \notin ToSet(Tail(q))
  <1> DEFINE t == Tail(q)  h == Head(q)
  <1>1. /\ t \in Seq(S) /\ h \in S /\ h = q[1] /\ 1 \in DOMAIN q
        /\ \A i \in DOMAIN t : i + 1 \in DOMAIN q /\ i + 1 # 1 /\ t[i] = q[i + 1]
        /\ \A i \in DOMAIN q : i # 1 => i - 1 \in DOMAIN t /\ t[i - 1] = q[i]
        /\ \A i, j \in DOMAIN t : i + 1 = j + 1 => i = j
    OBVIOUS
  <1> HIDE DEF t, h
  <1>2. ToSet(q) = ToSet(t) \union {h}
    BY <1>1 DEF ToSet
  <1>3. IsInjective(q) => IsInjective(t) /\ h \notin ToSet(t)
    BY <1>1 DEF ToSet, IsInjective
  <1> QED
    BY <1>1, <1>2, <1>3 DEF t, h

(* A queue of none, or of one. *)
LEMMA QueueSmall ==
  ASSUME NEW S, NEW x \in S
  PROVE  /\ <<>> \in Seq(S) /\ ToSet(<<>>) = {} /\ IsInjective(<<>>)
         /\ <<x>> \in Seq(S) /\ ToSet(<<x>>) = {x} /\ IsInjective(<<x>>)
  BY DEF ToSet, IsInjective

(* The first n of a queue, and the rest. *)
LEMMA QueueCut ==
  ASSUME NEW S, NEW q \in Seq(S), NEW n \in 0 .. Len(q)
  PROVE  LET a == SubSeq(q, 1, n)
             b == SubSeq(q, n + 1, Len(q))
         IN /\ a \in Seq(S) /\ b \in Seq(S)
            /\ ToSet(q) = ToSet(a) \union ToSet(b)
            /\ IsInjective(q) => /\ IsInjective(a) /\ IsInjective(b)
                                 /\ ToSet(a) \intersect ToSet(b) = {}
  <1> DEFINE a == SubSeq(q, 1, n)  b == SubSeq(q, n + 1, Len(q))
  <1>1. a \in Seq(S) /\ b \in Seq(S) /\ DOMAIN a = 1 .. n /\ DOMAIN b = 1 .. (Len(q) - n)
    OBVIOUS
  <1>2. \A i \in 1 .. n : a[i] = q[i] /\ i \in DOMAIN q
    OBVIOUS
  <1>3. \A i \in 1 .. (Len(q) - n) : b[i] = q[n + i] /\ n + i \in DOMAIN q /\ n + i \notin 1 .. n
    OBVIOUS
  <1>4. \A i \in DOMAIN q : i \notin 1 .. n => i - n \in 1 .. (Len(q) - n) /\ b[i - n] = q[i]
    OBVIOUS
  <1>5. \A i, j \in 1 .. (Len(q) - n) : n + i = n + j => i = j
    OBVIOUS
  <1> HIDE DEF a, b
  <1>6. ToSet(q) = ToSet(a) \union ToSet(b)
    BY <1>1, <1>2, <1>3, <1>4 DEF ToSet
  <1>7. IsInjective(q) => IsInjective(a) /\ IsInjective(b)
    BY <1>1, <1>2, <1>3, <1>5 DEF IsInjective
  <1>8. IsInjective(q) => ToSet(a) \intersect ToSet(b) = {}
    BY <1>1, <1>2, <1>3 DEF IsInjective, ToSet
  <1> QED
    BY <1>1, <1>6, <1>7, <1>8 DEF a, b

-----------------------------------------------------------------------------
Wait == Delayed \union Io
Item == Handles \union Callbacks \union Wait

(* The places of each loop. *)
Places ==
  IF kind = "polling" THEN {"out", "test", "poll", "timers", "ready", "drain", "dead"}
  ELSE IF kind = "libuv" THEN {"out", "test", "timers", "idle", "arm", "poll",
                               "async", "blocked", "closing", "dead"}
  ELSE {"out", "test", "submit", "blocked", "cqe", "ready", "arm", "dead"}

QueueTypes ==
  /\ ready_queue_ \in Seq(Handles) /\ ready \in Seq(Handles)
  /\ callback_queue_ \in Seq(Callbacks) /\ callbacks \in Seq(Callbacks)
  /\ timer_queue_ \in Seq(Delayed) /\ arming \in Seq(Delayed)
  /\ completed \in Seq(Io) /\ batch \in Seq(Wait)
  /\ due \in Seq(Wait \union {Wakeup}) /\ sq \in Seq(Wait \union {Wakeup})
  /\ armed \subseteq Wait \union {Wakeup}

(* The control state, typed. *)
Control ==
  /\ kind \in {"polling", "libuv", "uring"} /\ lpc \in Places
  /\ upc \in [Thread -> {"idle", "wake"}]
  /\ stop_requested_ \in BOOLEAN /\ wake \in BOOLEAN /\ once \in BOOLEAN
  /\ idle_active_ \in BOOLEAN /\ unarmed \in BOOLEAN
  /\ cur \in Item \union {None}
  /\ given \subseteq Item /\ ran \subseteq given
  /\ pending_timeouts_ \subseteq Delayed

(* What only some of the loops use. *)
OwnState ==
  /\ kind # "uring" => due \in Seq(Delayed) /\ sq = <<>> /\ Wakeup \notin armed
  /\ kind # "polling" => completed = <<>>
  /\ kind = "polling" => timer_queue_ = <<>> /\ arming = <<>>

(* Where the loop has nothing left to run. *)
Quiet ==
  /\ lpc \in {"out", "test", "submit", "blocked", "poll", "async", "dead"} =>
       cur = None /\ batch = <<>> /\ ready = <<>> /\ callbacks = <<>>
  /\ arming # <<>> => lpc = "arm"

(* A wait is in one place, and what is anywhere was given to the executor. *)
Apart(A, B, C, D, E, F, G) ==
  /\ A \intersect B = {} /\ A \intersect C = {} /\ A \intersect D = {}
  /\ A \intersect E = {} /\ A \intersect F = {} /\ A \intersect G = {}
  /\ B \intersect C = {} /\ B \intersect D = {} /\ B \intersect E = {}
  /\ B \intersect F = {} /\ B \intersect G = {}
  /\ C \intersect D = {} /\ C \intersect E = {} /\ C \intersect F = {}
  /\ C \intersect G = {}
  /\ D \intersect E = {} /\ D \intersect F = {} /\ D \intersect G = {}
  /\ E \intersect F = {} /\ E \intersect G = {}
  /\ F \intersect G = {}

OncePlaced ==
  /\ IsInjective(due) /\ IsInjective(sq) /\ IsInjective(completed)
  /\ IsInjective(timer_queue_) /\ IsInjective(arming) /\ IsInjective(batch)
  /\ Apart(armed, ToSet(due), ToSet(sq), ToSet(completed),
           ToSet(timer_queue_), ToSet(arming), ToSet(batch))

AllGiven ==
  /\ Waiting \subseteq given \union {Wakeup}
  /\ ToSet(ready_queue_) \union ToSet(ready) \union ToSet(callback_queue_)
       \union ToSet(callbacks) \subseteq given

HasQueued == ready_queue_ # <<>> \/ callback_queue_ # <<>> \/ timer_queue_ # <<>>
Waking == wake \/ \E t \in Thread : upc[t] = "wake"

(* libuv: queued work keeps the idle handle active or a wakeup under way. *)
UvWakeup ==
  kind = "libuv" =>
    /\ HasQueued => idle_active_ \/ Waking
    /\ lpc = "blocked" => ~idle_active_

(* io_uring: the read of the eventfd is in the ring, or being renewed; what *)
(* is queued, or a Stop(), comes with a wakeup that is under way until the  *)
(* loop has passed the place where it looks.                                *)
UringWakeup ==
  kind = "uring" =>
    /\ lpc = "blocked" => ~once /\ sq = <<>>
    /\ lpc # "dead" /\ ~unarmed => Wakeup \in armed \union ToSet(due) \union ToSet(sq)
    /\ HasQueued /\ lpc \notin {"cqe", "ready", "dead"} => Waking \/ Wakeup \in ToSet(due)
    /\ stop_requested_ /\ ~once /\ lpc \in {"submit", "blocked"}
         => Waking \/ Wakeup \in ToSet(due)

(* The timers and operations not yet resumed. *)
Waits == Waiting \intersect Wait

(* Where everything is, and whose it is. *)
Data == QueueTypes /\ OwnState /\ OncePlaced /\ AllGiven /\ TimeoutsTracked

Inv == Control /\ Data /\ Quiet /\ UvWakeup /\ UringWakeup

-----------------------------------------------------------------------------
data == <<kind, ready_queue_, callback_queue_, timer_queue_, ready, callbacks, arming,
          completed, batch, due, sq, armed, given, pending_timeouts_>>

(* A step that moves nothing. *)
LEMMA NothingMoved ==
  ASSUME Data, UNCHANGED data
  PROVE  Data' /\ Waits' = Waits
  <1> USE DEF data
  <1>1. QueueTypes'
    BY DEF Data, QueueTypes
  <1>2. OwnState'
    BY DEF Data, OwnState
  <1>3. OncePlaced'
    BY DEF Data, OncePlaced
  <1>4. AllGiven'
    BY DEF Data, AllGiven, Waiting
  <1>5. TimeoutsTracked'
    BY DEF Data, TimeoutsTracked
  <1>6. Waits' = Waits
    BY DEF Waits, Waiting
  <1> QED
    BY <1>1, <1>2, <1>3, <1>4, <1>5, <1>6 DEF Data

(* Initially. *)
LEMMA InitInv == Init => Inv
  <1> SUFFICES ASSUME Init PROVE Inv
    OBVIOUS
  <1> USE DEF Init, LoopInit
  <1>1. Control
    BY EventLoopAssumption DEF Control, Places, Item, Thread
  <1>2. ToSet(<<>>) = {} /\ IsInjective(<<>>)
    BY DEF ToSet, IsInjective
  <1>3. QueueTypes
    BY DEF QueueTypes
  <1>4. OwnState
    BY DEF OwnState
  <1>5. OncePlaced
    BY <1>2 DEF OncePlaced, Apart
  <1>6. AllGiven
    BY <1>2 DEF AllGiven, Waiting
  <1>7. TimeoutsTracked
    BY <1>2, IoUringAssumption DEF TimeoutsTracked
  <1>8. Quiet /\ UvWakeup /\ UringWakeup
    BY <1>2 DEF Quiet, UvWakeup, UringWakeup, HasQueued
  <1> QED
    BY <1>1, <1>3, <1>4, <1>5, <1>6, <1>7, <1>8 DEF Inv, Data

-----------------------------------------------------------------------------
(* Schedule() puts a handle at the end of its queue. *)
LEMMA HandleGiven ==
  ASSUME Data, NEW i \in Handles,
         i \notin given,
         ready_queue_' = Append(ready_queue_, i),
         given' = given \union {i},
         UNCHANGED <<kind, callback_queue_, timer_queue_, ready, callbacks,
                     arming, completed, batch, due, sq, armed,
                     pending_timeouts_>>
  PROVE  Data' /\ Waits' = Waits
  <1>1. ready_queue_' \in Seq(Handles) /\ ToSet(ready_queue_') = ToSet(ready_queue_) \union {i}
    BY QueuePush DEF Data, QueueTypes
  <1>2. QueueTypes'
    BY <1>1 DEF Data, QueueTypes, OwnState
  <1>3. OwnState'
    BY <1>1 DEF Data, OwnState, QueueTypes
  <1>4. OncePlaced'
    BY <1>1 DEF Data, OncePlaced, Waiting, Apart
  <1>5. AllGiven'
    BY <1>1 DEF Data, AllGiven, Waiting, QueueTypes
  <1>6. TimeoutsTracked'
    BY <1>1 DEF Data, TimeoutsTracked, OncePlaced, Apart, QueueTypes
  <1>7. Waits' = Waits
    BY <1>1 DEF Waits, Waiting
  <1> QED
    BY <1>2, <1>3, <1>4, <1>5, <1>6, <1>7 DEF Data

(* Post() puts a callback at the end of its queue. *)
LEMMA CallbackGiven ==
  ASSUME Data, NEW i \in Callbacks,
         i \notin given,
         callback_queue_' = Append(callback_queue_, i),
         given' = given \union {i},
         UNCHANGED <<kind, ready_queue_, timer_queue_, ready, callbacks,
                     arming, completed, batch, due, sq, armed,
                     pending_timeouts_>>
  PROVE  Data' /\ Waits' = Waits
  <1>1. /\ callback_queue_' \in Seq(Callbacks)
        /\ ToSet(callback_queue_') = ToSet(callback_queue_) \union {i}
    BY QueuePush DEF Data, QueueTypes
  <1>2. QueueTypes'
    BY <1>1 DEF Data, QueueTypes, OwnState
  <1>3. OwnState'
    BY <1>1 DEF Data, OwnState, QueueTypes
  <1>4. OncePlaced'
    BY <1>1 DEF Data, OncePlaced, Waiting, Apart
  <1>5. AllGiven'
    BY <1>1 DEF Data, AllGiven, Waiting, QueueTypes
  <1>6. TimeoutsTracked'
    BY <1>1 DEF Data, TimeoutsTracked, OncePlaced, Apart, QueueTypes
  <1>7. Waits' = Waits
    BY <1>1 DEF Waits, Waiting
  <1> QED
    BY <1>2, <1>3, <1>4, <1>5, <1>6, <1>7 DEF Data

(* ScheduleAfter() of the loops that arm timers themselves. *)
LEMMA TimerRequested ==
  ASSUME Data, NEW i \in Delayed,
         i \notin given,
         kind # "polling",
         timer_queue_' = Append(timer_queue_, i),
         given' = given \union {i},
         UNCHANGED <<kind, ready_queue_, callback_queue_, ready, callbacks,
                     arming, completed, batch, due, sq, armed,
                     pending_timeouts_>>
  PROVE  Data' /\ Waits' = Waits \union {i}
  <1>1. i \notin Waiting
    BY EventLoopAssumption, IoUringAssumption DEF Data, AllGiven
  <1>2. /\ timer_queue_' \in Seq(Delayed)
        /\ ToSet(timer_queue_') = ToSet(timer_queue_) \union {i}
        /\ IsInjective(timer_queue_')
    BY <1>1, QueuePush DEF Data, QueueTypes, OncePlaced, Waiting
  <1>3. QueueTypes'
    BY <1>1, <1>2 DEF Data, QueueTypes, OwnState
  <1>4. OwnState'
    BY <1>1, <1>2 DEF Data, OwnState, QueueTypes
  <1>5. OncePlaced'
    BY <1>1, <1>2 DEF Data, OncePlaced, Waiting, Apart
  <1>6. AllGiven'
    BY <1>1, <1>2 DEF Data, AllGiven, Waiting, QueueTypes
  <1>7. TimeoutsTracked'
    BY <1>1, <1>2 DEF Data, TimeoutsTracked, OncePlaced, Apart, QueueTypes
  <1>8. Waits' = Waits \union {i}
    BY <1>1, <1>2 DEF Waits, Waiting, Wait
  <1> QED
    BY <1>3, <1>4, <1>5, <1>6, <1>7, <1>8 DEF Data

(* PollingExecutor: the timer heap and the source hold one more. *)
LEMMA WaitStarted ==
  ASSUME Data, NEW i \in Wait,
         i \notin given,
         kind # "uring",
         armed' = armed \union {i},
         given' = given \union {i},
         UNCHANGED <<kind, ready_queue_, callback_queue_, timer_queue_, ready,
                     callbacks, arming, completed, batch, due, sq,
                     pending_timeouts_>>
  PROVE  Data' /\ Waits' = Waits \union {i}
  <1>1. i \notin Waiting /\ i # Wakeup
    BY EventLoopAssumption, IoUringAssumption DEF Data, AllGiven, Wait
  <1>2. QueueTypes'
    BY <1>1 DEF Data, QueueTypes, OwnState
  <1>3. OwnState'
    BY <1>1 DEF Data, OwnState, QueueTypes
  <1>4. OncePlaced'
    BY <1>1 DEF Data, OncePlaced, Waiting, Apart
  <1>5. AllGiven'
    BY <1>1 DEF Data, AllGiven, Waiting, QueueTypes
  <1>6. TimeoutsTracked'
    BY <1>1 DEF Data, TimeoutsTracked, OncePlaced, Apart, QueueTypes
  <1>7. Waits' = Waits \union {i}
    BY <1>1 DEF Waits, Waiting, Wait
  <1> QED
    BY <1>2, <1>3, <1>4, <1>5, <1>6, <1>7 DEF Data

(* A timer expires, an operation or the read of the eventfd completes. *)
LEMMA WaitEnded ==
  ASSUME Data, NEW i \in armed,
         kind # "uring" => i \in Delayed,
         armed' = armed \ {i},
         due' = Append(due, i),
         UNCHANGED <<kind, ready_queue_, callback_queue_, timer_queue_, ready,
                     callbacks, arming, completed, batch, sq, given,
                     pending_timeouts_>>
  PROVE  Data' /\ Waits' = Waits
  <1>1. i \in Wait \union {Wakeup} /\ i \notin ToSet(due)
    BY DEF Data, QueueTypes, OncePlaced, Apart
  <1>2. /\ due' \in Seq(Wait \union {Wakeup}) /\ IsInjective(due')
        /\ ToSet(due') = ToSet(due) \union {i}
    BY <1>1, QueuePush DEF Data, QueueTypes, OncePlaced
  <1>3. kind # "uring" => due' \in Seq(Delayed)
    BY QueuePush DEF Data, OwnState
  <1>4. QueueTypes'
    BY <1>1, <1>2, <1>3 DEF Data, QueueTypes, OwnState
  <1>5. OwnState'
    BY <1>1, <1>2, <1>3 DEF Data, OwnState, QueueTypes
  <1>6. OncePlaced'
    BY <1>1, <1>2, <1>3 DEF Data, OncePlaced, Waiting, Apart
  <1>7. AllGiven'
    BY <1>1, <1>2, <1>3 DEF Data, AllGiven, Waiting, QueueTypes
  <1>8. TimeoutsTracked'
    BY <1>1, <1>2, <1>3 DEF Data, TimeoutsTracked, OncePlaced, Apart, QueueTypes
  <1>9. Waits' = Waits
    BY <1>1, <1>2, <1>3 DEF Waits, Waiting
  <1> QED
    BY <1>4, <1>5, <1>6, <1>7, <1>8, <1>9 DEF Data

(* PollingExecutor: the source has one more to report. *)
LEMMA SourceReports ==
  ASSUME Data, NEW i \in armed,
         i \in Io,
         kind = "polling",
         armed' = armed \ {i},
         completed' = Append(completed, i),
         UNCHANGED <<kind, ready_queue_, callback_queue_, timer_queue_, ready,
                     callbacks, arming, batch, due, sq, given,
                     pending_timeouts_>>
  PROVE  Data' /\ Waits' = Waits
  <1>1. i \notin ToSet(completed)
    BY DEF Data, OncePlaced, Apart
  <1>2. /\ completed' \in Seq(Io) /\ IsInjective(completed')
        /\ ToSet(completed') = ToSet(completed) \union {i}
    BY <1>1, QueuePush DEF Data, QueueTypes, OncePlaced
  <1>3. QueueTypes'
    BY <1>1, <1>2 DEF Data, QueueTypes, OwnState
  <1>4. OwnState'
    BY <1>1, <1>2 DEF Data, OwnState, QueueTypes
  <1>5. OncePlaced'
    BY <1>1, <1>2 DEF Data, OncePlaced, Waiting, Apart
  <1>6. AllGiven'
    BY <1>1, <1>2 DEF Data, AllGiven, Waiting, QueueTypes
  <1>7. TimeoutsTracked'
    BY <1>1, <1>2 DEF Data, TimeoutsTracked, OncePlaced, Apart, QueueTypes
  <1>8. Waits' = Waits
    BY <1>1, <1>2 DEF Waits, Waiting
  <1> QED
    BY <1>3, <1>4, <1>5, <1>6, <1>7, <1>8 DEF Data

(* The loop resumes what waited longest in its batch. *)
LEMMA WaitResumed ==
  ASSUME Data,
         batch # <<>>,
         batch' = Tail(batch),
         UNCHANGED <<kind, ready_queue_, callback_queue_, timer_queue_, ready,
                     callbacks, arming, completed, due, sq, armed, given,
                     pending_timeouts_>>
  PROVE  Data' /\ Head(batch) \in Waits /\ Waits' = Waits \ {Head(batch)}
  <1>1. /\ batch' \in Seq(Wait) /\ IsInjective(batch')
        /\ ToSet(batch') \subseteq ToSet(batch)
    BY QueuePop DEF Data, QueueTypes, OncePlaced
  <1>2. QueueTypes'
    BY <1>1 DEF Data, QueueTypes, OwnState
  <1>3. OwnState'
    BY <1>1 DEF Data, OwnState, QueueTypes
  <1>4. OncePlaced'
    BY <1>1 DEF Data, OncePlaced, Waiting, Apart
  <1>5. AllGiven'
    BY <1>1 DEF Data, AllGiven, Waiting, QueueTypes
  <1>6. TimeoutsTracked'
    BY <1>1 DEF Data, TimeoutsTracked, OncePlaced, Apart, QueueTypes
  <1>7. Head(batch) \in Waits /\ Waits' = Waits \ {Head(batch)}
    <2>1. /\ ToSet(batch) = ToSet(batch') \union {Head(batch)} /\ Head(batch) \in Wait
          /\ Head(batch) \notin ToSet(batch')
      BY QueuePop DEF Data, QueueTypes, OncePlaced
    <2> QED
      BY <2>1 DEF Waits, Waiting, Data, OncePlaced, Apart
  <1> QED
    BY <1>2, <1>3, <1>4, <1>5, <1>6, <1>7 DEF Data

(* The loop resumes the next handle of its copy. *)
LEMMA HandleResumed ==
  ASSUME Data,
         ready # <<>>,
         ready' = Tail(ready),
         UNCHANGED <<kind, ready_queue_, callback_queue_, timer_queue_,
                     callbacks, arming, completed, batch, due, sq, armed,
                     given, pending_timeouts_>>
  PROVE  Data' /\ Waits' = Waits
  <1>1. ready' \in Seq(Handles) /\ ToSet(ready') \subseteq ToSet(ready)
    BY QueuePop DEF Data, QueueTypes
  <1>2. QueueTypes'
    BY <1>1 DEF Data, QueueTypes, OwnState
  <1>3. OwnState'
    BY <1>1 DEF Data, OwnState, QueueTypes
  <1>4. OncePlaced'
    BY <1>1 DEF Data, OncePlaced, Waiting, Apart
  <1>5. AllGiven'
    BY <1>1 DEF Data, AllGiven, Waiting, QueueTypes
  <1>6. TimeoutsTracked'
    BY <1>1 DEF Data, TimeoutsTracked, OncePlaced, Apart, QueueTypes
  <1>7. Waits' = Waits
    BY <1>1 DEF Waits, Waiting
  <1> QED
    BY <1>2, <1>3, <1>4, <1>5, <1>6, <1>7 DEF Data

(* The loop calls the next callback of its copy. *)
LEMMA CallbackCalled ==
  ASSUME Data,
         callbacks # <<>>,
         callbacks' = Tail(callbacks),
         UNCHANGED <<kind, ready_queue_, callback_queue_, timer_queue_, ready,
                     arming, completed, batch, due, sq, armed, given,
                     pending_timeouts_>>
  PROVE  Data' /\ Waits' = Waits
  <1>1. callbacks' \in Seq(Callbacks) /\ ToSet(callbacks') \subseteq ToSet(callbacks)
    BY QueuePop DEF Data, QueueTypes
  <1>2. QueueTypes'
    BY <1>1 DEF Data, QueueTypes, OwnState
  <1>3. OwnState'
    BY <1>1 DEF Data, OwnState, QueueTypes
  <1>4. OncePlaced'
    BY <1>1 DEF Data, OncePlaced, Waiting, Apart
  <1>5. AllGiven'
    BY <1>1 DEF Data, AllGiven, Waiting, QueueTypes
  <1>6. TimeoutsTracked'
    BY <1>1 DEF Data, TimeoutsTracked, OncePlaced, Apart, QueueTypes
  <1>7. Waits' = Waits
    BY <1>1 DEF Waits, Waiting
  <1> QED
    BY <1>2, <1>3, <1>4, <1>5, <1>6, <1>7 DEF Data

(* ProcessReadyQueue() takes the three queues. *)
LEMMA QueuesSwapped ==
  ASSUME Data,
         arming = <<>>,
         ready' = ready_queue_,
         ready_queue_' = <<>>,
         callbacks' = callback_queue_,
         callback_queue_' = <<>>,
         arming' = timer_queue_,
         timer_queue_' = <<>>,
         UNCHANGED <<kind, completed, batch, due, sq, armed, given,
                     pending_timeouts_>>
  PROVE  Data' /\ Waits' = Waits
  <1>1. ToSet(<<>>) = {} /\ IsInjective(<<>>)
    BY DEF ToSet, IsInjective
  <1>2. QueueTypes'
    BY <1>1 DEF Data, QueueTypes, OwnState
  <1>3. OwnState'
    BY <1>1 DEF Data, OwnState, QueueTypes
  <1>4. OncePlaced'
    BY <1>1 DEF Data, OncePlaced, Waiting, Apart
  <1>5. AllGiven'
    BY <1>1 DEF Data, AllGiven, Waiting, QueueTypes
  <1>6. TimeoutsTracked'
    BY <1>1 DEF Data, TimeoutsTracked, OncePlaced, Apart, QueueTypes
  <1>7. Waits' = Waits
    BY <1>1 DEF Waits, Waiting
  <1> QED
    BY <1>2, <1>3, <1>4, <1>5, <1>6, <1>7 DEF Data

(* Poll() takes at most batch_size completions. *)
LEMMA SourcePolled ==
  ASSUME Data, NEW n \in 0 .. Len(completed),
         kind = "polling",
         batch = <<>>,
         batch' = SubSeq(completed, 1, n),
         completed' = SubSeq(completed, n + 1, Len(completed)),
         UNCHANGED <<kind, ready_queue_, callback_queue_, timer_queue_, ready,
                     callbacks, arming, due, sq, armed, given,
                     pending_timeouts_>>
  PROVE  Data' /\ Waits' = Waits
  <1>1. /\ batch' \in Seq(Io) /\ completed' \in Seq(Io)
        /\ ToSet(completed) = ToSet(batch') \union ToSet(completed')
        /\ IsInjective(batch') /\ IsInjective(completed')
        /\ ToSet(batch') \intersect ToSet(completed') = {}
    BY QueueCut DEF Data, QueueTypes, OncePlaced
  <1>2. batch' \in Seq(Wait)
    BY <1>1 DEF Wait
  <1>3. QueueTypes'
    BY <1>1, <1>2 DEF Data, QueueTypes, OwnState
  <1>4. OwnState'
    BY <1>1, <1>2 DEF Data, OwnState, QueueTypes
  <1>5. OncePlaced'
    BY <1>1, <1>2 DEF Data, OncePlaced, Waiting, Apart
  <1>6. AllGiven'
    BY <1>1, <1>2 DEF Data, AllGiven, Waiting, QueueTypes
  <1>7. TimeoutsTracked'
    BY <1>1, <1>2 DEF Data, TimeoutsTracked, OncePlaced, Apart, QueueTypes
  <1>8. Waits' = Waits
    <2>1. ToSet(<<>>) = {}
      BY DEF ToSet
    <2> QED
      BY <1>1, <1>2, <2>1 DEF Waits, Waiting
  <1> QED
    BY <1>3, <1>4, <1>5, <1>6, <1>7, <1>8 DEF Data

(* ProcessTimers(), OnTimer(): the expired timers are to be resumed. *)
LEMMA TimersFired ==
  ASSUME Data,
         kind # "uring",
         batch = <<>>,
         batch' = due,
         due' = <<>>,
         UNCHANGED <<kind, ready_queue_, callback_queue_, timer_queue_, ready,
                     callbacks, arming, completed, sq, armed, given,
                     pending_timeouts_>>
  PROVE  Data' /\ Waits' = Waits
  <1>1. ToSet(<<>>) = {} /\ IsInjective(<<>>)
    BY DEF ToSet, IsInjective
  <1>2. batch' \in Seq(Wait)
    BY DEF Data, OwnState, Wait
  <1>3. QueueTypes'
    BY <1>1, <1>2 DEF Data, QueueTypes, OwnState
  <1>4. OwnState'
    BY <1>1, <1>2 DEF Data, OwnState, QueueTypes
  <1>5. OncePlaced'
    BY <1>1, <1>2 DEF Data, OncePlaced, Waiting, Apart
  <1>6. AllGiven'
    BY <1>1, <1>2 DEF Data, AllGiven, Waiting, QueueTypes
  <1>7. TimeoutsTracked'
    BY <1>1, <1>2 DEF Data, TimeoutsTracked, OncePlaced, Apart, QueueTypes
  <1>8. Waits' = Waits
    BY <1>1, <1>2 DEF Waits, Waiting
  <1> QED
    BY <1>3, <1>4, <1>5, <1>6, <1>7, <1>8 DEF Data

(* LibuvExecutor arms a requested timer. *)
LEMMA TimerArmed ==
  ASSUME Data,
         kind = "libuv",
         arming # <<>>,
         arming' = Tail(arming),
         armed' = armed \union {Head(arming)},
         UNCHANGED <<kind, ready_queue_, callback_queue_, timer_queue_, ready,
                     callbacks, completed, batch, due, sq, given,
                     pending_timeouts_>>
  PROVE  Data' /\ Waits' = Waits
  <1>1. /\ arming' \in Seq(Delayed) /\ IsInjective(arming') /\ Head(arming) \in Delayed
        /\ ToSet(arming) = ToSet(arming') \union {Head(arming)}
        /\ Head(arming) \notin ToSet(arming')
    BY QueuePop DEF Data, QueueTypes, OncePlaced
  <1>2. Head(arming) # Wakeup /\ Head(arming) \in Wait
    BY <1>1, IoUringAssumption DEF Wait
  <1>3. QueueTypes'
    BY <1>1, <1>2 DEF Data, QueueTypes, OwnState
  <1>4. OwnState'
    BY <1>1, <1>2 DEF Data, OwnState, QueueTypes
  <1>5. OncePlaced'
    BY <1>1, <1>2 DEF Data, OncePlaced, Waiting, Apart
  <1>6. AllGiven'
    BY <1>1, <1>2 DEF Data, AllGiven, Waiting, QueueTypes
  <1>7. TimeoutsTracked'
    BY <1>1, <1>2 DEF Data, TimeoutsTracked, OncePlaced, Apart, QueueTypes
  <1>8. Waits' = Waits
    BY <1>1, <1>2 DEF Waits, Waiting
  <1> QED
    BY <1>3, <1>4, <1>5, <1>6, <1>7, <1>8 DEF Data

(* A timer that cannot be armed is resumed at once. *)
LEMMA TimerResumed ==
  ASSUME Data,
         kind # "polling",
         batch = <<>>,
         arming # <<>>,
         arming' = Tail(arming),
         batch' = <<Head(arming)>>,
         UNCHANGED <<kind, ready_queue_, callback_queue_, timer_queue_, ready,
                     callbacks, completed, due, sq, armed, given,
                     pending_timeouts_>>
  PROVE  Data' /\ Waits' = Waits
  <1>1. /\ arming' \in Seq(Delayed) /\ IsInjective(arming') /\ Head(arming) \in Delayed
        /\ ToSet(arming) = ToSet(arming') \union {Head(arming)}
        /\ Head(arming) \notin ToSet(arming')
    BY QueuePop DEF Data, QueueTypes, OncePlaced
  <1>2. batch' \in Seq(Wait) /\ IsInjective(batch') /\ ToSet(batch') = {Head(arming)}
    BY <1>1, QueueSmall DEF Wait
  <1>3. QueueTypes'
    BY <1>1, <1>2 DEF Data, QueueTypes, OwnState
  <1>4. OwnState'
    BY <1>1, <1>2 DEF Data, OwnState, QueueTypes
  <1>5. OncePlaced'
    BY <1>1, <1>2 DEF Data, OncePlaced, Waiting, Apart
  <1>6. AllGiven'
    BY <1>1, <1>2 DEF Data, AllGiven, Waiting, QueueTypes
  <1>7. TimeoutsTracked'
    BY <1>1, <1>2 DEF Data, TimeoutsTracked, OncePlaced, Apart, QueueTypes
  <1>8. Waits' = Waits
    <2>1. ToSet(<<>>) = {}
      BY DEF ToSet
    <2> QED
      BY <1>1, <1>2, <2>1 DEF Waits, Waiting
  <1> QED
    BY <1>3, <1>4, <1>5, <1>6, <1>7, <1>8 DEF Data

(* IoUringExecutor puts a timeout into the submission queue. *)
LEMMA TimeoutPrepared ==
  ASSUME Data,
         kind = "uring",
         arming # <<>>,
         arming' = Tail(arming),
         sq' = Append(sq, Head(arming)),
         pending_timeouts_' = pending_timeouts_ \union {Head(arming)},
         UNCHANGED <<kind, ready_queue_, callback_queue_, timer_queue_, ready,
                     callbacks, completed, batch, due, armed, given>>
  PROVE  Data' /\ Waits' = Waits
  <1>1. /\ arming' \in Seq(Delayed) /\ IsInjective(arming') /\ Head(arming) \in Delayed
        /\ ToSet(arming) = ToSet(arming') \union {Head(arming)}
        /\ Head(arming) \notin ToSet(arming')
    BY QueuePop DEF Data, QueueTypes, OncePlaced
  <1>2. Head(arming) \in Wait \union {Wakeup} /\ Head(arming) \notin ToSet(sq)
    BY <1>1 DEF Wait, Data, OncePlaced, Apart
  <1>3. /\ sq' \in Seq(Wait \union {Wakeup}) /\ IsInjective(sq')
        /\ ToSet(sq') = ToSet(sq) \union {Head(arming)}
    BY <1>2, QueuePush DEF Data, QueueTypes, OncePlaced
  <1>4. QueueTypes'
    BY <1>1, <1>2, <1>3 DEF Data, QueueTypes, OwnState
  <1>5. OwnState'
    BY <1>1, <1>2, <1>3 DEF Data, OwnState, QueueTypes
  <1>6. OncePlaced'
    BY <1>1, <1>2, <1>3 DEF Data, OncePlaced, Waiting, Apart
  <1>7. AllGiven'
    BY <1>1, <1>2, <1>3 DEF Data, AllGiven, Waiting, QueueTypes
  <1>8. TimeoutsTracked'
    BY <1>1, <1>2, <1>3 DEF Data, TimeoutsTracked, OncePlaced, Apart, QueueTypes
  <1>9. Waits' = Waits
    BY <1>1, <1>2, <1>3 DEF Waits, Waiting
  <1> QED
    BY <1>4, <1>5, <1>6, <1>7, <1>8, <1>9 DEF Data

(* io_uring_submit *)
LEMMA EntriesSubmitted ==
  ASSUME Data,
         kind = "uring",
         armed' = armed \union ToSet(sq),
         sq' = <<>>,
         UNCHANGED <<kind, ready_queue_, callback_queue_, timer_queue_, ready,
                     callbacks, arming, completed, batch, due, given,
                     pending_timeouts_>>
  PROVE  Data' /\ Waits' = Waits
  <1>1. ToSet(<<>>) = {} /\ IsInjective(<<>>)
    BY DEF ToSet, IsInjective
  <1>2. ToSet(sq) \subseteq Wait \union {Wakeup}
    BY DEF Data, QueueTypes, ToSet
  <1>3. QueueTypes'
    BY <1>1, <1>2 DEF Data, QueueTypes, OwnState
  <1>4. OwnState'
    BY <1>1, <1>2 DEF Data, OwnState, QueueTypes
  <1>5. OncePlaced'
    BY <1>1, <1>2 DEF Data, OncePlaced, Waiting, Apart
  <1>6. AllGiven'
    BY <1>1, <1>2 DEF Data, AllGiven, Waiting, QueueTypes
  <1>7. TimeoutsTracked'
    BY <1>1, <1>2 DEF Data, TimeoutsTracked, OncePlaced, Apart, QueueTypes
  <1>8. Waits' = Waits
    BY <1>1, <1>2 DEF Waits, Waiting
  <1> QED
    BY <1>3, <1>4, <1>5, <1>6, <1>7, <1>8 DEF Data

(* An operation is prepared and submitted with what the queue holds. *)
LEMMA OperationSubmitted ==
  ASSUME Data, NEW i \in Io,
         i \notin given,
         kind = "uring",
         armed' = armed \union {i} \union ToSet(sq),
         sq' = <<>>,
         given' = given \union {i},
         UNCHANGED <<kind, ready_queue_, callback_queue_, timer_queue_, ready,
                     callbacks, arming, completed, batch, due,
                     pending_timeouts_>>
  PROVE  Data' /\ Waits' = Waits \union {i}
  <1>1. ToSet(<<>>) = {} /\ IsInjective(<<>>)
    BY DEF ToSet, IsInjective
  <1>2. i \notin Waiting /\ i # Wakeup /\ i \in Wait /\ i \notin Delayed
    BY EventLoopAssumption, IoUringAssumption DEF Data, AllGiven, Wait
  <1>3. ToSet(sq) \subseteq Wait \union {Wakeup}
    BY DEF Data, QueueTypes, ToSet
  <1>4. QueueTypes'
    BY <1>1, <1>2, <1>3 DEF Data, QueueTypes, OwnState
  <1>5. OwnState'
    BY <1>1, <1>2, <1>3 DEF Data, OwnState, QueueTypes
  <1>6. OncePlaced'
    BY <1>1, <1>2, <1>3 DEF Data, OncePlaced, Waiting, Apart
  <1>7. AllGiven'
    BY <1>1, <1>2, <1>3 DEF Data, AllGiven, Waiting, QueueTypes
  <1>8. TimeoutsTracked'
    BY <1>1, <1>2, <1>3 DEF Data, TimeoutsTracked, OncePlaced, Apart, QueueTypes
  <1>9. Waits' = Waits \union {i}
    BY <1>1, <1>2, <1>3 DEF Waits, Waiting, Wait
  <1> QED
    BY <1>4, <1>5, <1>6, <1>7, <1>8, <1>9 DEF Data

(* An operation is prepared and not yet submitted. *)
LEMMA OperationPrepared ==
  ASSUME Data, NEW i \in Io,
         i \notin given,
         kind = "uring",
         sq' = Append(sq, i),
         given' = given \union {i},
         UNCHANGED <<kind, ready_queue_, callback_queue_, timer_queue_, ready,
                     callbacks, arming, completed, batch, due, armed,
                     pending_timeouts_>>
  PROVE  Data' /\ Waits' = Waits \union {i}
  <1>1. i \notin Waiting /\ i # Wakeup /\ i \in Wait /\ i \notin Delayed
    BY EventLoopAssumption, IoUringAssumption DEF Data, AllGiven, Wait
  <1>2. /\ sq' \in Seq(Wait \union {Wakeup}) /\ IsInjective(sq')
        /\ ToSet(sq') = ToSet(sq) \union {i}
    BY <1>1, QueuePush DEF Data, QueueTypes, OncePlaced, Waiting
  <1>3. QueueTypes'
    BY <1>1, <1>2 DEF Data, QueueTypes, OwnState
  <1>4. OwnState'
    BY <1>1, <1>2 DEF Data, OwnState, QueueTypes
  <1>5. OncePlaced'
    BY <1>1, <1>2 DEF Data, OncePlaced, Waiting, Apart
  <1>6. AllGiven'
    BY <1>1, <1>2 DEF Data, AllGiven, Waiting, QueueTypes
  <1>7. TimeoutsTracked'
    BY <1>1, <1>2 DEF Data, TimeoutsTracked, OncePlaced, Apart, QueueTypes
  <1>8. Waits' = Waits \union {i}
    BY <1>1, <1>2 DEF Waits, Waiting, Wait
  <1> QED
    BY <1>3, <1>4, <1>5, <1>6, <1>7, <1>8 DEF Data

(* SubmitWakeupRead(), after the read of the eventfd has completed. *)
LEMMA ReadRenewed ==
  ASSUME Data,
         kind = "uring",
         due # <<>>,
         due' = Tail(due),
         Head(due) = Wakeup,
         sq' = Append(sq, Wakeup),
         UNCHANGED <<kind, ready_queue_, callback_queue_, timer_queue_, ready,
                     callbacks, arming, completed, batch, armed, given,
                     pending_timeouts_>>
  PROVE  Data' /\ Waits' = Waits
  <1>1. /\ due' \in Seq(Wait \union {Wakeup}) /\ IsInjective(due')
        /\ ToSet(due) = ToSet(due') \union {Head(due)} /\ Head(due) \notin ToSet(due')
        /\ Head(due) \in Wait \union {Wakeup}
    BY QueuePop DEF Data, QueueTypes, OncePlaced
  <1>2. Wakeup \notin ToSet(sq) /\ Wakeup \notin Delayed
    BY <1>1, IoUringAssumption DEF Data, OncePlaced, Apart
  <1>3. /\ sq' \in Seq(Wait \union {Wakeup}) /\ IsInjective(sq')
        /\ ToSet(sq') = ToSet(sq) \union {Wakeup}
    BY <1>2, QueuePush DEF Data, QueueTypes, OncePlaced
  <1>4. QueueTypes'
    BY <1>1, <1>2, <1>3 DEF Data, QueueTypes, OwnState
  <1>5. OwnState'
    BY <1>1, <1>2, <1>3 DEF Data, OwnState, QueueTypes
  <1>6. OncePlaced'
    BY <1>1, <1>2, <1>3 DEF Data, OncePlaced, Waiting, Apart
  <1>7. AllGiven'
    BY <1>1, <1>2, <1>3 DEF Data, AllGiven, Waiting, QueueTypes
  <1>8. TimeoutsTracked'
    BY <1>1, <1>2, <1>3 DEF Data, TimeoutsTracked, OncePlaced, Apart, QueueTypes
  <1>9. Waits' = Waits
    BY <1>1, <1>2, <1>3, IoUringAssumption DEF Waits, Waiting, Wait
  <1> QED
    BY <1>4, <1>5, <1>6, <1>7, <1>8, <1>9 DEF Data

(* SubmitWakeupRead() finds the submission queue full. *)
LEMMA ReadLost ==
  ASSUME Data,
         kind = "uring",
         due # <<>>,
         due' = Tail(due),
         Head(due) = Wakeup,
         UNCHANGED <<kind, ready_queue_, callback_queue_, timer_queue_, ready,
                     callbacks, arming, completed, batch, sq, armed, given,
                     pending_timeouts_>>
  PROVE  Data' /\ Waits' = Waits
  <1>1. /\ due' \in Seq(Wait \union {Wakeup}) /\ IsInjective(due')
        /\ ToSet(due) = ToSet(due') \union {Head(due)} /\ Head(due) \notin ToSet(due')
        /\ Head(due) \in Wait \union {Wakeup}
    BY QueuePop DEF Data, QueueTypes, OncePlaced
  <1>2. Wakeup \notin Delayed
    BY IoUringAssumption
  <1>3. QueueTypes'
    BY <1>1, <1>2 DEF Data, QueueTypes, OwnState
  <1>4. OwnState'
    BY <1>1, <1>2 DEF Data, OwnState, QueueTypes
  <1>5. OncePlaced'
    BY <1>1, <1>2 DEF Data, OncePlaced, Waiting, Apart
  <1>6. AllGiven'
    BY <1>1, <1>2 DEF Data, AllGiven, Waiting, QueueTypes
  <1>7. TimeoutsTracked'
    BY <1>1, <1>2 DEF Data, TimeoutsTracked, OncePlaced, Apart, QueueTypes
  <1>8. Waits' = Waits
    BY <1>1, <1>2, IoUringAssumption DEF Waits, Waiting, Wait
  <1> QED
    BY <1>3, <1>4, <1>5, <1>6, <1>7, <1>8 DEF Data

(* ProcessCompletions() takes a timeout or an operation. *)
LEMMA CompletionTaken ==
  ASSUME Data,
         kind = "uring",
         batch = <<>>,
         due # <<>>,
         due' = Tail(due),
         Head(due) # Wakeup,
         batch' = <<Head(due)>>,
         pending_timeouts_' = pending_timeouts_ \ {Head(due)},
         UNCHANGED <<kind, ready_queue_, callback_queue_, timer_queue_, ready,
                     callbacks, arming, completed, sq, armed, given>>
  PROVE  Data' /\ Waits' = Waits
  <1>1. /\ due' \in Seq(Wait \union {Wakeup}) /\ IsInjective(due')
        /\ ToSet(due) = ToSet(due') \union {Head(due)} /\ Head(due) \notin ToSet(due')
        /\ Head(due) \in Wait \union {Wakeup}
    BY QueuePop DEF Data, QueueTypes, OncePlaced
  <1>2. batch' \in Seq(Wait) /\ IsInjective(batch') /\ ToSet(batch') = {Head(due)}
    BY <1>1, QueueSmall
  <1>3. QueueTypes'
    BY <1>1, <1>2 DEF Data, QueueTypes, OwnState
  <1>4. OwnState'
    BY <1>1, <1>2 DEF Data, OwnState, QueueTypes
  <1>5. OncePlaced'
    BY <1>1, <1>2 DEF Data, OncePlaced, Waiting, Apart
  <1>6. AllGiven'
    BY <1>1, <1>2 DEF Data, AllGiven, Waiting, QueueTypes
  <1>7. TimeoutsTracked'
    BY <1>1, <1>2 DEF Data, TimeoutsTracked, OncePlaced, Apart, QueueTypes
  <1>8. Waits' = Waits
    <2>1. ToSet(<<>>) = {}
      BY DEF ToSet
    <2> QED
      BY <1>1, <1>2, <2>1 DEF Waits, Waiting
  <1> QED
    BY <1>3, <1>4, <1>5, <1>6, <1>7, <1>8 DEF Data

(* The destructor of IoUringExecutor. *)
LEMMA RingDropped ==
  ASSUME Data,
         kind = "uring",
         due' = <<>>,
         sq' = <<>>,
         armed' = {},
         pending_timeouts_' = {},
         UNCHANGED <<kind, ready_queue_, callback_queue_, timer_queue_, ready,
                     callbacks, arming, completed, batch, given>>
  PROVE  Data'
  <1>1. ToSet(<<>>) = {} /\ IsInjective(<<>>)
    BY DEF ToSet, IsInjective
  <1>2. QueueTypes'
    BY <1>1 DEF Data, QueueTypes, OwnState
  <1>3. OwnState'
    BY <1>1 DEF Data, OwnState, QueueTypes
  <1>4. OncePlaced'
    BY <1>1 DEF Data, OncePlaced, Waiting, Apart
  <1>5. AllGiven'
    BY <1>1 DEF Data, AllGiven, Waiting, QueueTypes
  <1>6. TimeoutsTracked'
    BY <1>1 DEF Data, TimeoutsTracked, OncePlaced, Apart, QueueTypes
  <1> QED
    BY <1>2, <1>3, <1>4, <1>5, <1>6 DEF Data

-----------------------------------------------------------------------------
(* Schedule(), Post(), ScheduleAfter(): the loop's own state is untouched    *)
(* and a wakeup is under way.                                                *)
LEMMA PushControl ==
  ASSUME Inv, NEW t \in Thread, NEW i \in Item, Push(t, i),
         UNCHANGED <<kind, idle_active_, uring>>
  PROVE  /\ Control' /\ Quiet' /\ Waking' /\ i \notin given /\ given' = given \union {i}
         /\ kind = "uring" /\ UNCHANGED armed => UringWakeup'
         /\ kind = "libuv" => UvWakeup'
  <1> USE DEF Push, loop, copies, uring
  <1>1. upc' \in [Thread -> {"idle", "wake"}] /\ upc'[t] = "wake"
    BY DEF Inv, Control
  <1>2. i \notin given /\ given' = given \union {i}
    BY DEF Fresh
  <1>3. Control'
    BY <1>1, <1>2 DEF Inv, Control, Places
  <1>4. Quiet'
    BY DEF Inv, Quiet
  <1>5. Waking'
    BY <1>1 DEF Waking
  <1>6. kind = "libuv" => UvWakeup'
    BY <1>5 DEF Inv, UvWakeup
  <1>7. kind = "uring" /\ UNCHANGED armed => UringWakeup'
    BY <1>5 DEF Inv, UringWakeup
  <1> QED
    BY <1>2, <1>3, <1>4, <1>5, <1>6, <1>7

(* A timer expires or, for io_uring, an operation completes. *)
LEMMA CompleteStep ==
  ASSUME Inv, NEW i \in Wait, Complete(i), kind # "uring" => i \in Delayed,
         UNCHANGED <<kind, completed, idle_active_, uring>>
  PROVE  Inv'
  <1> USE DEF Complete, loop, copies, uring, queues
  <1>1. Data'
    BY WaitEnded DEF Inv
  <1>2. Control'
    BY DEF Inv, Control, Places
  <1>3. Quiet'
    BY DEF Inv, Quiet
  <1>4. UvWakeup'
    BY DEF Inv, UvWakeup, HasQueued, Waking
  <1>5. i # Wakeup
    BY IoUringAssumption DEF Wait
  <1>6. ToSet(due') = ToSet(due) \union {i}
    <2>1. due \in Seq(Wait \union {Wakeup}) /\ i \in Wait \union {Wakeup}
      BY DEF Inv, Data, QueueTypes
    <2> QED
      BY <2>1, QueuePush
  <1>7. UringWakeup'
    BY <1>5, <1>6 DEF Inv, UringWakeup, HasQueued, Waking
  <1> QED
    BY <1>1, <1>2, <1>3, <1>4, <1>7 DEF Inv

(* What the loops have in common. *)
LEMMA CommonStep ==
  ASSUME Inv, Common, UNCHANGED kind
  PROVE  Inv'
  <1> USE DEF Common, loop, copies, uring, queues
  <1>1. CASE \E t \in Thread : WakeUp(t)
    <2>1. PICK t \in Thread : WakeUp(t)
      BY <1>1
    <2> USE DEF WakeUp
    <2>2. Data'
      BY <2>1, NothingMoved DEF Inv, data
    <2>3. Control'
      BY <2>1 DEF Inv, Control, Places
    <2>4. Quiet'
      BY <2>1 DEF Inv, Quiet
    <2>5. UvWakeup'
      BY <2>1 DEF Inv, UvWakeup, HasQueued, Waking
    <2>6. UringWakeup'
      BY <2>1 DEF Inv, UringWakeup, HasQueued, Waking
    <2> QED
      BY <2>2, <2>3, <2>4, <2>5, <2>6 DEF Inv
  <1>2. CASE \E i \in Delayed : Complete(i)
    <2>1. PICK i \in Delayed : Complete(i)
      BY <1>2
    <2> QED
      BY <2>1, CompleteStep DEF Wait
  <1>3. CASE StartItem
    <2> USE <1>3 DEF StartItem
    <2>1. Data' /\ cur' \in Item /\ cur' \in given
      <3>1. CASE batch # <<>> /\ cur' = Head(batch) /\ batch' = Tail(batch) /\ UNCHANGED copies
        <4>1. Data'
          BY <3>1, WaitResumed DEF Inv
        <4>2. Head(batch) \in Wait /\ Head(batch) \in ToSet(batch)
          BY <3>1, QueuePop DEF Inv, Data, QueueTypes
        <4>3. Head(batch) # Wakeup /\ Head(batch) \in Item
          BY <4>2, IoUringAssumption DEF Wait, Item
        <4> QED
          BY <3>1, <4>1, <4>2, <4>3 DEF Inv, Data, AllGiven, Waiting
      <3>2. CASE /\ ready # <<>> /\ cur' = Head(ready) /\ ready' = Tail(ready)
                 /\ UNCHANGED <<batch, callbacks>>
        <4>1. Data'
          BY <3>2, HandleResumed DEF Inv
        <4>2. Head(ready) \in Handles /\ Head(ready) \in ToSet(ready)
          BY <3>2, QueuePop DEF Inv, Data, QueueTypes
        <4> QED
          BY <3>2, <4>1, <4>2 DEF Inv, Data, AllGiven, Item
      <3>3. CASE /\ callbacks # <<>> /\ cur' = Head(callbacks) /\ callbacks' = Tail(callbacks)
                 /\ UNCHANGED <<batch, ready>>
        <4>1. Data'
          BY <3>3, CallbackCalled DEF Inv
        <4>2. Head(callbacks) \in Callbacks /\ Head(callbacks) \in ToSet(callbacks)
          BY <3>3, QueuePop DEF Inv, Data, QueueTypes
        <4> QED
          BY <3>3, <4>1, <4>2 DEF Inv, Data, AllGiven, Item
      <3> QED
        BY <3>1, <3>2, <3>3
    <2>2. Control'
      BY <2>1 DEF Inv, Control, Places
    <2>3. Quiet'
      BY DEF Inv, Quiet
    <2>4. UvWakeup'
      BY DEF Inv, UvWakeup, HasQueued, Waking
    <2>5. UringWakeup'
      BY DEF Inv, UringWakeup, HasQueued, Waking
    <2> QED
      BY <2>1, <2>2, <2>3, <2>4, <2>5 DEF Inv
  <1>4. CASE EndItem
    <2> USE <1>4 DEF EndItem
    <2>1. Data'
      BY NothingMoved DEF Inv, data
    <2>2. Control'
      BY DEF Inv, Control, Places
    <2>3. Quiet'
      BY DEF Inv, Quiet
    <2>4. UvWakeup'
      BY DEF Inv, UvWakeup, HasQueued, Waking
    <2>5. UringWakeup'
      BY DEF Inv, UringWakeup, HasQueued, Waking
    <2> QED
      BY <2>1, <2>2, <2>3, <2>4, <2>5 DEF Inv
  <1> QED
    BY <1>1, <1>2, <1>3, <1>4

(* PollingExecutor. *)
LEMMA PollingStep ==
  ASSUME Inv, kind = "polling", PollingNext, UNCHANGED <<kind, idle_active_, uring>>
  PROVE  Inv'
  <1> USE DEF loop, copies, uring, queues
  <1>1. UvWakeup' /\ UringWakeup'
    BY DEF UvWakeup, UringWakeup
  <1>2. ASSUME NEW t \in Thread, NEW i \in Handles, PSchedule(t, i) PROVE Inv'
    <2>1. i \in Item
      BY DEF Item
    <2>2. Data'
      BY <1>2, <2>1, PushControl, HandleGiven DEF PSchedule, Push, Inv
    <2> QED
      BY <1>1, <1>2, <2>1, <2>2, PushControl DEF PSchedule, Inv
  <1>3. ASSUME NEW t \in Thread, NEW i \in Callbacks, PPost(t, i) PROVE Inv'
    <2>1. i \in Item
      BY DEF Item
    <2>2. Data'
      BY <1>3, <2>1, PushControl, CallbackGiven DEF PPost, Push, Inv
    <2> QED
      BY <1>1, <1>3, <2>1, <2>2, PushControl DEF PPost, Inv
  <1>4. ASSUME NEW t \in Thread, NEW i \in Delayed, PScheduleAfter(t, i) PROVE Inv'
    <2>1. i \in Item /\ i \in Wait
      BY DEF Item, Wait
    <2>2. Data'
      BY <1>4, <2>1, PushControl, WaitStarted DEF PScheduleAfter, Push, Inv
    <2> QED
      BY <1>1, <1>4, <2>1, <2>2, PushControl DEF PScheduleAfter, Inv
  <1>5. ASSUME NEW i \in Io, PStartIo(i) PROVE Inv'
    <2>1. i \in Item /\ i \in Wait
      BY DEF Item, Wait
    <2>2. Data'
      BY <1>5, <2>1, WaitStarted DEF PStartIo, Fresh, Inv
    <2>3. Control'
      BY <1>5, <2>1 DEF PStartIo, Inv, Control, Places
    <2>4. Quiet'
      BY <1>5 DEF PStartIo, Inv, Quiet
    <2> QED
      BY <1>1, <2>2, <2>3, <2>4 DEF Inv
  <1>6. ASSUME NEW i \in Io, PComplete(i) PROVE Inv'
    <2>1. Data'
      BY <1>6, SourceReports DEF PComplete, Inv
    <2>2. Control'
      BY <1>6 DEF PComplete, Inv, Control, Places
    <2>3. Quiet'
      BY <1>6 DEF PComplete, Inv, Quiet
    <2> QED
      BY <1>1, <2>1, <2>2, <2>3 DEF Inv
  <1>7. CASE PPoll
    <2> DEFINE n == IF Len(completed) < BatchSize THEN Len(completed) ELSE BatchSize
    <2>1. n \in 0 .. Len(completed)
      BY PollingAssumption DEF Inv, Data, QueueTypes
    <2>2. Data'
      BY <1>7, <2>1, SourcePolled DEF PPoll, Between, Inv
    <2>3. Control'
      BY <1>7 DEF PPoll, Inv, Control, Places
    <2>4. Quiet'
      BY <1>7 DEF PPoll, Inv, Data, OwnState, Quiet
    <2> QED
      BY <1>1, <2>2, <2>3, <2>4 DEF Inv
  <1>8. CASE PTimers
    <2>1. Data'
      BY <1>8, TimersFired DEF PTimers, Between, Inv
    <2>2. Control'
      BY <1>8 DEF PTimers, Inv, Control, Places
    <2>3. Quiet'
      BY <1>8 DEF PTimers, Inv, Data, OwnState, Quiet
    <2> QED
      BY <1>1, <2>1, <2>2, <2>3 DEF Inv
  <1>9. CASE PReady
    <2> USE <1>9 DEF PReady, SwapQueues, Between
    <2>1. Data'
      BY QueuesSwapped DEF Inv, Data, OwnState
    <2>2. Control'
      BY DEF Inv, Control, Places
    <2>3. Quiet'
      BY DEF Inv, Data, OwnState, Quiet
    <2> QED
      BY <1>1, <2>1, <2>2, <2>3 DEF Inv
  <1>10. ASSUME NEW t \in Thread, PStop(t) PROVE Inv'
    <2> USE <1>10 DEF PStop
    <2>1. Data'
      BY NothingMoved DEF Inv, data
    <2>2. Control'
      BY DEF Inv, Control, Places
    <2>3. Quiet'
      BY DEF Inv, Quiet
    <2> QED
      BY <1>1, <2>1, <2>2, <2>3 DEF Inv
  <1>11. CASE PRun
    <2> USE <1>11 DEF PRun
    <2>1. Data'
      BY NothingMoved DEF Inv, data
    <2>2. Control'
      BY DEF Inv, Control, Places
    <2>3. Quiet'
      BY DEF Inv, Quiet
    <2> QED
      BY <1>1, <2>1, <2>2, <2>3 DEF Inv
  <1>12. CASE PRunOnce
    <2> USE <1>12 DEF PRunOnce
    <2>1. Data'
      BY NothingMoved DEF Inv, data
    <2>2. Control'
      BY DEF Inv, Control, Places
    <2>3. Quiet'
      BY DEF Inv, Quiet
    <2> QED
      BY <1>1, <2>1, <2>2, <2>3 DEF Inv
  <1>13. CASE PTest
    <2> USE <1>13 DEF PTest, Goto, Between
    <2>1. Data'
      BY NothingMoved DEF Inv, data
    <2>2. Control'
      BY DEF Inv, Control, Places
    <2>3. Quiet'
      BY DEF Inv, Quiet
    <2> QED
      BY <1>1, <2>1, <2>2, <2>3 DEF Inv
  <1>14. CASE PDrain
    <2> USE <1>14 DEF PDrain, Between
    <2>1. Data'
      BY NothingMoved DEF Inv, data
    <2>2. Control'
      BY DEF Inv, Control, Places
    <2>3. Quiet'
      BY DEF Inv, Quiet
    <2> QED
      BY <1>1, <2>1, <2>2, <2>3 DEF Inv
  <1>15. CASE PDestroy
    <2> USE <1>15 DEF PDestroy, Goto, Between
    <2>1. Data'
      BY NothingMoved DEF Inv, data
    <2>2. Control'
      BY DEF Inv, Control, Places
    <2>3. Quiet'
      BY DEF Inv, Quiet
    <2> QED
      BY <1>1, <2>1, <2>2, <2>3 DEF Inv
  <1> QED
    BY <1>2, <1>3, <1>4, <1>5, <1>6, <1>7, <1>8, <1>9, <1>10, <1>11, <1>12, <1>13, <1>14, <1>15
    DEF PollingNext, PollingCall, PollingLoop, PSchedule, PPost, PScheduleAfter

(* Whether the loop has anything queued. *)
LEMMA QueuedEmpty == Data => (Queued # <<>> <=> HasQueued)
  <1> SUFFICES ASSUME Data PROVE Queued # <<>> <=> HasQueued
    OBVIOUS
  <1>1. /\ ready_queue_ \in Seq(Item) /\ callback_queue_ \in Seq(Item)
        /\ timer_queue_ \in Seq(Item)
    BY DEF Data, QueueTypes, Item, Wait
  <1>2. \A q, r \in Seq(Item) : q \o r \in Seq(Item) /\ (q \o r = <<>> <=> q = <<>> /\ r = <<>>)
    OBVIOUS
  <1> QED
    BY <1>1, <1>2 DEF Queued, HasQueued

(* LibuvExecutor: what is queued keeps the idle handle active or a wakeup  *)
(* under way, and the loop blocks only without an active idle handle.      *)
LEMMA LibuvStep ==
  ASSUME Inv, kind = "libuv", LibuvNext, UNCHANGED <<kind, completed, uring>>
  PROVE  Inv'
  <1> USE DEF loop, copies, uring, queues
  <1>1. UringWakeup'
    BY DEF UringWakeup
  <1>2. ASSUME NEW t \in Thread, NEW i \in Handles, LSchedule(t, i) PROVE Inv'
    <2>1. i \in Item
      BY DEF Item
    <2>2. Data'
      BY <1>2, <2>1, PushControl, HandleGiven DEF LSchedule, Push, Inv
    <2> QED
      BY <1>1, <1>2, <2>1, <2>2, PushControl DEF LSchedule, Inv
  <1>3. ASSUME NEW t \in Thread, NEW i \in Callbacks, LPost(t, i) PROVE Inv'
    <2>1. i \in Item
      BY DEF Item
    <2>2. Data'
      BY <1>3, <2>1, PushControl, CallbackGiven DEF LPost, Push, Inv
    <2> QED
      BY <1>1, <1>3, <2>1, <2>2, PushControl DEF LPost, Inv
  <1>4. ASSUME NEW t \in Thread, NEW i \in Delayed, LScheduleAfter(t, i) PROVE Inv'
    <2>1. i \in Item
      BY DEF Item, Wait
    <2>2. Data'
      BY <1>4, <2>1, PushControl, TimerRequested DEF LScheduleAfter, Push, Inv
    <2> QED
      BY <1>1, <1>4, <2>1, <2>2, PushControl DEF LScheduleAfter, Inv
  <1>5. CASE LTimers
    <2> USE <1>5 DEF LTimers, Between
    <2>1. Data'
      BY TimersFired DEF Inv
    <2>2. Control'
      BY DEF Inv, Control, Places
    <2>3. Quiet'
      BY DEF Inv, Quiet
    <2>4. UvWakeup'
      BY DEF Inv, UvWakeup, HasQueued, Waking
    <2> QED
      BY <1>1, <2>1, <2>2, <2>3, <2>4 DEF Inv
  <1>6. CASE idle_active_ /\ Between("idle") /\ SwapQueues("arm") /\ UNCHANGED idle_active_
    <2> USE <1>6 DEF SwapQueues, Between
    <2>1. Data'
      BY QueuesSwapped DEF Inv, Quiet
    <2>2. Control'
      BY DEF Inv, Control, Places
    <2>3. Quiet'
      BY DEF Inv, Quiet
    <2>4. UvWakeup'
      BY DEF UvWakeup, HasQueued
    <2> QED
      BY <1>1, <2>1, <2>2, <2>3, <2>4 DEF Inv
  <1>7. CASE LArm
    <2> USE <1>7 DEF LArm, Between
    <2>1. Data'
      BY TimerArmed, TimerResumed DEF Inv
    <2>2. Control'
      BY DEF Inv, Control, Places
    <2>3. Quiet'
      BY DEF Inv, Quiet
    <2>4. UvWakeup'
      BY DEF Inv, UvWakeup, HasQueued, Waking
    <2> QED
      BY <1>1, <2>1, <2>2, <2>3, <2>4 DEF Inv
  <1>8. CASE LIdleEnd
    <2> USE <1>8 DEF LIdleEnd, Goto, Between
    <2>1. Data'
      BY NothingMoved DEF Inv, data
    <2>2. Control'
      BY DEF Inv, Control, Places
    <2>3. Quiet'
      BY DEF Inv, Quiet
    <2>4. HasQueued <=> ready_queue_ \o callback_queue_ \o timer_queue_ # <<>>
      BY QueuedEmpty DEF Inv, HasQueued, Queued
    <2>5. UvWakeup'
      BY <2>4 DEF Inv, UvWakeup, HasQueued
    <2> QED
      BY <1>1, <2>1, <2>2, <2>3, <2>5 DEF Inv
  <1>9. ASSUME NEW t \in Thread, LStop(t) PROVE Inv'
    <2> USE <1>9 DEF LStop
    <2>1. Data'
      BY NothingMoved DEF Inv, data
    <2>2. Control'
      BY DEF Inv, Control, Places
    <2>3. Quiet'
      BY DEF Inv, Quiet
    <2>4. UvWakeup'
      BY DEF Inv, Control, UvWakeup, HasQueued, Waking
    <2> QED
      BY <1>1, <2>1, <2>2, <2>3, <2>4 DEF Inv
  <1>10. ASSUME NEW nowait \in BOOLEAN, LRun(nowait) PROVE Inv'
    <2> USE <1>10 DEF LRun
    <2>1. Data'
      BY NothingMoved DEF Inv, data
    <2>2. Control'
      BY DEF Inv, Control, Places
    <2>3. Quiet'
      BY DEF Inv, Quiet
    <2>4. UvWakeup'
      BY DEF Inv, Control, UvWakeup, HasQueued, Waking
    <2> QED
      BY <1>1, <2>1, <2>2, <2>3, <2>4 DEF Inv
  <1>11. CASE LTest
    <2> USE <1>11 DEF LTest, LReturn, Goto, Between
    <2>1. Data'
      BY NothingMoved DEF Inv, data
    <2>2. Control'
      BY DEF Inv, Control, Places
    <2>3. Quiet'
      BY DEF Inv, Quiet
    <2>4. UvWakeup'
      BY DEF Inv, Control, UvWakeup, HasQueued, Waking
    <2> QED
      BY <1>1, <2>1, <2>2, <2>3, <2>4 DEF Inv
  <1>12. CASE Goto("idle", "poll") /\ UNCHANGED idle_active_
    <2> USE <1>12 DEF Goto, Between
    <2>1. Data'
      BY NothingMoved DEF Inv, data
    <2>2. Control'
      BY DEF Inv, Control, Places
    <2>3. Quiet'
      BY DEF Inv, Quiet
    <2>4. UvWakeup'
      BY DEF Inv, Control, UvWakeup, HasQueued, Waking
    <2> QED
      BY <1>1, <2>1, <2>2, <2>3, <2>4 DEF Inv
  <1>13. CASE LPoll
    <2> USE <1>13 DEF LPoll, Goto, Between
    <2>1. Data'
      BY NothingMoved DEF Inv, data
    <2>2. Control'
      BY DEF Inv, Control, Places
    <2>3. Quiet'
      BY DEF Inv, Quiet
    <2>4. UvWakeup'
      BY DEF Inv, Control, UvWakeup, HasQueued, Waking
    <2> QED
      BY <1>1, <2>1, <2>2, <2>3, <2>4 DEF Inv
  <1>14. CASE LUnblock
    <2> USE <1>14 DEF LUnblock, Goto, Between
    <2>1. Data'
      BY NothingMoved DEF Inv, data
    <2>2. Control'
      BY DEF Inv, Control, Places
    <2>3. Quiet'
      BY DEF Inv, Quiet
    <2>4. UvWakeup'
      BY DEF Inv, Control, UvWakeup, HasQueued, Waking
    <2> QED
      BY <1>1, <2>1, <2>2, <2>3, <2>4 DEF Inv
  <1>15. CASE LAsync
    <2> USE <1>15 DEF LAsync, Between
    <2>1. Data'
      BY NothingMoved DEF Inv, data
    <2>2. Control'
      BY DEF Inv, Control, Places
    <2>3. Quiet'
      BY DEF Inv, Quiet
    <2>4. UvWakeup'
      BY DEF Inv, Control, UvWakeup, HasQueued, Waking
    <2> QED
      BY <1>1, <2>1, <2>2, <2>3, <2>4 DEF Inv
  <1>16. CASE LDestroy
    <2> USE <1>16 DEF LDestroy, Goto, Between
    <2>1. Data'
      BY NothingMoved DEF Inv, data
    <2>2. Control'
      BY DEF Inv, Control, Places
    <2>3. Quiet'
      BY DEF Inv, Quiet
    <2>4. UvWakeup'
      BY DEF Inv, Control, UvWakeup, HasQueued, Waking
    <2> QED
      BY <1>1, <2>1, <2>2, <2>3, <2>4 DEF Inv
  <1>17. CASE LDestroyed
    <2> USE <1>17 DEF LDestroyed, Goto, Between
    <2>1. Data'
      BY NothingMoved DEF Inv, data
    <2>2. Control'
      BY DEF Inv, Control, Places
    <2>3. Quiet'
      BY DEF Inv, Quiet
    <2>4. UvWakeup'
      BY DEF Inv, Control, UvWakeup, HasQueued, Waking
    <2> QED
      BY <1>1, <2>1, <2>2, <2>3, <2>4 DEF Inv
  <1> QED
    BY <1>2, <1>3, <1>4, <1>5, <1>6, <1>7, <1>8, <1>9, <1>10, <1>11, <1>12, <1>13, <1>14, <1>15, <1>16, <1>17
    DEF LibuvNext, LibuvCall, LibuvLoop, LIdle, LSchedule, LPost, LScheduleAfter

(* IoUringExecutor: a push or a Stop() is followed by a write to the       *)
(* eventfd, whose read is in the ring or about to be renewed by the loop   *)
(* thread before it looks at the queues and at stop_requested_ again.      *)
LEMMA IoUringStep ==
  ASSUME Inv, kind = "uring", IoUringNext, UNCHANGED <<kind, completed, idle_active_>>
  PROVE  Inv'
  <1> USE DEF loop, copies, uring, queues
  <1>1. UvWakeup'
    BY DEF UvWakeup
  <1>2. ASSUME NEW t \in Thread, NEW i \in Handles, USchedule(t, i) PROVE Inv'
    <2>1. i \in Item
      BY DEF Item
    <2>2. Data'
      BY <1>2, <2>1, PushControl, HandleGiven DEF USchedule, Push, Inv
    <2> QED
      BY <1>1, <1>2, <2>1, <2>2, PushControl DEF USchedule, Inv
  <1>3. ASSUME NEW t \in Thread, NEW i \in Callbacks, UPost(t, i) PROVE Inv'
    <2>1. i \in Item
      BY DEF Item
    <2>2. Data'
      BY <1>3, <2>1, PushControl, CallbackGiven DEF UPost, Push, Inv
    <2> QED
      BY <1>1, <1>3, <2>1, <2>2, PushControl DEF UPost, Inv
  <1>4. ASSUME NEW t \in Thread, NEW i \in Delayed, UScheduleAfter(t, i) PROVE Inv'
    <2>1. i \in Item
      BY DEF Item, Wait
    <2>2. Data'
      BY <1>4, <2>1, PushControl, TimerRequested DEF UScheduleAfter, Push, Inv
    <2> QED
      BY <1>1, <1>4, <2>1, <2>2, PushControl DEF UScheduleAfter, Inv
  <1>5. ASSUME NEW i \in Io, UComplete(i) PROVE Inv'
    BY <1>5, CompleteStep DEF UComplete, Wait
  <1>6. ASSUME NEW i \in Io, NEW submit \in BOOLEAN, UStartIo(i, submit) PROVE Inv'
    <2> USE <1>6 DEF UStartIo
    <2>1. i \in Item /\ i \in Wait /\ i \notin given
      BY DEF Item, Wait, Fresh
    <2>2. Data'
      BY <2>1, OperationSubmitted, OperationPrepared DEF Inv
    <2>3. Control'
      BY <2>1 DEF Inv, Control, Places
    <2>4. Quiet'
      BY DEF Inv, Quiet
    <2>5. lpc # "blocked"
      BY DEF CanCall, Inv, Quiet
    <2>6. armed \union ToSet(sq) \subseteq armed' \union ToSet(sq')
      <3>1. sq \in Seq(Wait \union {Wakeup}) /\ i \in Wait \union {Wakeup}
        BY <2>1 DEF Inv, Data, QueueTypes
      <3>2. ToSet(Append(sq, i)) = ToSet(sq) \union {i}
        BY <3>1, QueuePush
      <3> QED
        BY <3>2
    <2>7. UringWakeup'
      BY <2>5, <2>6 DEF Inv, UringWakeup, HasQueued, Waking
    <2> QED
      BY <1>1, <2>2, <2>3, <2>4, <2>7 DEF Inv
  <1>7. CASE USubmit
    <2> USE <1>7 DEF USubmit, Between
    <2>1. Data'
      BY EntriesSubmitted DEF Inv
    <2>2. Control'
      BY DEF Inv, Control, Places
    <2>3. Quiet'
      BY DEF Inv, Quiet
    <2>4. UringWakeup'
      BY DEF Inv, Control, UringWakeup, HasQueued, Waking
    <2> QED
      BY <1>1, <2>1, <2>2, <2>3, <2>4 DEF Inv
  <1>8. CASE CompleteWakeup
    <2> USE <1>8 DEF CompleteWakeup
    <2>1. Data'
      BY WaitEnded DEF Inv
    <2>2. Control'
      BY DEF Inv, Control, Places
    <2>3. Quiet'
      BY DEF Inv, Quiet
    <2>4. due \in Seq(Wait \union {Wakeup}) /\ Wakeup \in Wait \union {Wakeup}
      BY DEF Inv, Data, QueueTypes
    <2>5. Wakeup \in ToSet(due')
      BY <2>4, QueuePush
    <2>6. UringWakeup'
      BY <2>5 DEF Inv, UringWakeup
    <2> QED
      BY <1>1, <2>1, <2>2, <2>3, <2>6 DEF Inv
  <1>9. CASE /\ Between("cqe") /\ due # <<>> /\ due' = Tail(due)
             /\ \/ /\ Head(due) = Wakeup
                   /\ SubmitWakeupRead /\ UNCHANGED <<batch, pending_timeouts_>>
                \/ Head(due) # Wakeup /\ UCompletion(Head(due))
             /\ UNCHANGED <<queues, armed, stop_requested_, wake, upc, lpc, once, copies,
                            arming, cur, given, ran>>
    <2> USE <1>9 DEF Between
    <2>1. /\ ToSet(due) = ToSet(due') \union {Head(due)}
          /\ Quiet /\ due \in Seq(Wait \union {Wakeup}) /\ sq \in Seq(Wait \union {Wakeup})
      BY QueuePop DEF Inv, Data, QueueTypes
    <2>2. CASE Head(due) = Wakeup /\ sq' = Append(sq, Wakeup) /\ UNCHANGED <<unarmed, batch, pending_timeouts_>>
      <3>1. Data'
        BY <2>2, ReadRenewed DEF Inv
      <3>2. Control'
        BY <2>2 DEF Inv, Control, Places
      <3>3. Quiet'
        BY <2>1, <2>2 DEF Quiet
      <3>4. Wakeup \in Wait \union {Wakeup}
        OBVIOUS
      <3>5. Wakeup \in ToSet(sq')
        BY <2>1, <2>2, <3>4, QueuePush
      <3>6. UringWakeup'
        BY <2>2, <3>5 DEF UringWakeup
      <3> QED
        BY <1>1, <3>1, <3>2, <3>3, <3>6 DEF Inv
    <2>3. CASE Head(due) = Wakeup /\ unarmed' = TRUE /\ UNCHANGED <<sq, batch, pending_timeouts_>>
      <3>1. Data'
        BY <2>3, ReadLost DEF Inv
      <3>2. Control'
        BY <2>3 DEF Inv, Control, Places
      <3>3. Quiet'
        BY <2>1, <2>3 DEF Quiet
      <3>4. UringWakeup'
        BY <2>3 DEF UringWakeup
      <3> QED
        BY <1>1, <3>1, <3>2, <3>3, <3>4 DEF Inv
    <2>4. CASE Head(due) # Wakeup /\ UCompletion(Head(due))
      <3>1. Data'
        BY <2>4, CompletionTaken DEF UCompletion, Inv
      <3>2. Control'
        BY <2>4 DEF UCompletion, Inv, Control, Places
      <3>3. Quiet'
        BY <2>1, <2>4 DEF UCompletion, Quiet
      <3>4. UringWakeup'
        BY <2>1, <2>4 DEF UCompletion, Inv, UringWakeup
      <3> QED
        BY <1>1, <3>1, <3>2, <3>3, <3>4 DEF Inv
    <2> QED
      BY <2>2, <2>3, <2>4 DEF SubmitWakeupRead
  <1>10. CASE UReady
    <2> USE <1>10 DEF UReady, SwapQueues, Between
    <2>1. Data'
      BY QueuesSwapped DEF Inv, Quiet
    <2>2. Control'
      BY DEF Inv, Control, Places
    <2>3. Quiet'
      BY DEF Inv, Quiet
    <2>4. UringWakeup'
      BY DEF Inv, UringWakeup, HasQueued
    <2> QED
      BY <1>1, <2>1, <2>2, <2>3, <2>4 DEF Inv
  <1>11. CASE UArm
    <2> USE <1>11 DEF UArm, Between
    <2>1. Head(arming) \in Delayed
      BY QueuePop DEF Inv, Data, QueueTypes
    <2>2. Data'
      BY TimeoutPrepared, TimerResumed DEF Inv
    <2>3. Control'
      BY <2>1 DEF Inv, Control, Places
    <2>4. Quiet'
      BY DEF Inv, Quiet
    <2>5. sq \in Seq(Wait \union {Wakeup}) /\ Head(arming) \in Wait \union {Wakeup}
      BY <2>1 DEF Inv, Data, QueueTypes, Wait
    <2>6. ToSet(sq) \subseteq ToSet(sq')
      <3>1. ToSet(Append(sq, Head(arming))) = ToSet(sq) \union {Head(arming)}
        BY <2>5, QueuePush
      <3> QED
        BY <3>1
    <2>7. UringWakeup'
      BY <2>6 DEF Inv, UringWakeup, HasQueued, Waking
    <2> QED
      BY <1>1, <2>2, <2>3, <2>4, <2>7 DEF Inv
  <1>12. CASE UDestroy
    <2> USE <1>12 DEF UDestroy
    <2>1. Data'
      BY RingDropped DEF Inv
    <2>2. Control'
      BY DEF Inv, Control, Places
    <2>3. Quiet'
      BY DEF Inv, Quiet
    <2>4. UringWakeup'
      BY DEF UringWakeup
    <2> QED
      BY <1>1, <2>1, <2>2, <2>3, <2>4 DEF Inv
  <1>13. ASSUME NEW t \in Thread, UStop(t) PROVE Inv'
    <2> USE <1>13 DEF UStop
    <2>1. Data'
      BY NothingMoved DEF Inv, data
    <2>2. Control'
      BY DEF Inv, Control, Places
    <2>3. Quiet'
      BY DEF Inv, Quiet
    <2>4. UringWakeup'
      BY DEF Inv, Control, UringWakeup, HasQueued, Waking
    <2> QED
      BY <1>1, <2>1, <2>2, <2>3, <2>4 DEF Inv
  <1>14. CASE URun
    <2> USE <1>14 DEF URun
    <2>1. Data'
      BY NothingMoved DEF Inv, data
    <2>2. Control'
      BY DEF Inv, Control, Places
    <2>3. Quiet'
      BY DEF Inv, Quiet
    <2>4. UringWakeup'
      BY DEF Inv, Control, UringWakeup, HasQueued, Waking
    <2> QED
      BY <1>1, <2>1, <2>2, <2>3, <2>4 DEF Inv
  <1>15. CASE URunOnce
    <2> USE <1>15 DEF URunOnce
    <2>1. Data'
      BY NothingMoved DEF Inv, data
    <2>2. Control'
      BY DEF Inv, Control, Places
    <2>3. Quiet'
      BY DEF Inv, Quiet
    <2>4. UringWakeup'
      BY DEF Inv, Control, UringWakeup, HasQueued, Waking
    <2> QED
      BY <1>1, <2>1, <2>2, <2>3, <2>4 DEF Inv
  <1>16. CASE UTest
    <2> USE <1>16 DEF UTest, Goto, Between
    <2>1. Data'
      BY NothingMoved DEF Inv, data
    <2>2. Control'
      BY DEF Inv, Control, Places
    <2>3. Quiet'
      BY DEF Inv, Quiet
    <2>4. UringWakeup'
      BY DEF Inv, Control, UringWakeup, HasQueued, Waking
    <2> QED
      BY <1>1, <2>1, <2>2, <2>3, <2>4 DEF Inv
  <1>17. CASE UWait
    <2> USE <1>17 DEF UWait, Goto, Between
    <2>1. Data'
      BY NothingMoved DEF Inv, data
    <2>2. Control'
      BY DEF Inv, Control, Places
    <2>3. Quiet'
      BY DEF Inv, Quiet
    <2>4. UringWakeup'
      BY DEF Inv, Control, UringWakeup, HasQueued, Waking
    <2> QED
      BY <1>1, <2>1, <2>2, <2>3, <2>4 DEF Inv
  <1>18. CASE UInterrupted
    <2> USE <1>18 DEF UInterrupted, Goto, Between
    <2>1. Data'
      BY NothingMoved DEF Inv, data
    <2>2. Control'
      BY DEF Inv, Control, Places
    <2>3. Quiet'
      BY DEF Inv, Quiet
    <2>4. UringWakeup'
      BY DEF Inv, Control, UringWakeup, HasQueued, Waking
    <2> QED
      BY <1>1, <2>1, <2>2, <2>3, <2>4 DEF Inv
  <1>19. CASE due = <<>> /\ Goto("cqe", "ready") /\ UNCHANGED uring
    <2> USE <1>19 DEF Goto, Between
    <2>1. Data'
      BY NothingMoved DEF Inv, data
    <2>2. Control'
      BY DEF Inv, Control, Places
    <2>3. Quiet'
      BY DEF Inv, Quiet
    <2>4. UringWakeup'
      BY DEF Inv, Control, UringWakeup, HasQueued, Waking
    <2> QED
      BY <1>1, <2>1, <2>2, <2>3, <2>4 DEF Inv
  <1>20. CASE UArmed
    <2> USE <1>20 DEF UArmed, Goto, Between
    <2>1. Data'
      BY NothingMoved DEF Inv, data
    <2>2. Control'
      BY DEF Inv, Control, Places
    <2>3. Quiet'
      BY DEF Inv, Quiet
    <2>4. UringWakeup'
      BY DEF Inv, Control, UringWakeup, HasQueued, Waking
    <2> QED
      BY <1>1, <2>1, <2>2, <2>3, <2>4 DEF Inv
  <1> QED
    BY <1>2, <1>3, <1>4, <1>5, <1>6, <1>7, <1>8, <1>9, <1>10, <1>11, <1>12, <1>13, <1>14, <1>15, <1>16, <1>17, <1>18, <1>19, <1>20
    DEF IoUringNext, IoUringCall, IoUringLoop, UCqe, USchedule, UPost, UScheduleAfter

(* Every step of every executor. *)
LEMMA NextInv == Inv /\ [Next]_vars => Inv'
  <1> SUFFICES ASSUME Inv, [Next]_vars PROVE Inv'
    OBVIOUS
  <1>1. CASE Next
    BY <1>1, CommonStep, PollingStep, LibuvStep, IoUringStep DEF Next
  <1>2. CASE UNCHANGED vars
    <2> USE <1>2 DEF vars, loopVars, loop, copies, uring, queues
    <2>1. Data'
      BY NothingMoved DEF Inv, data
    <2>2. Control'
      BY DEF Inv, Control, Places
    <2>3. Quiet'
      BY DEF Inv, Quiet
    <2>4. UvWakeup'
      BY DEF Inv, UvWakeup, HasQueued, Waking
    <2>5. UringWakeup'
      BY DEF Inv, UringWakeup, HasQueued, Waking
    <2> QED
      BY <2>1, <2>2, <2>3, <2>4, <2>5 DEF Inv
  <1> QED
    BY <1>1, <1>2

(* The inductive invariant of the three loops. *)
THEOREM ExecutorsInv == Spec => []Inv
  BY InitInv, NextInv, PTL DEF Spec

(* No executor blocks with work queued, nor io_uring with a Stop() made,    *)
(* unless the wakeup is on its way and the ring has the read that sees it   *)
(* (Schedule(), Post(), ScheduleAfter(), Stop(), ProcessReadyQueue(),       *)
(* SubmitWakeupRead()).                                                     *)
THEOREM WakeupNeverLost == Spec => []NoLostWakeup
  <1>1. Inv => NoLostWakeup
    <2> SUFFICES ASSUME Inv, lpc = "blocked", ~unarmed
                 PROVE  /\ Queued # <<>> \/ (stop_requested_ /\ kind = "uring")
                             => wake \/ due # <<>> \/ \E t \in Thread : upc[t] = "wake"
                        /\ kind = "uring" => Wakeup \in armed \union ToSet(due)
      BY DEF NoLostWakeup
    <2>1. kind \in {"libuv", "uring"}
      BY DEF Inv, Control, Places
    <2>2. ToSet(<<>>) = {}
      BY DEF ToSet
    <2>3. Queued # <<>> <=> HasQueued
      BY QueuedEmpty DEF Inv
    <2>4. CASE kind = "libuv"
      BY <2>3, <2>4 DEF Inv, UvWakeup, Waking
    <2>5. CASE kind = "uring"
      <3>1. ~once /\ sq = <<>>
        BY <2>5 DEF Inv, UringWakeup
      <3>2. Wakeup \in armed \union ToSet(due)
        BY <2>2, <2>5, <3>1 DEF Inv, UringWakeup
      <3>3. ASSUME HasQueued \/ stop_requested_
            PROVE  Waking \/ Wakeup \in ToSet(due)
        BY <2>5, <3>1, <3>3 DEF Inv, UringWakeup
      <3> QED
        BY <2>2, <2>3, <2>5, <3>2, <3>3 DEF Waking
    <2> QED
      BY <2>1, <2>4, <2>5
  <1> QED
    BY <1>1, ExecutorsInv, PTL

(* pending_timeouts_ holds exactly the timeouts that the submission queue,  *)
(* the kernel or the completion queue still have, so that the destructor    *)
(* frees each of them once (ProcessReadyQueue(), ProcessCompletions()).     *)
THEOREM TimeoutsFreedOnce == Spec => []TimeoutsTracked
  <1>1. Inv => TimeoutsTracked
    BY DEF Inv, Data
  <1> QED
    BY <1>1, ExecutorsInv, PTL

-----------------------------------------------------------------------------
(* What FifoExecutor sees of a step. *)

(* One queue after the other. *)
LEMMA QueueJoin ==
  ASSUME NEW S, NEW q \in Seq(S), NEW r \in Seq(S)
  PROVE  /\ q \o r \in Seq(S) /\ ToSet(q \o r) = ToSet(q) \union ToSet(r)
         /\ \A x \in S : q \o Append(r, x) = Append(q \o r, x)
         /\ q # <<>> => /\ q \o r # <<>> /\ Head(q \o r) = Head(q)
                        /\ Tail(q \o r) = Tail(q) \o r
         /\ <<>> \o r = r /\ r \o <<>> = r
  <1> DEFINE s == q \o r
  <1>1. /\ s \in Seq(S)
        /\ \A i \in DOMAIN q : i \in DOMAIN s /\ s[i] = q[i]
        /\ \A i \in DOMAIN r : Len(q) + i \in DOMAIN s /\ s[Len(q) + i] = r[i]
        /\ \A i \in DOMAIN s : \/ i \in DOMAIN q /\ s[i] = q[i]
                               \/ i - Len(q) \in DOMAIN r /\ s[i] = r[i - Len(q)]
    OBVIOUS
  <1>2. \A x \in S : q \o Append(r, x) = Append(q \o r, x)
    OBVIOUS
  <1>3. q # <<>> => /\ q \o r # <<>> /\ Head(q \o r) = Head(q)
                    /\ Tail(q \o r) = Tail(q) \o r
    OBVIOUS
  <1>4. <<>> \o r = r /\ r \o <<>> = r
    OBVIOUS
  <1> HIDE DEF s
  <1>5. ToSet(s) = ToSet(q) \union ToSet(r)
    BY <1>1 DEF ToSet
  <1> QED
    BY <1>1, <1>2, <1>3, <1>4, <1>5 DEF s

(* Nothing. *)
LEMMA SeesNothing ==
  ASSUME lpc' = "dead" <=> lpc = "dead", Waits' = Waits, UNCHANGED ran,
         (ready \o ready_queue_)' = ready \o ready_queue_,
         (callbacks \o callback_queue_)' = callbacks \o callback_queue_
  PROVE  UNCHANGED FE!vars
  BY DEF FE!vars, Live, Waits, Wait

(* The end of the executor. *)
LEMMA SeesDestroy ==
  ASSUME lpc' = "dead", UNCHANGED ran
  PROVE  FE!Next
  BY DEF FE!Next, FE!Destroy, Live

(* Nothing that was not given waits anywhere. *)
LEMMA NewIfNotGiven ==
  ASSUME Inv, NEW i \in Item, i \notin given
  PROVE  FE!New(i)
  <1>1. i # Wakeup
    BY IoUringAssumption DEF Item, Wait
  <1>2. i \notin ran \union Waiting
    BY <1>1 DEF Inv, Control, Data, AllGiven
  <1>3. /\ ToSet(ready \o ready_queue_) = ToSet(ready) \union ToSet(ready_queue_)
        /\ ToSet(callbacks \o callback_queue_) = ToSet(callbacks) \union ToSet(callback_queue_)
    BY QueueJoin DEF Inv, Data, QueueTypes
  <1>4. i \notin ToSet(ready \o ready_queue_) /\ i \notin ToSet(callbacks \o callback_queue_)
    BY <1>3 DEF Inv, Data, AllGiven
  <1>5. /\ \A n \in DOMAIN (ready \o ready_queue_) : (ready \o ready_queue_)[n] # i
        /\ \A n \in DOMAIN (callbacks \o callback_queue_) : (callbacks \o callback_queue_)[n] # i
    BY <1>4 DEF ToSet
  <1>6. DOMAIN <<>> = {}
    OBVIOUS
  <1> QED
    BY <1>2, <1>5, <1>6 DEF FE!New, Live

(* A handle, at the end. *)
LEMMA SeesHandle ==
  ASSUME Inv, NEW i \in Handles, i \notin given, lpc # "dead", UNCHANGED lpc,
         ready_queue_' = Append(ready_queue_, i), Waits' = Waits,
         UNCHANGED <<ready, callbacks, callback_queue_, ran>>
  PROVE  FE!Next
  <1>1. FE!New(i)
    BY NewIfNotGiven DEF Item
  <1>2. (ready \o ready_queue_)' = Append(ready \o ready_queue_, i)
    <2>1. ready \in Seq(Handles) /\ ready_queue_ \in Seq(Handles)
      BY DEF Inv, Data, QueueTypes
    <2>2. ready \o Append(ready_queue_, i) = Append(ready \o ready_queue_, i)
      BY <2>1, QueueJoin
    <2> QED
      BY <2>2
  <1>3. FE!Give(i)
    BY <1>1, <1>2 DEF FE!Give, Live, Waits, Wait
  <1> QED
    BY <1>3 DEF FE!Next

(* A callback, at the end. *)
LEMMA SeesCallback ==
  ASSUME Inv, NEW i \in Callbacks, i \notin given, lpc # "dead", UNCHANGED lpc,
         callback_queue_' = Append(callback_queue_, i), Waits' = Waits,
         UNCHANGED <<ready, ready_queue_, callbacks, ran>>
  PROVE  FE!Next
  <1>1. FE!New(i)
    BY NewIfNotGiven DEF Item
  <1>2. (callbacks \o callback_queue_)' = Append(callbacks \o callback_queue_, i)
    <2>1. callbacks \in Seq(Callbacks) /\ callback_queue_ \in Seq(Callbacks)
      BY DEF Inv, Data, QueueTypes
    <2>2. callbacks \o Append(callback_queue_, i) = Append(callbacks \o callback_queue_, i)
      BY <2>1, QueueJoin
    <2> QED
      BY <2>2
  <1>3. FE!Give(i)
    BY <1>1, <1>2 DEF FE!Give, Live, Waits, Wait
  <1> QED
    BY <1>3 DEF FE!Next

(* A timer or an operation. *)
LEMMA SeesWait ==
  ASSUME Inv, NEW i \in Wait, i \notin given, lpc # "dead", UNCHANGED lpc,
         Waits' = Waits \union {i},
         UNCHANGED <<ready, ready_queue_, callbacks, callback_queue_, ran>>
  PROVE  FE!Next
  <1>1. FE!New(i)
    BY NewIfNotGiven DEF Item
  <1>2. FE!Give(i)
    BY <1>1 DEF FE!Give, Live, Waits, Wait
  <1> QED
    BY <1>2 DEF FE!Next, Wait

(* ProcessReadyQueue() takes the queues once its copies are empty. *)
LEMMA SeesNoSwap ==
  ASSUME Inv, lpc' = "dead" <=> lpc = "dead", Waits' = Waits, UNCHANGED ran,
         ready = <<>>, ready' = ready_queue_, ready_queue_' = <<>>,
         callbacks = <<>>, callbacks' = callback_queue_, callback_queue_' = <<>>
  PROVE  UNCHANGED FE!vars
  <1>1. (ready \o ready_queue_)' = ready \o ready_queue_
    BY QueueJoin DEF Inv, Data, QueueTypes
  <1>2. (callbacks \o callback_queue_)' = callbacks \o callback_queue_
    BY QueueJoin DEF Inv, Data, QueueTypes
  <1> QED
    BY <1>1, <1>2, SeesNothing

(* The loop resumes or calls an item: the first of its queue, or one whose  *)
(* wait is over.                                                            *)
LEMMA SeesRun ==
  ASSUME Inv, StartItem, UNCHANGED <<kind, completed, idle_active_, uring>>
  PROVE  FE!Next
  <1> USE DEF StartItem, copies, queues
  <1>1. lpc # "dead"
    BY DEF Inv, Quiet
  <1>2. CASE batch # <<>> /\ cur' = Head(batch) /\ batch' = Tail(batch) /\ UNCHANGED copies
    <2>1. Head(batch) \in Waits /\ Waits' = Waits \ {Head(batch)}
      BY <1>2, WaitResumed DEF Inv, uring
    <2>2. Head(batch) \in Wait
      BY <2>1 DEF Waits
    <2>3. FE!Run(Head(batch))
      BY <1>1, <1>2, <2>1 DEF FE!Run, Live, Waits, Wait
    <2> QED
      BY <2>2, <2>3 DEF FE!Next, Wait
  <1>3. CASE /\ ready # <<>> /\ cur' = Head(ready) /\ ready' = Tail(ready)
             /\ UNCHANGED <<batch, callbacks>>
    <2>1. Waits' = Waits
      BY <1>3, HandleResumed DEF Inv, uring
    <2>2. /\ ready \o ready_queue_ # <<>> /\ Head(ready) = Head(ready \o ready_queue_)
          /\ (ready \o ready_queue_)' = Tail(ready \o ready_queue_)
      <3>1. ready \in Seq(Handles) /\ ready_queue_ \in Seq(Handles)
        BY DEF Inv, Data, QueueTypes
      <3>2. /\ ready \o ready_queue_ # <<>> /\ Head(ready \o ready_queue_) = Head(ready)
            /\ Tail(ready \o ready_queue_) = Tail(ready) \o ready_queue_
        BY <1>3, <3>1, QueueJoin
      <3> QED
        BY <1>3, <3>2
    <2>3. Head(ready) \in Handles
      BY <1>3, QueuePop DEF Inv, Data, QueueTypes
    <2>4. FE!Run(Head(ready))
      BY <1>1, <1>3, <2>1, <2>2 DEF FE!Run, Live, Waits, Wait
    <2> QED
      BY <2>3, <2>4 DEF FE!Next
  <1>4. CASE /\ callbacks # <<>> /\ cur' = Head(callbacks) /\ callbacks' = Tail(callbacks)
             /\ UNCHANGED <<batch, ready>>
    <2>1. Waits' = Waits
      BY <1>4, CallbackCalled DEF Inv, uring
    <2>2. /\ callbacks \o callback_queue_ # <<>>
          /\ Head(callbacks) = Head(callbacks \o callback_queue_)
          /\ (callbacks \o callback_queue_)' = Tail(callbacks \o callback_queue_)
      <3>1. callbacks \in Seq(Callbacks) /\ callback_queue_ \in Seq(Callbacks)
        BY DEF Inv, Data, QueueTypes
      <3>2. /\ callbacks \o callback_queue_ # <<>> /\ Head(callbacks \o callback_queue_) = Head(callbacks)
            /\ Tail(callbacks \o callback_queue_) = Tail(callbacks) \o callback_queue_
        BY <1>4, <3>1, QueueJoin
      <3> QED
        BY <1>4, <3>2
    <2>3. Head(callbacks) \in Callbacks
      BY <1>4, QueuePop DEF Inv, Data, QueueTypes
    <2>4. FE!Run(Head(callbacks))
      BY <1>1, <1>4, <2>1, <2>2 DEF FE!Run, Live, Waits, Wait
    <2> QED
      BY <2>3, <2>4 DEF FE!Next
  <1> QED
    BY <1>2, <1>3, <1>4

(* PollingExecutor *)
LEMMA PollingRefines ==
  ASSUME Inv, kind = "polling", PollingNext, UNCHANGED <<kind, idle_active_, uring>>
  PROVE  [FE!Next]_FE!vars
  <1> USE DEF loop, copies, uring, queues
  <1>1. ASSUME NEW t \in Thread, NEW i \in Handles, PSchedule(t, i) PROVE FE!Next
    <2>1. i \in Item 
      BY DEF Item, Wait
    <2>2. i \notin given /\ lpc # "dead" /\ given' = given \union {i}
      BY <1>1 DEF PSchedule, Push, CanCall, Fresh
    <2> QED
      BY <1>1, <2>1, <2>2, HandleGiven, SeesHandle DEF Inv, PSchedule, Push
  <1>2. ASSUME NEW t \in Thread, NEW i \in Callbacks, PPost(t, i) PROVE FE!Next
    <2>1. i \in Item 
      BY DEF Item, Wait
    <2>2. i \notin given /\ lpc # "dead" /\ given' = given \union {i}
      BY <1>2 DEF PPost, Push, CanCall, Fresh
    <2> QED
      BY <1>2, <2>1, <2>2, CallbackGiven, SeesCallback DEF Inv, PPost, Push
  <1>3. ASSUME NEW t \in Thread, NEW i \in Delayed, PScheduleAfter(t, i) PROVE FE!Next
    <2>1. i \in Item /\ i \in Wait
      BY DEF Item, Wait
    <2>2. i \notin given /\ lpc # "dead" /\ given' = given \union {i}
      BY <1>3 DEF PScheduleAfter, Push, CanCall, Fresh
    <2> QED
      BY <1>3, <2>1, <2>2, WaitStarted, SeesWait DEF Inv, PScheduleAfter, Push
  <1>4. ASSUME NEW i \in Io, PStartIo(i) PROVE FE!Next
    <2>1. i \in Wait /\ i \notin given /\ lpc # "dead"
      BY <1>4 DEF Wait, PStartIo, CanCall, Fresh
    <2> QED
      BY <1>4, <2>1, WaitStarted, SeesWait DEF Inv, PStartIo
  <1>5. ASSUME NEW i \in Io, PComplete(i) PROVE UNCHANGED FE!vars
    BY <1>5, SourceReports, SeesNothing DEF Inv, PComplete
  <1>6. CASE PPoll
    <2> DEFINE n == IF Len(completed) < BatchSize THEN Len(completed) ELSE BatchSize
    <2>1. n \in 0 .. Len(completed)
      BY PollingAssumption DEF Inv, Data, QueueTypes
    <2>2. Waits' = Waits
      BY <1>6, <2>1, SourcePolled DEF PPoll, Between, Inv
    <2> QED
      BY <1>6, <2>2, SeesNothing DEF PPoll, Between
  <1>7. CASE PTimers
    BY <1>7, TimersFired, SeesNothing DEF PTimers, Between, Inv
  <1>8. CASE PReady
    <2>1. Waits' = Waits
      BY <1>8, QueuesSwapped DEF PReady, SwapQueues, Inv, Data, OwnState
    <2> QED
      BY <1>8, <2>1, SeesNoSwap DEF PReady, SwapQueues, Between
  <1>9. ASSUME NEW t \in Thread, PStop(t) PROVE UNCHANGED FE!vars
    BY <1>9, NothingMoved, SeesNothing DEF Inv, data, PStop
  <1>10. CASE PRun
    BY <1>10, NothingMoved, SeesNothing DEF Inv, data, PRun
  <1>11. CASE PRunOnce
    BY <1>11, NothingMoved, SeesNothing DEF Inv, data, PRunOnce
  <1>12. CASE PTest
    BY <1>12, NothingMoved, SeesNothing DEF Inv, data, PTest, Goto, Between
  <1>13. CASE PDrain
    BY <1>13, NothingMoved, SeesNothing DEF Inv, data, PDrain, Between
  <1>14. CASE PDestroy
    BY <1>14, SeesDestroy DEF PDestroy, Goto
  <1> QED
    BY <1>1, <1>2, <1>3, <1>4, <1>5, <1>6, <1>7, <1>8, <1>9, <1>10, <1>11, <1>12, <1>13, <1>14
    DEF PollingNext, PollingCall, PollingLoop, PSchedule, PPost, PScheduleAfter

(* LibuvExecutor *)
LEMMA LibuvRefines ==
  ASSUME Inv, kind = "libuv", LibuvNext, UNCHANGED <<kind, completed, uring>>
  PROVE  [FE!Next]_FE!vars
  <1> USE DEF loop, copies, uring, queues
  <1>1. ASSUME NEW t \in Thread, NEW i \in Handles, LSchedule(t, i) PROVE FE!Next
    <2>1. i \in Item 
      BY DEF Item, Wait
    <2>2. i \notin given /\ lpc # "dead" /\ given' = given \union {i}
      BY <1>1 DEF LSchedule, Push, CanCall, Fresh
    <2> QED
      BY <1>1, <2>1, <2>2, HandleGiven, SeesHandle DEF Inv, LSchedule, Push
  <1>2. ASSUME NEW t \in Thread, NEW i \in Callbacks, LPost(t, i) PROVE FE!Next
    <2>1. i \in Item 
      BY DEF Item, Wait
    <2>2. i \notin given /\ lpc # "dead" /\ given' = given \union {i}
      BY <1>2 DEF LPost, Push, CanCall, Fresh
    <2> QED
      BY <1>2, <2>1, <2>2, CallbackGiven, SeesCallback DEF Inv, LPost, Push
  <1>3. ASSUME NEW t \in Thread, NEW i \in Delayed, LScheduleAfter(t, i) PROVE FE!Next
    <2>1. i \in Item /\ i \in Wait
      BY DEF Item, Wait
    <2>2. i \notin given /\ lpc # "dead" /\ given' = given \union {i}
      BY <1>3 DEF LScheduleAfter, Push, CanCall, Fresh
    <2> QED
      BY <1>3, <2>1, <2>2, TimerRequested, SeesWait DEF Inv, LScheduleAfter, Push
  <1>4. CASE LTimers
    BY <1>4, TimersFired, SeesNothing DEF LTimers, Between, Inv
  <1>5. CASE Between("idle") /\ SwapQueues("arm")
    <2>1. Waits' = Waits
      BY <1>5, QueuesSwapped DEF Between, SwapQueues, Inv, Quiet
    <2> QED
      BY <1>5, <2>1, SeesNoSwap DEF SwapQueues, Between
  <1>6. CASE LArm
    BY <1>6, TimerArmed, TimerResumed, SeesNothing DEF LArm, Between, Inv
  <1>7. CASE LIdleEnd
    BY <1>7, NothingMoved, SeesNothing DEF Inv, data, LIdleEnd, Goto, Between
  <1>8. ASSUME NEW t \in Thread, LStop(t) PROVE UNCHANGED FE!vars
    BY <1>8, NothingMoved, SeesNothing DEF Inv, data, LStop
  <1>9. ASSUME NEW nowait \in BOOLEAN, LRun(nowait) PROVE UNCHANGED FE!vars
    BY <1>9, NothingMoved, SeesNothing DEF Inv, data, LRun
  <1>10. CASE LTest
    BY <1>10, NothingMoved, SeesNothing DEF Inv, data, LTest, LReturn, Goto, Between
  <1>11. CASE Goto("idle", "poll")
    BY <1>11, NothingMoved, SeesNothing DEF Inv, data, Goto, Between
  <1>12. CASE LPoll
    BY <1>12, NothingMoved, SeesNothing DEF Inv, data, LPoll, Goto, Between
  <1>13. CASE LUnblock
    BY <1>13, NothingMoved, SeesNothing DEF Inv, data, LUnblock, Goto, Between
  <1>14. CASE LAsync
    BY <1>14, NothingMoved, SeesNothing DEF Inv, data, LAsync, Between
  <1>15. CASE LDestroy
    BY <1>15, NothingMoved, SeesNothing DEF Inv, data, LDestroy, Goto, Between
  <1>16. CASE LDestroyed
    BY <1>16, SeesDestroy DEF LDestroyed, Goto
  <1> QED
    BY <1>1, <1>2, <1>3, <1>4, <1>5, <1>6, <1>7, <1>8, <1>9, <1>10, <1>11, <1>12, <1>13, <1>14, <1>15, <1>16
    DEF LibuvNext, LibuvCall, LibuvLoop, LIdle, LSchedule, LPost, LScheduleAfter

(* IoUringExecutor *)
LEMMA IoUringRefines ==
  ASSUME Inv, kind = "uring", IoUringNext, UNCHANGED <<kind, completed, idle_active_>>
  PROVE  [FE!Next]_FE!vars
  <1> USE DEF loop, copies, uring, queues
  <1>1. ASSUME NEW t \in Thread, NEW i \in Handles, USchedule(t, i) PROVE FE!Next
    <2>1. i \in Item 
      BY DEF Item, Wait
    <2>2. i \notin given /\ lpc # "dead" /\ given' = given \union {i}
      BY <1>1 DEF USchedule, Push, CanCall, Fresh
    <2> QED
      BY <1>1, <2>1, <2>2, HandleGiven, SeesHandle DEF Inv, USchedule, Push
  <1>2. ASSUME NEW t \in Thread, NEW i \in Callbacks, UPost(t, i) PROVE FE!Next
    <2>1. i \in Item 
      BY DEF Item, Wait
    <2>2. i \notin given /\ lpc # "dead" /\ given' = given \union {i}
      BY <1>2 DEF UPost, Push, CanCall, Fresh
    <2> QED
      BY <1>2, <2>1, <2>2, CallbackGiven, SeesCallback DEF Inv, UPost, Push
  <1>3. ASSUME NEW t \in Thread, NEW i \in Delayed, UScheduleAfter(t, i) PROVE FE!Next
    <2>1. i \in Item /\ i \in Wait
      BY DEF Item, Wait
    <2>2. i \notin given /\ lpc # "dead" /\ given' = given \union {i}
      BY <1>3 DEF UScheduleAfter, Push, CanCall, Fresh
    <2> QED
      BY <1>3, <2>1, <2>2, TimerRequested, SeesWait DEF Inv, UScheduleAfter, Push
  <1>4. ASSUME NEW i \in Io, UComplete(i) PROVE UNCHANGED FE!vars
    BY <1>4, WaitEnded, SeesNothing DEF UComplete, Complete, Inv
  <1>5. ASSUME NEW i \in Io, NEW submit \in BOOLEAN, UStartIo(i, submit) PROVE FE!Next
    <2>1. i \in Wait /\ i \notin given /\ lpc # "dead"
      BY <1>5 DEF Wait, UStartIo, CanCall, Fresh
    <2>2. Waits' = Waits \union {i}
      BY <1>5, <2>1, OperationSubmitted, OperationPrepared DEF UStartIo, Inv
    <2> QED
      BY <1>5, <2>1, <2>2, SeesWait DEF UStartIo
  <1>6. CASE USubmit
    BY <1>6, EntriesSubmitted, SeesNothing DEF USubmit, Between, Inv
  <1>7. CASE CompleteWakeup
    BY <1>7, WaitEnded, SeesNothing DEF CompleteWakeup, Inv
  <1>8. CASE /\ Between("cqe") /\ due # <<>> /\ due' = Tail(due)
              /\ \/ /\ Head(due) = Wakeup
                    /\ SubmitWakeupRead /\ UNCHANGED <<batch, pending_timeouts_>>
                 \/ Head(due) # Wakeup /\ UCompletion(Head(due))
              /\ UNCHANGED <<queues, armed, stop_requested_, wake, upc, lpc, once, copies,
                             arming, cur, given, ran>>
    <2>1. Waits' = Waits
      BY <1>8, ReadRenewed, ReadLost, CompletionTaken
      DEF SubmitWakeupRead, UCompletion, Between, Inv
    <2> QED
      BY <1>8, <2>1, SeesNothing
  <1>9. CASE UReady
    <2>1. Waits' = Waits
      BY <1>9, QueuesSwapped DEF UReady, Between, SwapQueues, Inv, Quiet
    <2> QED
      BY <1>9, <2>1, SeesNoSwap DEF UReady, SwapQueues, Between
  <1>10. CASE UArm
    BY <1>10, TimeoutPrepared, TimerResumed, SeesNothing DEF UArm, Between, Inv
  <1>11. CASE UDestroy
    BY <1>11, SeesDestroy DEF UDestroy
  <1>12. ASSUME NEW t \in Thread, UStop(t) PROVE UNCHANGED FE!vars
    BY <1>12, NothingMoved, SeesNothing DEF Inv, data, UStop
  <1>13. CASE URun
    BY <1>13, NothingMoved, SeesNothing DEF Inv, data, URun
  <1>14. CASE URunOnce
    BY <1>14, NothingMoved, SeesNothing DEF Inv, data, URunOnce
  <1>15. CASE UTest
    BY <1>15, NothingMoved, SeesNothing DEF Inv, data, UTest, Goto, Between
  <1>16. CASE UWait
    BY <1>16, NothingMoved, SeesNothing DEF Inv, data, UWait, Goto, Between
  <1>17. CASE UInterrupted
    BY <1>17, NothingMoved, SeesNothing DEF Inv, data, UInterrupted, Goto, Between
  <1>18. CASE Goto("cqe", "ready") /\ UNCHANGED uring
    BY <1>18, NothingMoved, SeesNothing DEF Inv, data, Goto, Between
  <1>19. CASE UArmed
    BY <1>19, NothingMoved, SeesNothing DEF Inv, data, UArmed, Goto, Between
  <1> QED
    BY <1>1, <1>2, <1>3, <1>4, <1>5, <1>6, <1>7, <1>8, <1>9, <1>10, <1>11, <1>12, <1>13, <1>14, <1>15, <1>16, <1>17, <1>18, <1>19
    DEF IoUringNext, IoUringCall, IoUringLoop, UCqe, USchedule, UPost, UScheduleAfter

(* What the loops have in common. *)
LEMMA CommonRefines ==
  ASSUME Inv, Common, UNCHANGED kind
  PROVE  [FE!Next]_FE!vars
  <1> USE DEF Common, loop, copies, uring, queues
  <1>1. ASSUME NEW t \in Thread, WakeUp(t) PROVE UNCHANGED FE!vars
    BY <1>1, NothingMoved, SeesNothing DEF Inv, data, WakeUp
  <1>2. ASSUME NEW i \in Delayed, Complete(i) PROVE UNCHANGED FE!vars
    BY <1>2, WaitEnded, SeesNothing DEF Complete, Inv
  <1>3. CASE StartItem
    BY <1>3, SeesRun
  <1>4. CASE EndItem
    BY <1>4, NothingMoved, SeesNothing DEF Inv, data, EndItem
  <1> QED
    BY <1>1, <1>2, <1>3, <1>4

(* Every step of every executor is one of FifoExecutor, or none. *)
LEMMA NextRefines == Inv /\ [Next]_vars => [FE!Next]_FE!vars
  <1> SUFFICES ASSUME Inv, [Next]_vars PROVE [FE!Next]_FE!vars
    OBVIOUS
  <1>1. CASE Next
    BY <1>1, CommonRefines, PollingRefines, LibuvRefines, IoUringRefines DEF Next
  <1>2. CASE UNCHANGED vars
    BY <1>2, NothingMoved, SeesNothing
    DEF Inv, data, vars, loopVars, loop, copies, uring, queues
  <1> QED
    BY <1>1, <1>2

(* The three executors keep the promise of the interface: what is given to  *)
(* them from any thread runs at most once and is dropped by the destructor  *)
(* alone, handles and callbacks each in the order they were given           *)
(* (Schedule(), Post(), ScheduleAfter(), ProcessReadyQueue(),               *)
(* ProcessTimers(), ProcessCompletions()).                                  *)
THEOREM ExecutorsRefine == Spec => RefinesFifoExecutor
  <1>1. Init => FE!Init
    <2> SUFFICES ASSUME Init PROVE FE!Init
      OBVIOUS
    <2>1. ToSet(<<>>) = {} /\ <<>> \o <<>> = <<>>
      BY DEF ToSet
    <2>2. Waiting \intersect (Delayed \union Io) = {}
      BY <2>1, IoUringAssumption DEF Init, LoopInit, Waiting
    <2> QED
      BY <2>1, <2>2 DEF Init, LoopInit, FE!Init, Live
  <1> QED
    BY <1>1, NextRefines, ExecutorsInv, PTL DEF Spec, RefinesFifoExecutor, FE!Spec

=============================================================================
