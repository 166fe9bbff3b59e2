---------------------- MODULE ThreadPoolExecutorProofs ----------------------
(***************************************************************************)
(* The thread pool's work queue loses and duplicates no item, for every    *)
(* number of workers, users and items; Run() returns only when all work    *)
(* has ended, in the programs that do not also call RunOnce(); and the     *)
(* timer thread gives every delayed handle to Schedule() once, in time.    *)
(***************************************************************************)
EXTENDS ThreadPool, FiniteSetTheorems, TLAPS

(* What the whole pool does is, for each part, what that part does. *)
LEMMA PoolParts == PoolSpec => Spec /\ TimerSpec
  <1>1. PoolInit => Init /\ TimerInit
    BY DEF PoolInit
  <1>2. [PoolNext]_poolVars => [Next]_vars
    BY DEF PoolNext, WorkPart, TimerPart, poolVars
  <1>3. [PoolNext]_poolVars => [TimerNext]_timerVars
    BY DEF PoolNext, WorkPart, TimerPart, poolVars
  <1> QED
    BY <1>1, <1>2, <1>3, PTL DEF PoolSpec, Spec, TimerSpec

(* The items in a deque, and that no two of them are the same. *)
Contents(q) == {q[i] : i \in DOMAIN q}
Distinct(q) == \A i, j \in DOMAIN q : i # j => q[i] # q[j]

(* push_back() adds one at the end. *)
LEMMA PushBackSets ==
  ASSUME NEW S, NEW q \in Seq(S), NEW x \in S
  PROVE  /\ Append(q, x) \in Seq(S) /\ Append(q, x) # <<>>
         /\ Contents(Append(q, x)) = Contents(q) \union {x}
         /\ Distinct(q) /\ x \notin Contents(q) => Distinct(Append(q, x))
  <1> DEFINE r == Append(q, x)
  <1>1. /\ r \in Seq(S) /\ r # <<>> /\ DOMAIN r = DOMAIN q \union {Len(q) + 1}
        /\ Len(q) + 1 \notin DOMAIN q /\ r[Len(q) + 1] = x
        /\ \A i \in DOMAIN q : r[i] = q[i]
    OBVIOUS
  <1> HIDE DEF r
  <1>2. Contents(r) = Contents(q) \union {x}
    BY <1>1 DEF Contents
  <1>3. Distinct(q) /\ x \notin Contents(q) => Distinct(r)
    BY <1>1 DEF Contents, Distinct
  <1> QED
    BY <1>1, <1>2, <1>3 DEF r

(* pop_front() takes the first, which is gone if it was there only once. *)
LEMMA PopFrontSets ==
  ASSUME NEW S, NEW q \in Seq(S), q # <<>>
  PROVE  /\ Tail(q) \in Seq(S) /\ Head(q) \in S
         /\ Head(q) \in Contents(q)
         /\ Distinct(q) => /\ Distinct(Tail(q))
                           /\ Contents(Tail(q)) = Contents(q) \ {Head(q)}
  <1> DEFINE t == Tail(q)  h == Head(q)
  <1>1. /\ t \in Seq(S) /\ h \in S /\ h = q[1] /\ 1 \in DOMAIN q
        /\ \A i \in DOMAIN t : i + 1 \in DOMAIN q /\ i + 1 # 1 /\ t[i] = q[i + 1]
        /\ \A i \in DOMAIN q : i # 1 => i - 1 \in DOMAIN t /\ t[i - 1] = q[i]
        /\ \A i, j \in DOMAIN t : i + 1 = j + 1 => i = j
    OBVIOUS
  <1> HIDE DEF t, h
  <1>2. Contents(q) = Contents(t) \union {h}
    BY <1>1 DEF Contents
  <1>3. Distinct(q) => Distinct(t) /\ h \notin Contents(t)
    BY <1>1 DEF Contents, Distinct
  <1> QED
    BY <1>1, <1>2, <1>3 DEF t, h

-----------------------------------------------------------------------------
(* Where a thread has an item in its hands, and where it is counted in      *)
(* active_tasks_.                                                           *)
Holding == {"exec", "popped", "once"}
Counted == {"exec", "rone", "over", "once"}

Executing == {t \in Thread : pc[t] \in Counted}

TypeOK ==
  /\ work_queue_ \in Seq(Nat)
  /\ pc \in [Thread -> PC]
  /\ item \in [Thread -> Nat]
  /\ posted \in Nat
  /\ finished \subseteq Posted
  /\ ops \in Programs

(* A thread has an item exactly where the code has a handle in a local. *)
HoldsItem == \A t \in Thread : item[t] # NoItem <=> pc[t] \in Holding

(* active_tasks_ counts the threads between its increment and decrement. *)
CountsActive ==
  /\ IsFiniteSet(Executing)
  /\ active_tasks_ = Cardinality(Executing)

(* Who may be where. *)
Roles ==
  /\ \A w \in Worker : pc[w] \notin {"popped", "once"}
  /\ \A u \in User : /\ pc[u] \in {"lock", "false", "blocked"} => "Run" \in ops
                     /\ pc[u] \in {"popped", "once"} => "RunOnce" \in ops
                     /\ pc[u] \notin {"exec", "rone", "over", "loop", "true"}

IndInv == TypeOK /\ HoldsItem /\ ItemsInOnePlace /\ CountsActive /\ Roles

-----------------------------------------------------------------------------
(* Nothing is scheduled and nobody executes. *)
LEMMA InitIndInv == Init => IndInv
  <1> SUFFICES ASSUME Init PROVE IndInv
    OBVIOUS
  <1>1. TypeOK
    BY DEF Init, TypeOK, PC, NoItem, Posted
  <1>2. HoldsItem
    BY DEF Init, HoldsItem, Holding
  <1>3. ItemsInOnePlace
    <2>1. Queued = {} /\ Posted = {}
      BY DEF Init, Queued, Posted
    <2>2. {item[t] : t \in Thread} \subseteq {NoItem}
      BY DEF Init
    <2> QED
      BY <2>1, <2>2 DEF Init, ItemsInOnePlace
  <1>4. CountsActive
    <2>1. Executing = {}
      BY DEF Init, Executing, Counted
    <2> QED
      BY <2>1, FS_EmptySet DEF Init, CountsActive
  <1>5. Roles
    BY ThreadPoolAssumption DEF Init, Roles, Thread
  <1> QED
    BY <1>1, <1>2, <1>3, <1>4, <1>5 DEF IndInv

(* A step that moves threads but no item, and counts nobody in or out. *)
LEMMA MoveIndInv ==
  ASSUME IndInv, pc' \in [Thread -> PC],
         \A t \in Thread : /\ pc'[t] \in Holding <=> pc[t] \in Holding
                           /\ pc'[t] \in Counted <=> pc[t] \in Counted,
         Roles',
         UNCHANGED <<work_queue_, active_tasks_, item, posted, finished, ops>>
  PROVE  IndInv'
  <1>1. Executing' = Executing
    BY DEF Executing
  <1>2. Queued' = Queued /\ Posted' = Posted
    BY DEF Queued, Posted
  <1>3. TypeOK' /\ HoldsItem'
    BY <1>2 DEF IndInv, TypeOK, HoldsItem
  <1>4. ItemsInOnePlace'
    BY <1>2 DEF IndInv, ItemsInOnePlace
  <1>5. CountsActive'
    BY <1>1 DEF IndInv, CountsActive
  <1> QED
    BY <1>3, <1>4, <1>5 DEF IndInv

(* The steps of one thread and those it notifies. *)
LEMMA GotoIndInv ==
  ASSUME IndInv, NEW t \in Thread, NEW l \in PC, Goto(t, l),
         l \in Holding <=> pc[t] \in Holding,
         l \in Counted <=> pc[t] \in Counted,
         Roles',
         UNCHANGED <<work_queue_, active_tasks_, item, posted, finished, ops>>
  PROVE  IndInv'
  BY MoveIndInv DEF Goto, IndInv, TypeOK

(* A notification moves nobody but blocked threads. *)
LEMMA NotifyRoles ==
  ASSUME IndInv, NEW t \in Thread, NEW l \in PC,
         NotifyOne(t, l) \/ NotifyAll(t, l),
         pc[t] # "blocked", UNCHANGED ops
  PROVE  /\ pc' \in [Thread -> PC] /\ pc'[t] = l
         /\ \A d \in Thread \ {t} : \/ pc'[d] = pc[d]
                                    \/ pc[d] = "blocked" /\ pc'[d] = "lock"
  <1> USE DEF IndInv, TypeOK, Waiting, PC
  <1>1. CASE NotifyAll(t, l)
    BY <1>1 DEF NotifyAll
  <1>2. CASE NotifyOne(t, l)
    BY <1>2 DEF NotifyOne, Goto
  <1> QED
    BY <1>1, <1>2

(* The items queued are the contents of the deque. *)
LEMMA QueuedContents ==
  Queued = Contents(work_queue_) /\ Queued' = Contents(work_queue_')
  BY DEF Queued, Contents

(* pop_front() into a thread's local: the item changes place. *)
LEMMA PopIndInv ==
  ASSUME IndInv, NEW t \in Thread, work_queue_ # <<>>, item[t] = NoItem,
         item' = [item EXCEPT ![t] = Head(work_queue_)],
         work_queue_' = Tail(work_queue_),
         UNCHANGED <<posted, finished>>
  PROVE  /\ ItemsInOnePlace' /\ work_queue_' \in Seq(Nat)
         /\ item' \in [Thread -> Nat]
         /\ item'[t] # NoItem
         /\ \A d \in Thread \ {t} : item'[d] = item[d]
  <1> DEFINE h == Head(work_queue_)
  <1>1. TypeOK /\ ItemsInOnePlace
    BY DEF IndInv
  <1>2. Distinct(work_queue_) /\ work_queue_ \in Seq(Nat)
    BY <1>1 DEF TypeOK, ItemsInOnePlace, Distinct
  <1>3. /\ work_queue_' \in Seq(Nat) /\ h \in Nat /\ h \in Queued
        /\ Distinct(work_queue_')
        /\ Queued' = Queued \ {h}
    BY <1>2, PopFrontSets, QueuedContents
  <1>4. h # NoItem
    BY <1>1, <1>3 DEF ItemsInOnePlace, Posted, NoItem, TypeOK
  <1>5. /\ item' \in [Thread -> Nat]
        /\ \A d \in Thread : item'[d] = IF d = t THEN h ELSE item[d]
    BY <1>1, <1>3 DEF TypeOK
  <1> HIDE DEF h
  <1>6. Posted' = Posted
    BY DEF Posted
  <1>7. \A c, d \in Thread : c # d /\ item'[c] # NoItem => item'[c] # item'[d]
    BY <1>1, <1>3, <1>5 DEF ItemsInOnePlace
  <1>8. \A d \in Thread : item'[d] \notin Queued'
    BY <1>1, <1>3, <1>5 DEF ItemsInOnePlace
  <1>9. {item'[d] : d \in Thread} \ {NoItem}
          = ({item[d] : d \in Thread} \ {NoItem}) \union {h}
    BY <1>4, <1>5
  <1>10. ItemsInOnePlace'
    BY <1>1, <1>3, <1>6, <1>7, <1>8, <1>9 DEF ItemsInOnePlace, Distinct
  <1> QED
    BY <1>3, <1>4, <1>5, <1>10

(* push_back() of a new item. *)
LEMMA PushIndInv ==
  ASSUME IndInv, posted' = posted + 1,
         work_queue_' = Append(work_queue_, posted + 1),
         UNCHANGED <<item, finished>>
  PROVE  ItemsInOnePlace' /\ work_queue_' \in Seq(Nat) /\ finished' \subseteq Posted'
  <1>1. TypeOK /\ ItemsInOnePlace
    BY DEF IndInv
  <1>2. /\ Posted' = Posted \union {posted + 1} /\ posted + 1 \notin Posted
        /\ posted + 1 # NoItem /\ posted + 1 \in Nat
    BY <1>1 DEF TypeOK, Posted, NoItem
  <1>3. /\ Queued \subseteq Posted
        /\ \A t \in Thread : item[t] = NoItem \/ item[t] \in Posted
    BY <1>1 DEF ItemsInOnePlace
  <1>4. /\ work_queue_' \in Seq(Nat) /\ Distinct(work_queue_')
        /\ Queued' = Queued \union {posted + 1}
    <2>1. posted + 1 \notin Contents(work_queue_)
      BY <1>2, <1>3 DEF Queued, Contents
    <2>2. Distinct(work_queue_) /\ work_queue_ \in Seq(Nat)
      BY <1>1 DEF TypeOK, ItemsInOnePlace, Distinct
    <2> QED
      BY <1>2, <2>1, <2>2, PushBackSets, QueuedContents
  <1>5. \A t \in Thread : item'[t] \notin Queued'
    BY <1>1, <1>2, <1>3, <1>4 DEF ItemsInOnePlace
  <1>6. posted + 1 \notin finished /\ finished' \subseteq Posted'
    BY <1>1, <1>2 DEF TypeOK
  <1>7. Queued' \union ({item'[t] : t \in Thread} \ {NoItem}) = Posted' \ finished'
    BY <1>1, <1>2, <1>4, <1>6 DEF ItemsInOnePlace
  <1> QED
    BY <1>1, <1>4, <1>5, <1>6, <1>7 DEF ItemsInOnePlace, Distinct

(* push_back() of the item a worker executes. *)
LEMMA RequeueIndInv ==
  ASSUME IndInv, NEW w \in Worker, Requeue(w)
  PROVE  IndInv'
  <1> DEFINE x == item[w]
  <1>1. TypeOK /\ ItemsInOnePlace /\ HoldsItem /\ CountsActive /\ Roles
    BY DEF IndInv
  <1>2. /\ w \in Thread /\ pc[w] = "exec" /\ pc' = [pc EXCEPT ![w] = "rone"]
        /\ work_queue_' = Append(work_queue_, x)
        /\ item' = [item EXCEPT ![w] = NoItem]
        /\ UNCHANGED <<active_tasks_, posted, finished, ops>>
    BY DEF Requeue, Goto, Thread
  <1>3. x # NoItem /\ x \in Nat /\ x \notin Queued
    BY <1>1, <1>2 DEF HoldsItem, Holding, TypeOK, ItemsInOnePlace
  <1>4. /\ work_queue_' \in Seq(Nat) /\ Distinct(work_queue_')
        /\ Queued' = Queued \union {x}
    <2>1. Distinct(work_queue_) /\ work_queue_ \in Seq(Nat)
      BY <1>1 DEF TypeOK, ItemsInOnePlace, Distinct
    <2> HIDE DEF x
    <2> QED
      BY <1>2, <1>3, <2>1, PushBackSets, QueuedContents
  <1>5. /\ item' \in [Thread -> Nat] /\ pc' \in [Thread -> PC]
        /\ \A d \in Thread : item'[d] = IF d = w THEN NoItem ELSE item[d]
        /\ \A d \in Thread : pc'[d] = IF d = w THEN "rone" ELSE pc[d]
    BY <1>1, <1>2 DEF TypeOK, NoItem, PC
  <1>6. Executing' = Executing /\ Posted' = Posted
    BY <1>2, <1>5 DEF Executing, Counted, Posted
  <1>7. HoldsItem'
    BY <1>1, <1>5 DEF HoldsItem, Holding
  <1>8. Roles'
    BY <1>1, <1>2, <1>5, ThreadPoolAssumption DEF Roles, Thread
  <1>9. ItemsInOnePlace'
    <2> HIDE DEF x
    <2>1. \A c, d \in Thread : c # d /\ item'[c] # NoItem => item'[c] # item'[d]
      BY <1>1, <1>5 DEF ItemsInOnePlace
    <2>2. \A d \in Thread : d # w => item[d] # x
      BY <1>1, <1>2, <1>3 DEF ItemsInOnePlace, x
    <2>3. NoItem \notin Queued
      BY <1>1 DEF ItemsInOnePlace, TypeOK, Posted, NoItem
    <2>4. \A d \in Thread : item'[d] \notin Queued'
      BY <1>1, <1>3, <1>4, <1>5, <2>2, <2>3 DEF ItemsInOnePlace
    <2>5. {item[d] : d \in Thread} \ {NoItem}
            = ({item'[d] : d \in Thread} \ {NoItem}) \union {x}
      BY <1>2, <1>3, <1>5 DEF x
    <2> QED
      BY <1>1, <1>2, <1>4, <1>6, <2>1, <2>4, <2>5 DEF ItemsInOnePlace, Distinct
  <1> QED
    BY <1>1, <1>2, <1>4, <1>5, <1>6, <1>7, <1>8, <1>9 DEF IndInv, TypeOK, CountsActive

(* WorkerLoop takes an item and raises active_tasks_. *)
LEMMA TakeIndInv ==
  ASSUME IndInv, NEW w \in Worker, pc[w] = "lock", Take(w),
         UNCHANGED <<posted, finished, ops>>
  PROVE  IndInv'
  <1>1. TypeOK /\ HoldsItem /\ CountsActive /\ Roles /\ w \in Thread
    BY DEF IndInv, Thread
  <1>2. /\ work_queue_ # <<>> /\ item' = [item EXCEPT ![w] = Head(work_queue_)]
        /\ work_queue_' = Tail(work_queue_)
        /\ active_tasks_' = active_tasks_ + 1
        /\ pc' = [pc EXCEPT ![w] = "exec"]
    BY DEF Take, Goto
  <1>3. item[w] = NoItem
    BY <1>1 DEF HoldsItem, Holding
  <1>4. /\ ItemsInOnePlace' /\ work_queue_' \in Seq(Nat)
        /\ item' \in [Thread -> Nat]
        /\ item'[w] # NoItem
        /\ \A d \in Thread \ {w} : item'[d] = item[d]
    BY <1>1, <1>2, <1>3, PopIndInv
  <1>5. /\ pc' \in [Thread -> PC]
        /\ \A d \in Thread : pc'[d] = IF d = w THEN "exec" ELSE pc[d]
    BY <1>1, <1>2 DEF TypeOK, PC
  <1>6. TypeOK'
    BY <1>1, <1>4, <1>5 DEF TypeOK, Posted
  <1>7. HoldsItem'
    BY <1>1, <1>4, <1>5 DEF HoldsItem, Holding
  <1>8. CountsActive'
    <2>1. w \notin Executing /\ Executing' = Executing \union {w}
      BY <1>1, <1>5 DEF Executing, Counted
    <2> QED
      BY <1>1, <1>2, <2>1, FS_AddElement DEF CountsActive
  <1>9. Roles'
    BY <1>1, <1>5, ThreadPoolAssumption DEF Roles, Thread
  <1> QED
    BY <1>4, <1>6, <1>7, <1>8, <1>9 DEF IndInv

(* resume() returns: the item has ended, or was scheduled again before. *)
LEMMA DoneIndInv ==
  ASSUME IndInv, NEW t \in Thread, pc[t] \in Counted \ {"rone"},
         NEW l \in PC \ (Holding \union Counted),
         finished' = (finished \union {item[t]}) \ {NoItem},
         item' = [item EXCEPT ![t] = NoItem],
         active_tasks_' = active_tasks_ - 1,
         Goto(t, l), Roles', UNCHANGED <<work_queue_, posted, ops>>
  PROVE  IndInv'
  <1>1. TypeOK /\ HoldsItem /\ CountsActive /\ ItemsInOnePlace
    BY DEF IndInv
  <1>2. /\ pc' \in [Thread -> PC] /\ item' \in [Thread -> Nat]
        /\ \A d \in Thread : pc'[d] = IF d = t THEN l ELSE pc[d]
        /\ \A d \in Thread : item'[d] = IF d = t THEN NoItem ELSE item[d]
    BY <1>1 DEF TypeOK, Goto, NoItem
  <1>3. Posted' = Posted /\ Queued' = Queued /\ NoItem \notin Posted
    BY <1>1 DEF Posted, Queued, NoItem, TypeOK
  <1>4. TypeOK'
    <2>1. item[t] = NoItem \/ item[t] \in Posted
      BY <1>1 DEF ItemsInOnePlace
    <2> QED
      BY <1>1, <1>2, <1>3, <2>1 DEF TypeOK
  <1>5. HoldsItem'
    BY <1>1, <1>2 DEF HoldsItem
  <1>6. CountsActive'
    <2>1. t \in Executing /\ Executing' = Executing \ {t}
      BY <1>2 DEF Executing
    <2> QED
      BY <1>1, <2>1, FS_RemoveElement DEF CountsActive
  <1>7. ItemsInOnePlace'
    <2>1. \A c, d \in Thread : c # d /\ item'[c] # NoItem => item'[c] # item'[d]
      BY <1>1, <1>2 DEF ItemsInOnePlace
    <2>2. NoItem \notin Queued
      BY <1>1, <1>3 DEF ItemsInOnePlace
    <2>3. \A d \in Thread : item'[d] \notin Queued'
      BY <1>1, <1>2, <1>3, <2>2 DEF ItemsInOnePlace
    <2>4. {item'[d] : d \in Thread} \ {NoItem}
            = ({item[d] : d \in Thread} \ {NoItem}) \ {item[t]}
      BY <1>1, <1>2 DEF ItemsInOnePlace
    <2>5. item[t] \notin Queued /\ finished' = (finished \union {item[t]}) \ {NoItem}
      BY <1>1 DEF ItemsInOnePlace
    <2>6. Posted' \ finished' = (Posted \ finished) \ {item[t]}
      BY <1>3, <2>5
    <2>7. Queued' \union ({item'[d] : d \in Thread} \ {NoItem}) = Posted' \ finished'
      BY <1>1, <1>3, <2>4, <2>5, <2>6 DEF ItemsInOnePlace
    <2> QED
      BY <1>1, <2>1, <2>3, <2>7 DEF ItemsInOnePlace
  <1> QED
    BY <1>4, <1>5, <1>6, <1>7 DEF IndInv

(* RunOnce pops an item; its active_tasks_++ comes in a later step. *)
LEMMA RunOnceIndInv ==
  ASSUME IndInv, NEW u \in User, RunOnce(u)
  PROVE  IndInv'
  <1>1. TypeOK /\ HoldsItem /\ CountsActive /\ ItemsInOnePlace /\ Roles
        /\ u \in Thread /\ u \notin Worker
    BY ThreadPoolAssumption DEF IndInv, Thread
  <1>2. CASE pc[u] = "idle"
    <2>1. /\ "RunOnce" \in ops /\ work_queue_ # <<>>
          /\ item' = [item EXCEPT ![u] = Head(work_queue_)]
          /\ work_queue_' = Tail(work_queue_)
          /\ pc' = [pc EXCEPT ![u] = "popped"]
          /\ UNCHANGED <<active_tasks_, finished, posted, ops>>
      BY <1>2 DEF RunOnce, Goto
    <2>2. item[u] = NoItem
      BY <1>1, <1>2 DEF HoldsItem, Holding
    <2>3. /\ ItemsInOnePlace' /\ work_queue_' \in Seq(Nat)
          /\ item' \in [Thread -> Nat]
          /\ item'[u] # NoItem
          /\ \A d \in Thread \ {u} : item'[d] = item[d]
      BY <1>1, <2>1, <2>2, PopIndInv
    <2>4. /\ pc' \in [Thread -> PC]
          /\ \A d \in Thread : pc'[d] = IF d = u THEN "popped" ELSE pc[d]
      BY <1>1, <2>1 DEF TypeOK, PC
    <2>5. TypeOK'
      BY <1>1, <2>1, <2>3, <2>4 DEF TypeOK, Posted
    <2>6. HoldsItem'
      BY <1>1, <2>3, <2>4 DEF HoldsItem, Holding
    <2>7. Executing' = Executing
      BY <1>2, <2>4 DEF Executing, Counted
    <2>8. Roles'
      BY <1>1, <2>1, <2>4 DEF Roles, Thread
    <2> QED
      BY <1>1, <2>1, <2>3, <2>5, <2>6, <2>7, <2>8 DEF IndInv, CountsActive
  <1>3. CASE pc[u] = "popped"
    <2>1. /\ active_tasks_' = active_tasks_ + 1
          /\ pc' = [pc EXCEPT ![u] = "once"]
          /\ UNCHANGED <<work_queue_, item, finished, posted, ops>>
      BY <1>3 DEF RunOnce, Goto
    <2>2. /\ pc' \in [Thread -> PC]
          /\ \A d \in Thread : pc'[d] = IF d = u THEN "once" ELSE pc[d]
      BY <1>1, <2>1 DEF TypeOK, PC
    <2>3. Posted' = Posted /\ Queued' = Queued
      BY <2>1 DEF Posted, Queued
    <2>4. TypeOK' /\ HoldsItem'
      BY <1>1, <1>3, <2>1, <2>2, <2>3 DEF TypeOK, HoldsItem, Holding
    <2>5. ItemsInOnePlace'
      BY <1>1, <2>1, <2>3 DEF ItemsInOnePlace
    <2>6. u \notin Executing /\ Executing' = Executing \union {u}
      BY <1>1, <1>3, <2>2 DEF Executing, Counted
    <2>7. CountsActive'
      BY <1>1, <2>1, <2>6, FS_AddElement DEF CountsActive
    <2>8. Roles'
      BY <1>1, <1>3, <2>1, <2>2 DEF Roles, Thread
    <2> QED
      BY <2>4, <2>5, <2>7, <2>8 DEF IndInv
  <1>4. CASE pc[u] = "once"
    <2>1. /\ active_tasks_' = active_tasks_ - 1
          /\ finished' = finished \union {item[u]}
          /\ item' = [item EXCEPT ![u] = NoItem]
          /\ Goto(u, "idle")
          /\ UNCHANGED <<work_queue_, posted, ops>>
      BY <1>4 DEF RunOnce
    <2>2. item[u] # NoItem /\ NoItem \notin finished
      BY <1>1, <1>4 DEF HoldsItem, Holding, TypeOK, Posted, NoItem
    <2>3. finished' = (finished \union {item[u]}) \ {NoItem}
      BY <2>1, <2>2
    <2>4. Roles'
      BY <1>1, <1>4, <2>1 DEF Roles, Thread, Goto, TypeOK
    <2> QED
      BY <1>1, <1>4, <2>1, <2>3, <2>4, DoneIndInv DEF PC, Counted, Holding
  <1> QED
    BY <1>2, <1>3, <1>4 DEF RunOnce

(* Everything a worker does. *)
LEMMA WorkerIndInv ==
  ASSUME IndInv, NEW w \in Worker, WorkerStep(w)
  PROVE  IndInv'
  <1>1. TypeOK /\ Roles /\ w \in Thread /\ w \notin User
    BY ThreadPoolAssumption DEF IndInv, Thread
  <1>2. ASSUME NEW l \in PC \ {"popped", "once"}, Goto(w, l),
               l \in Holding <=> pc[w] \in Holding,
               l \in Counted <=> pc[w] \in Counted,
               UNCHANGED <<work_queue_, active_tasks_, item, posted, finished, ops>>
        PROVE  IndInv'
    <2>1. Roles'
      BY <1>1, <1>2 DEF Roles, TypeOK, Goto, Thread
    <2> QED
      BY <1>1, <1>2, <2>1, GotoIndInv
  <1>3. ASSUME NEW l \in PC \ {"popped", "once"},
               NotifyOne(w, l) \/ NotifyAll(w, l), pc[w] # "blocked",
               l \in Holding <=> pc[w] \in Holding,
               l \in Counted <=> pc[w] \in Counted,
               UNCHANGED <<work_queue_, active_tasks_, item, posted, finished, ops>>
        PROVE  IndInv'
    <2>1. /\ pc' \in [Thread -> PC] /\ pc'[w] = l
          /\ \A d \in Thread \ {w} : \/ pc'[d] = pc[d]
                                     \/ pc[d] = "blocked" /\ pc'[d] = "lock"
      BY <1>1, <1>3, NotifyRoles
    <2>2. Roles'
      BY <1>1, <1>3, <2>1 DEF Roles, Thread
    <2>3. \A t \in Thread : /\ pc'[t] \in Holding <=> pc[t] \in Holding
                            /\ pc'[t] \in Counted <=> pc[t] \in Counted
      BY <1>3, <2>1 DEF Holding, Counted
    <2> QED
      BY <1>3, <2>1, <2>2, <2>3, MoveIndInv
  <1>4. CASE WorkerTest(w)
    BY <1>2, <1>4 DEF WorkerTest, PC, Holding, Counted
  <1>5. CASE WorkerWait(w)
    <2>1. CASE Take(w)
      BY <1>5, <2>1, TakeIndInv DEF WorkerWait
    <2>2. CASE ~Take(w)
      BY <1>2, <1>5, <2>2 DEF WorkerWait, PC, Holding, Counted
    <2> QED
      BY <2>1, <2>2
  <1>6. CASE WorkerBreak(w)
    BY <1>2, <1>6 DEF WorkerBreak, PC, Holding, Counted
  <1>7. CASE Block(w)
    BY <1>2, <1>7 DEF Block, PC, Holding, Counted
  <1>8. CASE RequeueNotify(w)
    BY <1>3, <1>8 DEF RequeueNotify, PC, Holding, Counted
  <1>9. CASE WorkerDone(w)
    <2>1. Roles'
      BY <1>1, <1>9 DEF WorkerDone, Roles, TypeOK, Goto, Thread
    <2> QED
      BY <1>1, <1>9, <2>1, DoneIndInv DEF WorkerDone, PC, Holding, Counted
  <1>10. CASE WorkerNotify(w)
    BY <1>3, <1>10 DEF WorkerNotify, PC, Holding, Counted
  <1> QED
    BY <1>4, <1>5, <1>6, <1>7, <1>8, <1>9, <1>10, RequeueIndInv DEF WorkerStep

(* Everything a user does. *)
LEMMA UserIndInv ==
  ASSUME IndInv, NEW u \in User, UserStep(u)
  PROVE  IndInv'
  <1> DEFINE Place == PC \ (Holding \union Counted \union {"loop", "true"})
  <1>1. TypeOK /\ Roles /\ u \in Thread /\ u \notin Worker
    BY ThreadPoolAssumption DEF IndInv, Thread
  <1>2. ASSUME NEW l \in Place, Goto(u, l), pc[u] \in Place,
               l \in {"lock", "false", "blocked"} => "Run" \in ops,
               UNCHANGED <<work_queue_, active_tasks_, item, posted, finished, ops>>
        PROVE  IndInv'
    <2>1. Roles'
      BY <1>1, <1>2 DEF Roles, TypeOK, Goto, Thread, Holding, Counted
    <2> QED
      BY <1>1, <1>2, <2>1, GotoIndInv
  <1>3. ASSUME NEW l \in Place, NotifyOne(u, l) \/ NotifyAll(u, l),
               pc[u] \in Place \ {"blocked"}, l \notin {"lock", "false", "blocked"},
               UNCHANGED <<work_queue_, active_tasks_, item, posted, finished, ops>>
        PROVE  IndInv'
    <2>1. /\ pc' \in [Thread -> PC] /\ pc'[u] = l
          /\ \A d \in Thread \ {u} : \/ pc'[d] = pc[d]
                                     \/ pc[d] = "blocked" /\ pc'[d] = "lock"
      BY <1>1, <1>3, NotifyRoles
    <2>2. Roles'
      BY <1>1, <1>3, <2>1 DEF Roles, Thread, Holding, Counted
    <2>3. \A t \in Thread : /\ pc'[t] \in Holding <=> pc[t] \in Holding
                            /\ pc'[t] \in Counted <=> pc[t] \in Counted
      BY <1>3, <2>1 DEF Holding, Counted
    <2> QED
      BY <1>3, <2>1, <2>2, <2>3, MoveIndInv
  <1>4. CASE Schedule(u)
    <2>1. CASE pc[u] = "idle"
      <3>1. /\ posted' = posted + 1 /\ work_queue_' = Append(work_queue_, posted + 1)
            /\ pc' = [pc EXCEPT ![u] = "one"]
            /\ UNCHANGED <<active_tasks_, item, finished, ops>>
        BY <1>4, <2>1 DEF Schedule, Goto
      <3>2. ItemsInOnePlace' /\ work_queue_' \in Seq(Nat) /\ finished' \subseteq Posted'
        BY <3>1, PushIndInv
      <3>3. /\ pc' \in [Thread -> PC]
            /\ \A d \in Thread : pc'[d] = IF d = u THEN "one" ELSE pc[d]
        BY <1>1, <3>1 DEF TypeOK, PC
      <3>4. TypeOK'
        BY <1>1, <3>1, <3>2, <3>3 DEF TypeOK
      <3>5. HoldsItem' /\ Executing' = Executing
        BY <2>1, <3>1, <3>3 DEF IndInv, HoldsItem, Holding, Executing, Counted
      <3>6. Roles'
        BY <1>1, <3>1, <3>3 DEF Roles, Thread
      <3> QED
        BY <3>1, <3>2, <3>4, <3>5, <3>6 DEF IndInv, CountsActive
    <2>2. CASE pc[u] # "idle"
      BY <1>3, <1>4, <2>2 DEF Schedule, PC, Holding, Counted
    <2> QED
      BY <2>1, <2>2
  <1>5. CASE RunStart(u)
    BY <1>2, <1>5 DEF RunStart, PC, Holding, Counted
  <1>6. CASE RunWait(u)
    BY <1>1, <1>2, <1>6 DEF RunWait, PC, Holding, Counted, Roles
  <1>7. CASE Block(u)
    BY <1>1, <1>2, <1>7 DEF Block, PC, Holding, Counted, Roles
  <1>8. CASE StopFlag(u)
    BY <1>2, <1>8 DEF StopFlag, PC, Holding, Counted
  <1>9. CASE StopNotify(u)
    BY <1>3, <1>9 DEF StopNotify, PC, Holding, Counted
  <1>10. CASE Destroy(u)
    BY <1>2, <1>3, <1>10 DEF Destroy, PC, Holding, Counted
  <1> QED
    BY <1>4, <1>5, <1>6, <1>7, <1>8, <1>9, <1>10, RunOnceIndInv DEF UserStep

(* A wakeup without a notification. *)
LEMMA SpuriousIndInv ==
  ASSUME IndInv, NEW t \in Thread, SpuriousWakeup(t)
  PROVE  IndInv'
  <1>1. TypeOK /\ Roles
    BY DEF IndInv
  <1>2. Roles'
    BY <1>1 DEF SpuriousWakeup, Roles, TypeOK, Goto, Thread
  <1> QED
    BY <1>2, GotoIndInv DEF SpuriousWakeup, PC, Holding, Counted

(***************************************************************************)
(* IndInv holds in every reachable state, whatever the program calls.      *)
(***************************************************************************)
THEOREM Inductive == Spec => []IndInv
  <1>1. ASSUME IndInv, UNCHANGED vars PROVE IndInv'
    <2>1. Roles'
      BY <1>1 DEF IndInv, Roles, vars
    <2> QED
      BY <1>1, <2>1, MoveIndInv DEF vars, IndInv, TypeOK
  <1>2. IndInv /\ [Next]_vars => IndInv'
    BY <1>1, WorkerIndInv, UserIndInv, SpuriousIndInv DEF Next
  <1> QED
    BY <1>2, InitIndInv, PTL DEF Spec

(***************************************************************************)
(* No item is dropped or executed twice, whatever the users call: Run(),   *)
(* RunOnce(), Stop() and the destructor at any moment.                     *)
(***************************************************************************)
THEOREM PoolKeepsItems == PoolSpec => []ItemsInOnePlace
  <1>1. IndInv => ItemsInOnePlace
    BY DEF IndInv
  <1> QED
    BY <1>1, PoolParts, Inductive, PTL

(* A call of Run() that returns without a Stop() found the queue empty and  *)
(* nobody counted; then nobody has an item either.                          *)
LEMMA ReturnIdle ==
  ASSUME IndInv, Next, NEW u \in User, pc[u] = "lock", pc'[u] = "idle", ~stopping_,
         \A P \in Programs : ~({"Run", "RunOnce"} \subseteq P)
  PROVE  finished = Posted
  <1>1. TypeOK /\ HoldsItem /\ ItemsInOnePlace /\ CountsActive /\ Roles
        /\ u \in Thread /\ u \notin Worker
    BY ThreadPoolAssumption DEF IndInv, Thread
  <1>2. RunWait(u)
    <2>1. ASSUME NEW t \in Thread, NEW l, t # u, Goto(t, l) PROVE FALSE
      BY <1>1, <2>1 DEF Goto, TypeOK
    <2>2. ASSUME NEW t \in Thread, NEW l, t # u, NotifyOne(t, l) \/ NotifyAll(t, l)
          PROVE  FALSE
      <3>1. CASE NotifyAll(t, l)
        BY <1>1, <2>2, <3>1 DEF NotifyAll, Waiting, TypeOK
      <3>2. CASE NotifyOne(t, l)
        BY <1>1, <2>1, <2>2, <3>2 DEF NotifyOne, Waiting, TypeOK
      <3> QED
        BY <2>2, <3>1, <3>2
    <2>3. ASSUME NEW w \in Worker, WorkerStep(w) PROVE FALSE
      <3>1. w \in Thread /\ w # u
        BY <1>1 DEF Thread
      <3> QED
        BY <2>1, <2>2, <2>3, <3>1 DEF WorkerStep, WorkerTest, WorkerWait, Take,
             WorkerBreak, Block, Requeue, RequeueNotify, WorkerDone, WorkerNotify
    <2>4. ASSUME NEW d \in User, d # u, UserStep(d) PROVE FALSE
      <3>1. d \in Thread
        BY DEF Thread
      <3> QED
        BY <2>1, <2>2, <2>4, <3>1 DEF UserStep, Schedule, RunStart, RunWait, Block,
             RunOnce, StopFlag, StopNotify, Destroy
    <2>5. ASSUME NEW t \in Thread, SpuriousWakeup(t) PROVE FALSE
      BY <2>1, <2>5 DEF SpuriousWakeup
    <2>6. UserStep(u)
      BY <2>3, <2>4, <2>5 DEF Next
    <2>7. ~Destroy(u)
      <3>1. Destroy(u) => pc[u] = "idle" \/ pc[u] = "dtor" \/ pc[u] = "join"
        BY DEF Destroy
      <3> QED
        BY <3>1
    <2> QED
      BY <2>6, <2>7 DEF UserStep, Schedule, RunStart, Block, RunOnce,
           StopFlag, StopNotify
  <1>3. RunDone
    BY <1>1, <1>2 DEF RunWait, Goto, TypeOK
  <1>4. work_queue_ = <<>> /\ Executing = {}
    BY <1>1, <1>3, FS_EmptySet DEF RunDone, CountsActive
  <1>5. "Run" \in ops /\ "RunOnce" \notin ops
    BY <1>1 DEF Roles, TypeOK
  <1>6. \A t \in Thread : item[t] = NoItem
    <2> SUFFICES ASSUME NEW t \in Thread, pc[t] \in Holding PROVE FALSE
      BY <1>1 DEF HoldsItem
    <2>1. pc[t] \notin {"exec", "once"}
      BY <1>4 DEF Executing, Counted
    <2>2. pc[t] # "popped"
      BY <1>1, <1>5 DEF Roles, Thread
    <2> QED
      BY <2>1, <2>2 DEF Holding
  <1>7. Queued = {}
    BY <1>4 DEF Queued
  <1>8. {item[t] : t \in Thread} \ {NoItem} = {}
    BY <1>6
  <1> QED
    BY <1>1, <1>7, <1>8 DEF ItemsInOnePlace, TypeOK

(***************************************************************************)
(* Run() never returns early, in every program that does not call RunOnce()*)
(* too (RunOnce() counts its item only after it has released the mutex).   *)
(***************************************************************************)
THEOREM RunSound ==
  ASSUME \A P \in Programs : ~({"Run", "RunOnce"} \subseteq P)
  PROVE  PoolSpec => RunReturnsIdle
  <1>1. IndInv /\ [Next]_vars
          => [\A u \in User : pc[u] = "lock" /\ pc'[u] = "idle" /\ ~stopping_
                                => finished = Posted]_vars
    BY ReturnIdle
  <1> QED
    BY <1>1, PoolParts, Inductive, PTL DEF Spec, RunReturnsIdle

-----------------------------------------------------------------------------
(***************************************************************************)
(* Proof that the timer thread gives every delayed handle to Schedule()    *)
(* once and not early, for every set of handles, delays and users, as long *)
(* as no push has moved the vector under TimerLoop's reference.            *)
(***************************************************************************)

TimerTypeOK ==
  /\ delayed_queue_ \subseteq Handle
  /\ when \in [Handle -> Nat]
  /\ now \in Nat
  /\ handle \in Handle \union {NoHandle}
  /\ tpc \in TimerPC
  /\ fired \in Seq(Handle \X Nat)

(* The first element of the vector is one of the queue, and the reference   *)
(* is bound to it: there is one to read wherever TimerLoop reads it.        *)
FrontSound ==
  /\ top = NoHandle
  /\ front \in IF delayed_queue_ = {} THEN {NoHandle} ELSE delayed_queue_
  /\ tpc \in {"until", "asleep", "notified", "timeout"} => delayed_queue_ # {}

(* Between pop() and Schedule() the thread has a handle that is due. *)
InHand ==
  /\ handle # NoHandle <=> tpc = "schedule"
  /\ handle # NoHandle => when[handle] <= now

Core == TimerTypeOK /\ FrontSound /\ InHand /\ DelayedOnceNotEarly

TimerIndInv == moved \in BOOLEAN /\ (~moved => Core)

-----------------------------------------------------------------------------
(* Nothing is delayed to begin with. *)
LEMMA TimerInitInv == TimerInit => TimerIndInv
  <1> SUFFICES ASSUME TimerInit PROVE Core /\ moved = FALSE
    BY DEF TimerIndInv
  <1>1. fired = <<>> /\ Fired = {}
    BY DEF TimerInit, Fired
  <1>2. TimerTypeOK /\ FrontSound /\ InHand
    BY <1>1, TimerAssumption
       DEF TimerInit, TimerTypeOK, FrontSound, InHand, TimerPC, Never
  <1>3. Requested = {}
    BY DEF TimerInit, Requested
  <1>4. DelayedOnceNotEarly
    BY <1>1, <1>3 DEF TimerInit, DelayedOnceNotEarly
  <1> QED
    BY <1>2, <1>4 DEF TimerInit, Core

(* A step of the timer thread or the clock that moves no handle. *)
LEMMA MoveCore ==
  ASSUME Core, tpc' \in TimerPC, now' \in Nat, now' >= now,
         tpc' \in {"until", "asleep", "notified", "timeout"} => delayed_queue_ # {},
         tpc' = "schedule" <=> tpc = "schedule",
         handle' = handle, top' = NoHandle,
         UNCHANGED <<queue, fired>>
  PROVE  Core'
  <1>1. /\ delayed_queue_' = delayed_queue_ /\ front' = front /\ when' = when
        /\ fired' = fired
    BY DEF queue
  <1>2. Requested' = Requested /\ Fired' = Fired
    BY <1>1 DEF Requested, Fired
  <1>3. TimerTypeOK' /\ FrontSound'
    BY <1>1 DEF Core, TimerTypeOK, FrontSound
  <1>4. InHand'
    BY <1>1 DEF Core, TimerTypeOK, InHand
  <1>5. DelayedOnceNotEarly'
    BY <1>1, <1>2 DEF Core, DelayedOnceNotEarly
  <1> QED
    BY <1>3, <1>4, <1>5 DEF Core

(* ScheduleAfter() in any state of the timer thread. *)
LEMMA ScheduleAfterCore ==
  ASSUME Core, NEW u \in Caller, NEW h \in Handle, NEW d \in Delay,
         ScheduleAfter(u, h, d), moved = FALSE, moved' = FALSE
  PROVE  Core'
  <1>1. /\ when[h] = Never /\ now + d <= MaxTime /\ d \in Nat /\ now + d \in Nat
        /\ when' = [when EXCEPT ![h] = now + d]
        /\ delayed_queue_' = delayed_queue_ \union {h}
        /\ UNCHANGED <<now, tpc, handle, fired>>
    BY TimerAssumption DEF ScheduleAfter, Core, TimerTypeOK
  <1>2. top' = NoHandle
    BY DEF ScheduleAfter, Core, FrontSound
  <1>3. front' \in {h, front} /\ (front = NoHandle => front' = h)
    BY DEF ScheduleAfter
  <1>4. \A g \in Handle : when'[g] = IF g = h THEN now + d ELSE when[g]
    BY <1>1 DEF Core, TimerTypeOK
  <1>5. now + d # Never
    BY <1>1, TimerAssumption DEF Never, Core, TimerTypeOK
  <1>6. h \notin Requested /\ Requested' = Requested \union {h}
    BY <1>1, <1>4, <1>5 DEF Requested
  <1>7. Fired' = Fired
    BY <1>1 DEF Fired
  <1>8. TimerTypeOK'
    BY <1>1 DEF Core, TimerTypeOK
  <1>9. FrontSound'
    BY <1>1, <1>2, <1>3 DEF Core, FrontSound
  <1>10. h \notin delayed_queue_ /\ h # handle /\ h \notin Fired
    <2>1. h # NoHandle
      BY TimerAssumption
    <2> QED
      BY <1>6, <2>1 DEF Core, DelayedOnceNotEarly
  <1>11. InHand'
    BY <1>1, <1>4, <1>10 DEF Core, InHand, TimerTypeOK
  <1>12. DelayedOnceNotEarly'
    <2>1. delayed_queue_' \union ({handle'} \ {NoHandle}) \union Fired' = Requested'
      BY <1>1, <1>6, <1>7 DEF Core, DelayedOnceNotEarly
    <2>2. /\ delayed_queue_' \intersect Fired' = {}
          /\ handle' \notin delayed_queue_' \union Fired'
      BY <1>1, <1>7, <1>10 DEF Core, DelayedOnceNotEarly
    <2>3. ASSUME NEW i \in DOMAIN fired PROVE fired'[i][2] >= when'[fired'[i][1]]
      <3>1. fired[i][1] \in Fired /\ fired[i][1] \in Handle
        BY DEF Fired, Core, TimerTypeOK
      <3>2. when'[fired[i][1]] = when[fired[i][1]]
        BY <1>4, <1>10, <3>1
      <3> QED
        BY <1>1, <3>2 DEF Core, DelayedOnceNotEarly
    <2> QED
      BY <1>1, <2>1, <2>2, <2>3 DEF Core, DelayedOnceNotEarly
  <1> QED
    BY <1>8, <1>9, <1>11, <1>12 DEF Core

(* The front of the queue goes into the thread's hand when it is due. *)
LEMMA TimerPopCore ==
  ASSUME Core, TimerPop
  PROVE  Core'
  <1>1. /\ tpc = "timeout" /\ delayed_queue_ # {} /\ front \in delayed_queue_
        /\ front \in Handle /\ handle = NoHandle
    BY DEF TimerPop, Core, FrontSound, InHand, TimerTypeOK
  <1>2. ~Dangling /\ TopWhen = {when[front]} /\ TopHandle = {front}
    BY DEF Core, FrontSound, Dangling, TopWhen, TopHandle
  <1>3. /\ top' = NoHandle
        /\ UNCHANGED <<capacity, when, now, fired>>
    BY DEF TimerPop
  <1>4. CASE now >= when[front] /\ handle' = front
             /\ delayed_queue_' = delayed_queue_ \ {front} /\ tpc' = "schedule"
             /\ front' \in (IF delayed_queue_' = {} THEN {NoHandle} ELSE delayed_queue_')
    <2>1. Requested' = Requested /\ Fired' = Fired
      BY <1>3 DEF Requested, Fired
    <2>2. front # NoHandle
      BY <1>1, TimerAssumption
    <2>3. TimerTypeOK'
      BY <1>1, <1>3, <1>4 DEF Core, TimerTypeOK, TimerPC
    <2>4. FrontSound'
      BY <1>3, <1>4 DEF FrontSound
    <2>5. InHand'
      BY <1>1, <1>3, <1>4, <2>2 DEF Core, TimerTypeOK, InHand
    <2>6. DelayedOnceNotEarly'
      BY <1>1, <1>3, <1>4, <2>1, <2>2 DEF Core, DelayedOnceNotEarly
    <2> QED
      BY <2>3, <2>4, <2>5, <2>6 DEF Core
  <1>5. CASE tpc' = "loop" /\ UNCHANGED <<handle, delayed_queue_, front>>
    BY <1>1, <1>3, <1>5, MoveCore DEF TimerPC, queue, Core, TimerTypeOK
  <1> QED
    BY <1>2, <1>4, <1>5 DEF TimerPop

(* Schedule(handle): the handle leaves the thread's hand, once and in time. *)
LEMMA TimerScheduleCore ==
  ASSUME Core, TimerSchedule
  PROVE  Core'
  <1> DEFINE e == <<handle, now>>
  <1>1. /\ tpc = "schedule" /\ fired' = Append(fired, e)
        /\ handle' = NoHandle /\ tpc' = "loop"
        /\ UNCHANGED <<delayed_queue_, front, when, now, top>>
    BY DEF TimerSchedule, queue
  <1>2. handle \in Handle /\ handle # NoHandle /\ when[handle] <= now
    BY <1>1 DEF Core, InHand, TimerTypeOK
  <1>3. e \in Handle \X Nat /\ e[1] = handle /\ e[2] = now /\ fired \in Seq(Handle \X Nat)
    BY <1>2 DEF Core, TimerTypeOK
  <1> HIDE DEF e
  <1>4. /\ fired' \in Seq(Handle \X Nat)
        /\ DOMAIN fired' = DOMAIN fired \union {Len(fired) + 1}
        /\ Len(fired) + 1 \notin DOMAIN fired
        /\ \A i \in DOMAIN fired : fired'[i] = fired[i]
        /\ fired'[Len(fired) + 1] = e
    BY <1>1, <1>3
  <1>5. Fired' = Fired \union {handle}
    BY <1>3, <1>4 DEF Fired
  <1>6. Requested' = Requested
    BY <1>1 DEF Requested
  <1>7. TimerTypeOK' /\ FrontSound' /\ InHand'
    BY <1>1, <1>4 DEF Core, TimerTypeOK, FrontSound, InHand, TimerPC
  <1>8. DelayedOnceNotEarly'
    <2>1. handle \notin delayed_queue_ \union Fired
      BY DEF Core, DelayedOnceNotEarly
    <2>2. delayed_queue_' \union ({handle'} \ {NoHandle}) \union Fired' = Requested'
      BY <1>1, <1>2, <1>5, <1>6 DEF Core, DelayedOnceNotEarly
    <2>3. delayed_queue_' \intersect Fired' = {}
      BY <1>1, <1>5, <2>1 DEF Core, DelayedOnceNotEarly
    <2>4. NoHandle \notin delayed_queue_' \union Fired'
      <3>1. Fired' \subseteq Handle
        BY <1>4 DEF Fired
      <3> QED
        BY <1>7, <3>1, TimerAssumption DEF TimerTypeOK
    <2>5. \A i \in DOMAIN fired : fired[i][1] # handle
      BY <2>1 DEF Fired
    <2>6. \A i, j \in DOMAIN fired' : i # j => fired'[i][1] # fired'[j][1]
      BY <1>3, <1>4, <2>5 DEF Core, DelayedOnceNotEarly
    <2>7. \A i \in DOMAIN fired' : fired'[i][2] >= when'[fired'[i][1]]
      BY <1>1, <1>2, <1>3, <1>4 DEF Core, DelayedOnceNotEarly, TimerTypeOK
    <2> QED
      BY <1>1, <2>2, <2>3, <2>4, <2>6, <2>7 DEF DelayedOnceNotEarly
  <1> QED
    BY <1>7, <1>8 DEF Core

(* Every step, as long as nothing has moved. *)
LEMMA NextCore ==
  ASSUME Core, TimerNext, moved = FALSE, moved' = FALSE
  PROVE  Core'
  <1>1. /\ TimerTypeOK /\ FrontSound /\ InHand
        /\ tpc \in TimerPC /\ top = NoHandle /\ now \in Nat
    BY DEF Core, TimerTypeOK, FrontSound
  <1>2. ASSUME NEW u \in Caller, Notify(u) PROVE Core'
    BY <1>1, <1>2, MoveCore DEF Notify, TimerPC, FrontSound
  <1>3. ASSUME NEW u \in Caller, Stop(u) PROVE Core'
    BY <1>1, <1>3, MoveCore DEF Stop, FrontSound
  <1>4. CASE Tick
    BY <1>1, <1>4, MoveCore DEF Tick, FrontSound
  <1>5. CASE TimerSpurious
    BY <1>1, <1>5, MoveCore DEF TimerSpurious, FrontSound, TimerPC
  <1>6. CASE TimerTest
    BY <1>1, <1>6, MoveCore DEF TimerTest, TimerPC, InHand
  <1>7. CASE TimerEmpty
    BY <1>1, <1>7, MoveCore DEF TimerEmpty, TimerPC
  <1>8. CASE TimerBlock
    BY <1>1, <1>8, MoveCore DEF TimerBlock, TimerPC
  <1>9. CASE TimerUntil
    BY <1>1, <1>9, MoveCore DEF TimerUntil, TimerPC, FrontSound
  <1>10. CASE TimerSleep
    BY <1>1, <1>10, MoveCore DEF TimerSleep, TimerPC, FrontSound
  <1>11. CASE TimerTimeout
    BY <1>1, <1>11, MoveCore DEF TimerTimeout, TimerPC, FrontSound
  <1>12. CASE TimerStopped
    BY <1>1, <1>12, MoveCore DEF TimerStopped, TimerPC
  <1> QED
    BY <1>2, <1>3, <1>4, <1>5, <1>6, <1>7, <1>8, <1>9, <1>10, <1>11, <1>12,
       ScheduleAfterCore, TimerPopCore, TimerScheduleCore DEF TimerNext, TimerStep

(* A reference once left dangling stays recorded. *)
LEMMA MovedStays ==
  ASSUME TimerIndInv, TimerNext
  PROVE  moved' \in BOOLEAN /\ (moved => moved')
  BY DEF TimerIndInv, TimerNext, ScheduleAfter, Notify, Stop, Tick, TimerStep,
         TimerTest, TimerEmpty, TimerBlock, TimerUntil, TimerSleep, TimerTimeout, TimerPop,
         TimerStopped, TimerSchedule, TimerSpurious

(***************************************************************************)
(* Every delayed handle is in one place, given to Schedule() once and not  *)
(* early, until a push has moved the vector under the reference.           *)
(***************************************************************************)
THEOREM DelayedSound == PoolSpec => []DelayedOnceUnlessMoved
  <1>1. ASSUME TimerIndInv, TimerNext PROVE TimerIndInv'
    BY <1>1, NextCore, MovedStays DEF TimerIndInv
  <1>2. ASSUME TimerIndInv, UNCHANGED timerVars PROVE TimerIndInv'
    BY <1>2, MoveCore DEF TimerIndInv, Core, TimerTypeOK, FrontSound, timerVars
  <1>3. TimerIndInv => DelayedOnceUnlessMoved
    BY DEF TimerIndInv, Core, DelayedOnceUnlessMoved
  <1> QED
    BY <1>1, <1>2, <1>3, PoolParts, TimerInitInv, PTL DEF TimerSpec

=============================================================================
