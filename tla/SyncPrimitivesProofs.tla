------------------------ MODULE SyncPrimitivesProofs ------------------------
(***************************************************************************)
(* AsyncMutex, AsyncSemaphore, AsyncRWLock and AsyncLatch for every set of *)
(* coroutines, every initial count and every sequence of calls: no handle  *)
(* is lost or resumed twice, nobody waits without a reason, the mutex      *)
(* excludes, it and the semaphore implement the FIFO permit pool, and the  *)
(* reader-writer lock excludes and alternates.                             *)
(***************************************************************************)
EXTENDS SyncPrimitives, CoroutineLemmas

MutexRun == {"run", "owner", "lock?"}
MutexAsleep == {"mwait"}

(* What holds while the coroutines use the mutex. *)
MutexCore ==
  /\ StackInv(MutexRun, MutexAsleep) /\ ListsInv(MutexAsleep)
  /\ \A c \in Coro : after[c] = "run"
  /\ mutex_waiters_ \in Seq(Coro) /\ Distinct(mutex_waiters_)
  /\ Contents(mutex_waiters_) \intersect Woken = {}
  /\ Contents(mutex_waiters_) \union Woken = {c \in Coro : pc[c] = "mwait"}
  /\ locked_ \in BOOLEAN
  /\ MutualExclusion
  /\ mutex_waiters_ # <<>> => locked_

SemRun == {"run", "hold", "check"}
SemAsleep == {"susp"}

(* What holds while they use the semaphore. *)
SemCore ==
  /\ StackInv(SemRun, SemAsleep) /\ ListsInv(SemAsleep)
  /\ \A c \in Coro : after[c] = "run"
  /\ waiters_ \in Seq(Coro) /\ Distinct(waiters_)
  /\ Contents(waiters_) \intersect Woken = {}
  /\ Contents(waiters_) \union Woken = {c \in Coro : pc[c] = "susp"}
  /\ count_ \in Nat
  /\ waiters_ # <<>> => count_ = 0

RWRun == {"run", "read", "write", "read?", "write?"}
RWAsleep == {"rwait", "wwait"}

(* What holds while they use the lock. *)
RWHandles ==
  /\ read_waiters_ \in Seq(Coro) /\ Distinct(read_waiters_)
  /\ write_waiters_ \in Seq(Coro) /\ Distinct(write_waiters_)
  /\ \A c \in Contents(read_waiters_) : pc[c] = "rwait"
  /\ \A c \in Contents(write_waiters_) : pc[c] = "wwait"
  /\ (Contents(read_waiters_) \union Contents(write_waiters_)) \intersect Woken = {}
  /\ Contents(read_waiters_) \union Contents(write_waiters_) \union Woken
       = {c \in Coro : pc[c] \in RWAsleep}

RWJustified ==
  /\ read_waiters_ # <<>> => write_locked_ \/ write_waiters_ # <<>>
  /\ write_waiters_ # <<>> => write_locked_ \/ reader_count_ > 0

(* Whose turn it is: the writers behind a writer have been passed by no     *)
(* batch of readers yet, the readers behind readers by no writer.           *)
Turns ==
  /\ passed \in [Coro -> 0 .. 2]
  /\ \A c \in Coro : pc[c] \notin RWAsleep => passed[c] = 0
  /\ \A c \in Contents(read_waiters_) :
       passed[c] <= 1 /\ (~write_locked_ => passed[c] = 0)
  /\ \A c \in Contents(write_waiters_) :
       passed[c] <= 1 /\ (write_locked_ => passed[c] = 0)
  /\ \A c \in Woken : passed[c] = 0

RWCore ==
  /\ StackInv(RWRun, RWAsleep) /\ ListsInv(RWAsleep)
  /\ \A c \in Coro : after[c] = "run"
  /\ reader_count_ \in Nat /\ write_locked_ \in BOOLEAN
  /\ RWHandles /\ ReadWriteExclusion /\ RWJustified /\ Turns

RWIdle ==
  /\ reader_count_ = 0 /\ write_locked_ = FALSE
  /\ read_waiters_ = <<>> /\ write_waiters_ = <<>>

LatchRun == {"run", "wait?", "open"}
LatchAsleep == {"lwait"}

(* What holds while they use the latch. *)
LatchCore ==
  /\ StackInv(LatchRun, LatchAsleep) /\ ListsInv(LatchAsleep)
  /\ latch_waiters_ \in Seq(Coro) /\ Distinct(latch_waiters_)
  /\ Contents(latch_waiters_) \intersect Woken = {}
  /\ Contents(latch_waiters_) \union Woken = {c \in Coro : pc[c] = "lwait"}
  /\ latch_count_ \in Nat
  /\ latch_waiters_ # <<>> => latch_count_ > 0

IndInv ==
  /\ subject \in {"mutex", "semaphore", "rwlock", "latch"}
  /\ IF subject = "mutex" THEN MutexCore
     ELSE mutex_waiters_ = <<>> /\ locked_ = FALSE
  /\ IF subject = "semaphore" THEN SemCore ELSE waiters_ = <<>>
  /\ IF subject = "rwlock" THEN RWCore ELSE RWIdle
  /\ IF subject = "latch" THEN LatchCore ELSE latch_waiters_ = <<>>

(* The labels of the coroutines, for each primitive. *)
LEMMA SyncLabels ==
  /\ Labels(MutexRun, MutexAsleep)
  /\ Labels(SemRun, SemAsleep)
  /\ Labels(RWRun, RWAsleep)
  /\ Labels(LatchRun, LatchAsleep)
  BY DEF Labels, MutexRun, MutexAsleep, SemRun, SemAsleep, RWRun, RWAsleep,
         LatchRun, LatchAsleep

(* Nothing is in the empty deque. *)
LEMMA NothingQueued == Contents(<<>>) = {} /\ Distinct(<<>>) /\ <<>> \in Seq(Coro)
  BY DEF Contents, Distinct

-----------------------------------------------------------------------------
(* The mutex *)

(* The mutex is taken from await_ready, await_suspend or TryLock(). *)
LEMMA TakeLockCore ==
  ASSUME MutexCore, NEW c \in Coro, pc[c] \in {"run", "lock?"}, TakeLock(c)
  PROVE  MutexCore' /\ LP!Take(c)
  <1>1. ~locked_ /\ locked_' = TRUE /\ At(c, "owner") /\ mutex_waiters_' = mutex_waiters_
    BY DEF TakeLock
  <1>2. /\ StackInv(MutexRun, MutexAsleep)' /\ ListsInv(MutexAsleep)'
        /\ Woken' = Woken
        /\ \A d \in Coro : pc'[d] = IF d = c THEN "owner" ELSE pc[d]
    BY <1>1, AtInv, SyncLabels DEF MutexCore, MutexRun
  <1>3. mutex_waiters_ = <<>> /\ LockOwners = {}
    BY <1>1 DEF MutexCore, MutualExclusion
  <1>4. LockOwners' = {c}
    BY <1>2, <1>3 DEF LockOwners
  <1>5. MutualExclusion'
    BY <1>1, <1>4 DEF MutualExclusion
  <1>6. MutexCore'
    BY <1>1, <1>2, <1>3, <1>5 DEF MutexCore, At, stack
  <1>7. LP!Queued = {}
    BY <1>3 DEF LP!Queued
  <1> QED
    BY <1>1, <1>3, <1>4, <1>6, <1>7 DEF LP!Take

(* await_suspend finds the mutex locked: c queues. *)
LEMMA LockQueueCore ==
  ASSUME MutexCore, NEW c \in Coro, pc[c] = "lock?", locked_,
         mutex_waiters_' = Append(mutex_waiters_, c), Leave(c, "mwait"),
         UNCHANGED locked_
  PROVE  MutexCore' /\ LP!Enqueue(c)
  <1>1. /\ StackInv(MutexRun, MutexAsleep)' /\ ListsInv(MutexAsleep)'
        /\ Woken' = Woken
        /\ pc'[c] = "mwait"
        /\ \A d \in Coro \ {c} :
             pc'[d] = pc[d] \/ (pc[d] = "nest" /\ pc'[d] \in {after[d], "wake"})
    BY LeaveInv, SyncLabels DEF MutexCore, MutexRun, MutexAsleep
  <1>2. \A d \in Coro : after[d] = "run" /\ after'[d] = "run"
    BY DEF MutexCore, Leave
  <1>3. c \notin Contents(mutex_waiters_) /\ c \notin Woken
    BY DEF MutexCore
  <1>4. /\ mutex_waiters_' \in Seq(Coro) /\ Distinct(mutex_waiters_')
        /\ Contents(mutex_waiters_') = Contents(mutex_waiters_) \union {c}
    BY <1>3, PushBackSets DEF MutexCore
  <1>5. {d \in Coro : pc'[d] = "mwait"} = {d \in Coro : pc[d] = "mwait"} \union {c}
    BY <1>1, <1>2
  <1>6. c \notin LockOwners /\ LockOwners' = LockOwners
    BY <1>1, <1>2, <1>3 DEF LockOwners
  <1>7. MutexCore'
    BY <1>1, <1>2, <1>3, <1>4, <1>5, <1>6 DEF MutexCore, MutualExclusion
  <1>8. LP!Queued = Contents(mutex_waiters_)
    BY DEF LP!Queued, Contents
  <1> QED
    BY <1>3, <1>6, <1>7, <1>8 DEF LP!Enqueue

(* Unlock(): the mutex goes to the first waiter, who is still suspended, or *)
(* becomes free.                                                            *)
LEMMA MutexUnlockCore ==
  ASSUME MutexCore, NEW c \in Coro, Unlock(c)
  PROVE  MutexCore' /\ LP!Give(c)
  <1>0. pc[c] = "owner" /\ LockOwners = {c} /\ locked_
    BY DEF Unlock, MutexCore, MutualExclusion, LockOwners
  <1>1. CASE mutex_waiters_ # <<>>
    <2> DEFINE w == Head(mutex_waiters_)
               q == <<w>>
    <2>1. /\ mutex_waiters_' = Tail(mutex_waiters_) /\ WakeAll(c, q, "run")
          /\ locked_' = locked_
      BY <1>1 DEF Unlock
    <2>2. /\ Tail(mutex_waiters_) \in Seq(Coro) /\ Distinct(Tail(mutex_waiters_))
          /\ w \in Coro /\ w \in Contents(mutex_waiters_)
          /\ Contents(Tail(mutex_waiters_)) = Contents(mutex_waiters_) \ {w}
      BY <1>1, PopFrontSets DEF MutexCore
    <2> HIDE DEF w
    <2>3. q \in Seq(Coro) /\ q # <<>> /\ Distinct(q) /\ Contents(q) = {w}
      BY <2>2, OneSets
    <2> HIDE DEF q
    <2>4. w \notin Woken /\ pc[w] = "mwait"
      BY <2>2 DEF MutexCore
    <2>5. /\ StackInv(MutexRun, MutexAsleep)' /\ ListsInv(MutexAsleep)'
          /\ Woken' = Woken \union {w}
          /\ pc'[c] = "wake"
          /\ \A d \in Coro \ {c} : pc'[d] = pc[d]
      <3>1. /\ pc[c] \in MutexRun /\ "run" \in MutexRun
            /\ \A v \in Contents(q) : pc[v] \in MutexAsleep
            /\ Contents(q) \intersect Woken = {}
        BY <1>0, <2>3, <2>4 DEF MutexRun, MutexAsleep
      <3>2. StackInv(MutexRun, MutexAsleep) /\ ListsInv(MutexAsleep)
        BY DEF MutexCore
      <3> QED
        BY <2>1, <2>3, <3>1, <3>2, WakeAllInv, SyncLabels
    <2>6. \A d \in Coro : after'[d] = "run"
      BY <2>1 DEF MutexCore, StackInv, WakeAll
    <2>7. {d \in Coro : pc'[d] = "mwait"} = {d \in Coro : pc[d] = "mwait"}
      BY <1>0, <2>5
    <2>8. LockOwners' = {w}
      BY <1>0, <2>2, <2>4, <2>5 DEF LockOwners
    <2>9. MutexCore'
      <3>1. MutualExclusion'
        BY <1>0, <2>1, <2>8 DEF MutualExclusion
      <3> QED
        BY <1>0, <1>1, <2>1, <2>2, <2>4, <2>5, <2>6, <2>7, <3>1 DEF MutexCore
    <2> QED
      BY <1>0, <1>1, <2>1, <2>8, <2>9 DEF LP!Give, LP!PassOn, w
  <1>2. CASE mutex_waiters_ = <<>>
    <2>1. locked_' = FALSE /\ At(c, "run") /\ mutex_waiters_' = mutex_waiters_
      BY <1>2 DEF Unlock
    <2>2. /\ StackInv(MutexRun, MutexAsleep)' /\ ListsInv(MutexAsleep)'
          /\ Woken' = Woken
          /\ \A d \in Coro : pc'[d] = IF d = c THEN "run" ELSE pc[d]
      BY <1>0, <2>1, AtInv, SyncLabels DEF MutexCore, MutexRun
    <2>3. LockOwners' = {}
      BY <1>0, <2>2 DEF LockOwners
    <2>4. MutexCore'
      <3>1. MutualExclusion'
        BY <2>1, <2>3 DEF MutualExclusion
      <3> QED
        BY <1>0, <1>2, <2>1, <2>2, <3>1 DEF MutexCore, At, stack
    <2> QED
      BY <1>0, <1>2, <2>1, <2>3, <2>4 DEF LP!Give, LP!PassOn
  <1> QED
    BY <1>1, <1>2

(* resume(): the owner in flight runs on. *)
LEMMA LockResumeCore ==
  ASSUME MutexCore, NEW c \in Coro, LockResume(c)
  PROVE  MutexCore' /\ UNCHANGED LP!vars
  <1> DEFINE w == Head(to_wake[c])
  <1>1. ResumeTo(c, w, "owner") /\ UNCHANGED <<locked_, mutex_waiters_>>
    BY DEF LockResume, ResumeAt, ResumeTo, mutex
  <1> HIDE DEF w
  <1>2. /\ StackInv(MutexRun, MutexAsleep) /\ ListsInv(MutexAsleep)
        /\ "owner" \in MutexRun
    BY DEF MutexCore, MutexRun
  <1>3. /\ pc[c] = "wake" /\ after' = after
        /\ w \in Coro /\ w # c /\ w \in Woken /\ pc[w] \in MutexAsleep
        /\ StackInv(MutexRun, MutexAsleep)' /\ ListsInv(MutexAsleep)'
        /\ Woken' = Woken \ {w}
        /\ \A d \in Coro : pc'[d] = IF d = w THEN "owner"
                                    ELSE IF d = c THEN "nest" ELSE pc[d]
    BY <1>1, <1>2, ResumeInv, SyncLabels
  <1>4. pc[w] = "mwait" /\ w \notin Contents(mutex_waiters_)
    BY <1>3 DEF MutexAsleep, MutexCore
  <1>5. {d \in Coro : pc'[d] = "mwait"} = {d \in Coro : pc[d] = "mwait"} \ {w}
    BY <1>3
  <1>6. LockOwners' = LockOwners
    BY <1>3, <1>4 DEF LockOwners
  <1>7. MutexCore'
    BY <1>1, <1>3, <1>4, <1>5, <1>6 DEF MutexCore, MutualExclusion
  <1> QED
    BY <1>1, <1>6, <1>7 DEF LP!vars

(* User code suspends elsewhere. *)
LEMMA LockYieldCore ==
  ASSUME MutexCore, NEW c \in Coro, LockYield(c)
  PROVE  MutexCore' /\ UNCHANGED LP!vars
  <1>1. /\ pc[c] \in {"run", "owner"} /\ Leave(c, pc[c])
        /\ UNCHANGED <<locked_, mutex_waiters_>>
    BY DEF LockYield, YieldAt, mutex
  <1>2. /\ StackInv(MutexRun, MutexAsleep)' /\ ListsInv(MutexAsleep)'
        /\ Woken' = Woken
        /\ pc'[c] = pc[c]
        /\ \A d \in Coro \ {c} :
             pc'[d] = pc[d] \/ (pc[d] = "nest" /\ pc'[d] \in {after[d], "wake"})
    BY <1>1, LeaveInv, SyncLabels DEF MutexCore, MutexRun, MutexAsleep
  <1>3. \A d \in Coro : after[d] = "run" /\ after'[d] = "run"
    BY <1>1 DEF MutexCore, Leave
  <1>4. /\ {d \in Coro : pc'[d] = "mwait"} = {d \in Coro : pc[d] = "mwait"}
        /\ {d \in Coro : pc'[d] = "owner"} = {d \in Coro : pc[d] = "owner"}
    BY <1>2, <1>3
  <1>5. LockOwners' = LockOwners
    BY <1>2, <1>4 DEF LockOwners
  <1>6. MutexCore'
    BY <1>1, <1>2, <1>3, <1>4, <1>5 DEF MutexCore, MutualExclusion
  <1> QED
    BY <1>1, <1>5, <1>6 DEF LP!vars

(* Every step of the mutex, and the step of the permit pool it is. *)
LEMMA MutexStepCore ==
  ASSUME MutexCore, NEW c \in Coro, MutexStep(c)
  PROVE  MutexCore' /\ (LP!Next \/ UNCHANGED LP!vars)
  <1>1. CASE LockReady(c)
    <2>1. CASE TakeLock(c)
      BY <1>1, <2>1, TakeLockCore DEF LockReady, LP!Next
    <2>2. CASE ~TakeLock(c)
      <3>1. At(c, "lock?") /\ pc[c] = "run" /\ UNCHANGED <<locked_, mutex_waiters_>>
        BY <1>1, <2>2 DEF LockReady, mutex
      <3>2. /\ StackInv(MutexRun, MutexAsleep)' /\ ListsInv(MutexAsleep)'
            /\ Woken' = Woken
            /\ \A d \in Coro : pc'[d] = IF d = c THEN "lock?" ELSE pc[d]
        BY <3>1, AtInv, SyncLabels DEF MutexCore, MutexRun
      <3>3. LockOwners' = LockOwners
        BY <3>1, <3>2 DEF LockOwners
      <3>4. MutexCore'
        BY <3>1, <3>2, <3>3 DEF MutexCore, MutualExclusion, At, stack
      <3> QED
        BY <3>1, <3>3, <3>4 DEF LP!vars
    <2> QED
      BY <2>1, <2>2
  <1>2. CASE LockSuspend(c)
    BY <1>2, TakeLockCore, LockQueueCore DEF LockSuspend, LP!Next
  <1>3. CASE TryLock(c)
    BY <1>3, TakeLockCore DEF TryLock, LP!Next
  <1>4. CASE Unlock(c)
    BY <1>4, MutexUnlockCore DEF LP!Next
  <1>5. CASE LockResume(c)
    BY <1>5, LockResumeCore
  <1>6. CASE LockYield(c)
    BY <1>6, LockYieldCore
  <1> QED
    BY <1>1, <1>2, <1>3, <1>4, <1>5, <1>6 DEF MutexStep

-----------------------------------------------------------------------------
(* The semaphore *)

(* A permit is taken from await_ready or await_suspend. *)
LEMMA TakePermitCore ==
  ASSUME SemCore, NEW c \in Coro, pc[c] \in {"run", "check"}, TakePermit(c)
  PROVE  SemCore' /\ FP!Take(c)
  <1>1. /\ count_ > 0 /\ count_' = count_ - 1 /\ At(c, "hold")
        /\ UNCHANGED <<waiters_, permits>>
    BY DEF TakePermit
  <1>2. /\ StackInv(SemRun, SemAsleep)' /\ ListsInv(SemAsleep)'
        /\ Woken' = Woken
        /\ \A d \in Coro : pc'[d] = IF d = c THEN "hold" ELSE pc[d]
    BY <1>1, AtInv, SyncLabels DEF SemCore, SemRun
  <1>3. waiters_ = <<>> /\ count_ \in Nat
    BY <1>1 DEF SemCore
  <1>4. SemCore'
    BY <1>1, <1>2, <1>3 DEF SemCore, At, stack
  <1>5. c \notin Owners /\ Owners' = Owners \union {c}
    BY <1>2 DEF Owners
  <1>6. FP!Queued = {}
    BY <1>3 DEF FP!Queued
  <1> QED
    BY <1>1, <1>3, <1>4, <1>5, <1>6 DEF FP!Take

(* await_suspend finds no permit: c queues. *)
LEMMA AcquireQueueCore ==
  ASSUME SemCore, NEW c \in Coro, pc[c] = "check", count_ = 0,
         waiters_' = Append(waiters_, c), Leave(c, "susp"),
         UNCHANGED <<count_, permits>>
  PROVE  SemCore' /\ FP!Enqueue(c)
  <1>1. /\ StackInv(SemRun, SemAsleep)' /\ ListsInv(SemAsleep)'
        /\ Woken' = Woken
        /\ pc'[c] = "susp"
        /\ \A d \in Coro \ {c} :
             pc'[d] = pc[d] \/ (pc[d] = "nest" /\ pc'[d] \in {after[d], "wake"})
    BY LeaveInv, SyncLabels DEF SemCore, SemRun, SemAsleep
  <1>2. \A d \in Coro : after[d] = "run" /\ after'[d] = "run"
    BY DEF SemCore, Leave
  <1>3. c \notin Contents(waiters_) /\ c \notin Woken
    BY DEF SemCore
  <1>4. /\ waiters_' \in Seq(Coro) /\ Distinct(waiters_')
        /\ Contents(waiters_') = Contents(waiters_) \union {c}
    BY <1>3, PushBackSets DEF SemCore
  <1>5. {d \in Coro : pc'[d] = "susp"} = {d \in Coro : pc[d] = "susp"} \union {c}
    BY <1>1, <1>2
  <1>6. SemCore'
    BY <1>1, <1>2, <1>3, <1>4, <1>5 DEF SemCore
  <1>7. c \notin Owners /\ Owners' = Owners
    BY <1>1, <1>2, <1>3 DEF Owners
  <1>8. FP!Queued = Contents(waiters_)
    BY DEF FP!Queued, Contents
  <1> QED
    BY <1>3, <1>6, <1>7, <1>8 DEF FP!Enqueue

(* Release(): the permit goes to the first waiter, who is still suspended,  *)
(* or becomes free.                                                         *)
LEMMA PopOrCountCore ==
  ASSUME SemCore, NEW c \in Coro, pc[c] \in {"run", "hold"}, PopOrCount(c)
  PROVE  SemCore' /\ FP!PassOn(Owners \ {c})
  <1>1. CASE waiters_ # <<>>
    <2> DEFINE w == Head(waiters_)
               q == <<w>>
    <2>1. /\ waiters_' = Tail(waiters_) /\ WakeAll(c, q, "run") /\ count_' = count_
      BY <1>1 DEF PopOrCount
    <2>2. /\ Tail(waiters_) \in Seq(Coro) /\ Distinct(Tail(waiters_))
          /\ w \in Coro /\ w \in Contents(waiters_)
          /\ Contents(Tail(waiters_)) = Contents(waiters_) \ {w}
      BY <1>1, PopFrontSets DEF SemCore
    <2> HIDE DEF w
    <2>3. q \in Seq(Coro) /\ q # <<>> /\ Distinct(q) /\ Contents(q) = {w}
      BY <2>2, OneSets
    <2> HIDE DEF q
    <2>4. w \notin Woken /\ pc[w] = "susp"
      BY <2>2 DEF SemCore
    <2>5. /\ StackInv(SemRun, SemAsleep)' /\ ListsInv(SemAsleep)'
          /\ Woken' = Woken \union {w}
          /\ pc'[c] = "wake"
          /\ \A d \in Coro \ {c} : pc'[d] = pc[d]
      <3>1. /\ pc[c] \in SemRun /\ "run" \in SemRun
            /\ \A v \in Contents(q) : pc[v] \in SemAsleep
            /\ Contents(q) \intersect Woken = {}
        BY <2>3, <2>4 DEF SemRun, SemAsleep
      <3>2. StackInv(SemRun, SemAsleep) /\ ListsInv(SemAsleep)
        BY DEF SemCore
      <3> QED
        BY <2>1, <2>3, <3>1, <3>2, WakeAllInv, SyncLabels
    <2>6. \A d \in Coro : after'[d] = "run"
      BY <2>1 DEF SemCore, StackInv, WakeAll
    <2>7. {d \in Coro : pc'[d] = "susp"} = {d \in Coro : pc[d] = "susp"}
      BY <2>5
    <2>8. SemCore'
      BY <1>1, <2>1, <2>2, <2>4, <2>5, <2>6, <2>7 DEF SemCore
    <2>9. Owners' = (Owners \ {c}) \union {w}
      BY <2>2, <2>4, <2>5 DEF Owners
    <2> QED
      BY <1>1, <2>1, <2>8, <2>9 DEF FP!PassOn, w
  <1>2. CASE waiters_ = <<>>
    <2>1. count_' = count_ + 1 /\ At(c, "run") /\ waiters_' = waiters_
      BY <1>2 DEF PopOrCount
    <2>2. /\ StackInv(SemRun, SemAsleep)' /\ ListsInv(SemAsleep)'
          /\ Woken' = Woken
          /\ \A d \in Coro : pc'[d] = IF d = c THEN "run" ELSE pc[d]
      BY <2>1, AtInv, SyncLabels DEF SemCore, SemRun
    <2>3. SemCore'
      BY <1>2, <2>1, <2>2 DEF SemCore, At, stack
    <2>4. Owners' = Owners \ {c}
      BY <2>2 DEF Owners
    <2> QED
      BY <1>2, <2>1, <2>3, <2>4 DEF FP!PassOn
  <1> QED
    BY <1>1, <1>2

(* resume(): the owner in flight runs on. *)
LEMMA SemResumeCore ==
  ASSUME SemCore, NEW c \in Coro, SemResume(c)
  PROVE  SemCore' /\ UNCHANGED FP!vars
  <1> DEFINE w == Head(to_wake[c])
  <1>1. ResumeTo(c, w, "hold") /\ UNCHANGED <<count_, waiters_, permits>>
    BY DEF SemResume, ResumeAt, ResumeTo, semaphore
  <1> HIDE DEF w
  <1>2. StackInv(SemRun, SemAsleep) /\ ListsInv(SemAsleep) /\ "hold" \in SemRun
    BY DEF SemCore, SemRun
  <1>3. /\ pc[c] = "wake" /\ after' = after
        /\ w \in Coro /\ w # c /\ w \in Woken /\ pc[w] \in SemAsleep
        /\ StackInv(SemRun, SemAsleep)' /\ ListsInv(SemAsleep)'
        /\ Woken' = Woken \ {w}
        /\ \A d \in Coro : pc'[d] = IF d = w THEN "hold"
                                    ELSE IF d = c THEN "nest" ELSE pc[d]
    BY <1>1, <1>2, ResumeInv, SyncLabels
  <1>4. pc[w] = "susp" /\ w \notin Contents(waiters_)
    BY <1>3 DEF SemAsleep, SemCore
  <1>5. {d \in Coro : pc'[d] = "susp"} = {d \in Coro : pc[d] = "susp"} \ {w}
    BY <1>3
  <1>6. SemCore'
    BY <1>1, <1>3, <1>4, <1>5 DEF SemCore
  <1>7. Owners' = Owners
    BY <1>3, <1>4 DEF Owners
  <1> QED
    BY <1>1, <1>6, <1>7 DEF FP!vars

(* User code suspends elsewhere. *)
LEMMA SemYieldCore ==
  ASSUME SemCore, NEW c \in Coro, SemYield(c)
  PROVE  SemCore' /\ UNCHANGED FP!vars
  <1>1. /\ pc[c] \in {"run", "hold"} /\ Leave(c, pc[c])
        /\ UNCHANGED <<count_, waiters_, permits>>
    BY DEF SemYield, YieldAt, semaphore
  <1>2. /\ StackInv(SemRun, SemAsleep)' /\ ListsInv(SemAsleep)'
        /\ Woken' = Woken
        /\ pc'[c] = pc[c]
        /\ \A d \in Coro \ {c} :
             pc'[d] = pc[d] \/ (pc[d] = "nest" /\ pc'[d] \in {after[d], "wake"})
    BY <1>1, LeaveInv, SyncLabels DEF SemCore, SemRun, SemAsleep
  <1>3. \A d \in Coro : after[d] = "run" /\ after'[d] = "run"
    BY <1>1 DEF SemCore, Leave
  <1>4. /\ {d \in Coro : pc'[d] = "susp"} = {d \in Coro : pc[d] = "susp"}
        /\ {d \in Coro : pc'[d] = "hold"} = {d \in Coro : pc[d] = "hold"}
    BY <1>2, <1>3
  <1>5. SemCore'
    BY <1>1, <1>2, <1>3, <1>4 DEF SemCore
  <1>6. Owners' = Owners
    BY <1>2, <1>4 DEF Owners
  <1> QED
    BY <1>1, <1>5, <1>6 DEF FP!vars

(* Every step of the semaphore, and the step of the permit pool it is. *)
LEMMA SemStepCore ==
  ASSUME SemCore, NEW c \in Coro, SemStep(c)
  PROVE  SemCore' /\ (FP!Next \/ UNCHANGED FP!vars)
  <1>1. CASE AcquireReady(c)
    <2>1. CASE TakePermit(c)
      BY <1>1, <2>1, TakePermitCore DEF AcquireReady, FP!Next
    <2>2. CASE ~TakePermit(c)
      <3>1. At(c, "check") /\ pc[c] = "run" /\ UNCHANGED <<count_, waiters_, permits>>
        BY <1>1, <2>2 DEF AcquireReady, semaphore
      <3>2. /\ StackInv(SemRun, SemAsleep)' /\ ListsInv(SemAsleep)'
            /\ Woken' = Woken
            /\ \A d \in Coro : pc'[d] = IF d = c THEN "check" ELSE pc[d]
        BY <3>1, AtInv, SyncLabels DEF SemCore, SemRun
      <3>3. SemCore'
        BY <3>1, <3>2 DEF SemCore, At, stack
      <3>4. Owners' = Owners
        BY <3>1, <3>2 DEF Owners
      <3> QED
        BY <3>1, <3>3, <3>4 DEF FP!vars
    <2> QED
      BY <2>1, <2>2
  <1>2. CASE AcquireSuspend(c)
    BY <1>2, TakePermitCore, AcquireQueueCore DEF AcquireSuspend, FP!Next
  <1>3. CASE GuardRelease(c)
    <2>1. pc[c] = "hold" /\ PopOrCount(c) /\ permits' = permits
      BY <1>3 DEF GuardRelease
    <2>2. SemCore' /\ FP!PassOn(Owners \ {c}) /\ c \in Owners
      BY <2>1, PopOrCountCore DEF Owners
    <2> QED
      BY <2>1, <2>2 DEF FP!Give, FP!Next
  <1>4. CASE UnguardedRelease(c)
    <2>1. pc[c] = "run" /\ PopOrCount(c) /\ permits' = permits + 1 /\ permits < MaxPermits
      BY <1>4 DEF UnguardedRelease
    <2>2. SemCore' /\ FP!PassOn(Owners \ {c}) /\ Owners \ {c} = Owners
      BY <2>1, PopOrCountCore DEF Owners
    <2> QED
      BY <2>1, <2>2 DEF FP!Donate, FP!Next
  <1>5. CASE SemResume(c)
    BY <1>5, SemResumeCore
  <1>6. CASE SemYield(c)
    BY <1>6, SemYieldCore
  <1> QED
    BY <1>1, <1>2, <1>3, <1>4, <1>5, <1>6 DEF SemStep

-----------------------------------------------------------------------------
(* The latch *)

(* A step that queues and wakes nobody. *)
LEMMA LatchAtCore ==
  ASSUME LatchCore, NEW c \in Coro, pc[c] \in LatchRun, NEW l \in LatchRun, At(c, l),
         UNCHANGED <<latch_count_, latch_waiters_>>
  PROVE  LatchCore'
  <1>1. /\ StackInv(LatchRun, LatchAsleep)' /\ ListsInv(LatchAsleep)'
        /\ Woken' = Woken
        /\ \A d \in Coro : pc'[d] = IF d = c THEN l ELSE pc[d]
    BY AtInv, SyncLabels DEF LatchCore
  <1>2. {d \in Coro : pc'[d] = "lwait"} = {d \in Coro : pc[d] = "lwait"}
    BY <1>1 DEF LatchRun
  <1> QED
    BY <1>1, <1>2 DEF LatchCore

(* Wait() queues while the count is positive. *)
LEMMA LatchQueueCore ==
  ASSUME LatchCore, NEW c \in Coro, pc[c] = "wait?", latch_count_ > 0,
         latch_waiters_' = Append(latch_waiters_, c), Leave(c, "lwait"),
         UNCHANGED latch_count_
  PROVE  LatchCore'
  <1>1. /\ StackInv(LatchRun, LatchAsleep)' /\ ListsInv(LatchAsleep)'
        /\ Woken' = Woken
        /\ pc'[c] = "lwait"
        /\ \A d \in Coro \ {c} :
             pc'[d] = pc[d] \/ (pc[d] = "nest" /\ pc'[d] \in {after[d], "wake"})
    BY LeaveInv, SyncLabels DEF LatchCore, LatchRun, LatchAsleep
  <1>2. \A d \in Coro : after[d] # "lwait"
    BY DEF LatchCore, StackInv, LatchRun
  <1>3. c \notin Contents(latch_waiters_) /\ c \notin Woken
    BY DEF LatchCore
  <1>4. /\ latch_waiters_' \in Seq(Coro) /\ Distinct(latch_waiters_')
        /\ Contents(latch_waiters_') = Contents(latch_waiters_) \union {c}
    BY <1>3, PushBackSets DEF LatchCore
  <1>5. {d \in Coro : pc'[d] = "lwait"} = {d \in Coro : pc[d] = "lwait"} \union {c}
    BY <1>1, <1>2
  <1> QED
    BY <1>1, <1>3, <1>4, <1>5 DEF LatchCore

(* The CountDown() that reaches zero takes all the waiters. *)
LEMMA CountDownCore ==
  ASSUME LatchCore, NEW c \in Coro, NEW n \in 0 .. MaxStep, CountDown(c, n)
  PROVE  LatchCore'
  <1> DEFINE left == IF latch_count_ >= n THEN latch_count_ - n ELSE 0
  <1>1. pc[c] \in {"run", "open"} /\ latch_count_' = left /\ left \in Nat
    BY LatchAssumption DEF CountDown, LatchCore
  <1>2. CASE left = 0
    <2>1. WakeAll(c, latch_waiters_, pc[c]) /\ latch_waiters_' = <<>>
      BY <1>2 DEF CountDown
    <2>2. /\ latch_waiters_ \in Seq(Coro) /\ Distinct(latch_waiters_)
          /\ Contents(latch_waiters_) \intersect Woken = {}
          /\ \A w \in Contents(latch_waiters_) : pc[w] \in LatchAsleep
          /\ pc[c] \in LatchRun
      BY <1>1 DEF LatchCore, LatchAsleep, LatchRun
    <2>3. /\ StackInv(LatchRun, LatchAsleep)' /\ ListsInv(LatchAsleep)'
          /\ Woken' = Woken \union Contents(latch_waiters_)
          /\ pc'[c] = (IF latch_waiters_ = <<>> THEN pc[c] ELSE "wake")
          /\ \A d \in Coro \ {c} : pc'[d] = pc[d]
      BY <2>1, <2>2, WakeAllInv, SyncLabels DEF LatchCore
    <2>4. {d \in Coro : pc'[d] = "lwait"} = {d \in Coro : pc[d] = "lwait"}
      BY <1>1, <2>3
    <2>5. Contents(latch_waiters_') = {} /\ Distinct(latch_waiters_')
          /\ latch_waiters_' \in Seq(Coro)
      BY <2>1, NothingQueued
    <2> QED
      BY <1>1, <1>2, <2>1, <2>3, <2>4, <2>5 DEF LatchCore
  <1>3. CASE left > 0
    <2>1. UNCHANGED <<latch_waiters_, pc, to_wake, runner, after>>
      BY <1>1, <1>3 DEF CountDown, stack
    <2>2. Woken' = Woken
      BY <2>1 DEF Woken
    <2>3. StackInv(LatchRun, LatchAsleep)' /\ ListsInv(LatchAsleep)'
      BY <2>1, <2>2 DEF LatchCore, StackInv, ListsInv
    <2> QED
      BY <1>1, <1>3, <2>1, <2>2, <2>3 DEF LatchCore
  <1> QED
    BY <1>1, <1>2, <1>3

(* Every step of the latch. *)
LEMMA LatchStepCore ==
  ASSUME LatchCore, NEW c \in Coro, LatchStep(c)
  PROVE  LatchCore'
  <1>1. CASE LatchReady(c)
    BY <1>1, LatchAtCore DEF LatchReady, LatchRun
  <1>2. CASE LatchSuspend(c)
    BY <1>2, LatchAtCore, LatchQueueCore DEF LatchSuspend, LatchRun
  <1>3. CASE LatchResume(c)
    <2> DEFINE w == Head(to_wake[c])
    <2>1. ResumeTo(c, w, "open") /\ UNCHANGED <<latch_count_, latch_waiters_>>
      BY <1>3 DEF LatchResume, ResumeAt, ResumeTo
    <2> HIDE DEF w
    <2>2. /\ StackInv(LatchRun, LatchAsleep) /\ ListsInv(LatchAsleep)
          /\ "open" \in LatchRun
      BY DEF LatchCore, LatchRun
    <2>3. /\ pc[c] = "wake" /\ after' = after
          /\ w \in Coro /\ w # c /\ w \in Woken /\ pc[w] \in LatchAsleep
          /\ StackInv(LatchRun, LatchAsleep)' /\ ListsInv(LatchAsleep)'
          /\ Woken' = Woken \ {w}
          /\ \A d \in Coro : pc'[d] = IF d = w THEN "open"
                                      ELSE IF d = c THEN "nest" ELSE pc[d]
      BY <2>1, <2>2, ResumeInv, SyncLabels
    <2>4. {d \in Coro : pc'[d] = "lwait"} = {d \in Coro : pc[d] = "lwait"} \ {w}
      BY <2>3
    <2> QED
      BY <2>1, <2>3, <2>4 DEF LatchCore
  <1>4. CASE LatchYield(c)
    <2>1. /\ pc[c] \in {"run", "open"} /\ Leave(c, pc[c])
          /\ UNCHANGED <<latch_count_, latch_waiters_>>
      BY <1>4 DEF LatchYield, YieldAt
    <2>2. /\ StackInv(LatchRun, LatchAsleep)' /\ ListsInv(LatchAsleep)'
          /\ Woken' = Woken
          /\ pc'[c] = pc[c]
          /\ \A d \in Coro \ {c} :
               pc'[d] = pc[d] \/ (pc[d] = "nest" /\ pc'[d] \in {after[d], "wake"})
      BY <2>1, LeaveInv, SyncLabels DEF LatchCore, LatchRun, LatchAsleep
    <2>3. \A d \in Coro : after[d] # "lwait"
      BY DEF LatchCore, StackInv, LatchRun
    <2>4. {d \in Coro : pc'[d] = "lwait"} = {d \in Coro : pc[d] = "lwait"}
      BY <2>1, <2>2, <2>3
    <2> QED
      BY <2>1, <2>2, <2>4 DEF LatchCore
  <1> QED
    BY <1>1, <1>2, <1>3, <1>4, CountDownCore DEF LatchStep

-----------------------------------------------------------------------------
(* The reader-writer lock *)

(* Who has the lock, as far as it follows from the counters. *)
LEMMA RWHolders ==
  ASSUME RWCore
  PROVE  /\ IsFiniteSet(Readers) /\ IsFiniteSet(Writers)
         /\ write_locked_ => /\ Readers = {} /\ reader_count_ = 0
                             /\ \A c \in Writers : Writers = {c}
         /\ ~write_locked_ => Writers = {}
         /\ reader_count_ = 0 => Readers = {}
         /\ \A c \in Readers : /\ reader_count_ > 0 /\ ~write_locked_
                               /\ reader_count_ = 1 => Readers = {c}
         /\ \A c \in Writers : write_locked_
  <1>1. IsFiniteSet(Readers) /\ IsFiniteSet(Writers)
    <2>1. Readers \in SUBSET Coro /\ Writers \in SUBSET Coro
      BY DEF Readers, Writers
    <2> QED
      BY <2>1, FS_Subset, CoroAssumption
  <1>2. ReadWriteExclusion /\ reader_count_ \in Nat
    BY DEF RWCore
  <1>3. Cardinality({}) = 0
    BY FS_EmptySet
  <1>4. reader_count_ = 0 => Readers = {}
    BY <1>1, <1>2, FS_EmptySet DEF ReadWriteExclusion
  <1>5. write_locked_ => Readers = {} /\ reader_count_ = 0
    BY <1>2, <1>3 DEF ReadWriteExclusion
  <1>6. Cardinality(Writers) = 1 => \A c \in Writers : Writers = {c}
    <2>1. Cardinality(Writers) = 1 => \E x : Writers = {x}
      BY <1>1, FS_Singleton
    <2> QED
      BY <2>1
  <1>7. reader_count_ = 1 => \A c \in Readers : Readers = {c}
    <2>1. Cardinality(Readers) = 1 => \E x : Readers = {x}
      BY <1>1, FS_Singleton
    <2> QED
      BY <1>2, <2>1 DEF ReadWriteExclusion
  <1> QED
    BY <1>1, <1>2, <1>4, <1>5, <1>6, <1>7 DEF ReadWriteExclusion

(* A step that neither takes nor gives, queues nor wakes. *)
LEMMA RWMoveCore ==
  ASSUME RWCore, StackInv(RWRun, RWAsleep)', ListsInv(RWAsleep)', Woken' = Woken,
         \A c \in Coro : after'[c] = "run",
         \A d \in Coro : \/ pc'[d] = pc[d]
                         \/ pc[d] \notin RWAsleep \union {"read", "write"}
                            /\ pc'[d] \notin RWAsleep \union {"read", "write"},
         UNCHANGED <<reader_count_, write_locked_, read_waiters_, write_waiters_, passed>>
  PROVE  RWCore'
  <1>1. Readers' = Readers /\ Writers' = Writers
    BY DEF Readers, Writers, RWAsleep
  <1>2. {d \in Coro : pc'[d] \in RWAsleep} = {d \in Coro : pc[d] \in RWAsleep}
    BY DEF RWAsleep
  <1>3. RWHandles'
    <2>1. /\ \A c \in Contents(read_waiters_) : c \in Coro
          /\ \A c \in Contents(write_waiters_) : c \in Coro
      BY EmptyDeque DEF RWCore, RWHandles
    <2> QED
      BY <1>2, <2>1 DEF RWCore, RWHandles, RWAsleep
  <1>4. ReadWriteExclusion' /\ RWJustified'
    BY <1>1 DEF RWCore, ReadWriteExclusion, RWJustified
  <1>5. Turns'
    BY <1>2 DEF RWCore, Turns
  <1> QED
    BY <1>3, <1>4, <1>5 DEF RWCore

(* await_ready has returned false. *)
LEMMA RWAtCore ==
  ASSUME RWCore, NEW c \in Coro, pc[c] = "run", NEW l \in {"read?", "write?"}, At(c, l),
         UNCHANGED <<reader_count_, write_locked_, read_waiters_, write_waiters_, passed>>
  PROVE  RWCore'
  <1>1. /\ StackInv(RWRun, RWAsleep)' /\ ListsInv(RWAsleep)'
        /\ Woken' = Woken
        /\ \A d \in Coro : pc'[d] = IF d = c THEN l ELSE pc[d]
    BY AtInv, SyncLabels DEF RWCore, RWRun
  <1>2. \A d \in Coro : after'[d] = "run"
    BY DEF RWCore, At, stack
  <1> QED
    BY <1>1, <1>2, RWMoveCore DEF RWAsleep

(* User code suspends elsewhere, with or without the lock. *)
LEMMA RWYieldCore ==
  ASSUME RWCore, NEW c \in Coro, RWYield(c)
  PROVE  RWCore'
  <1>1. /\ pc[c] \in {"run", "read", "write"} /\ Leave(c, pc[c])
        /\ UNCHANGED <<reader_count_, write_locked_, read_waiters_, write_waiters_, passed>>
    BY DEF RWYield, YieldAt, lock
  <1>2. /\ StackInv(RWRun, RWAsleep)' /\ ListsInv(RWAsleep)'
        /\ Woken' = Woken
        /\ pc'[c] = pc[c]
        /\ \A d \in Coro \ {c} :
             pc'[d] = pc[d] \/ (pc[d] = "nest" /\ pc'[d] \in {after[d], "wake"})
    BY <1>1, LeaveInv, SyncLabels DEF RWCore, RWRun, RWAsleep
  <1>3. \A d \in Coro : after[d] = "run" /\ after'[d] = "run"
    BY <1>1 DEF RWCore, Leave
  <1> QED
    BY <1>1, <1>2, <1>3, RWMoveCore DEF RWAsleep

(* A reader comes in past nobody: there is no writer and no writer waits. *)
LEMMA TakeReadCore ==
  ASSUME RWCore, NEW c \in Coro, pc[c] \in {"run", "read?"}, TakeRead(c)
  PROVE  RWCore'
  <1>1. /\ ~write_locked_ /\ write_waiters_ = <<>> /\ reader_count_' = reader_count_ + 1
        /\ At(c, "read") /\ ReadersIn({c})
        /\ UNCHANGED <<write_locked_, read_waiters_, write_waiters_>>
    BY DEF TakeRead, CanRead
  <1>2. /\ StackInv(RWRun, RWAsleep)' /\ ListsInv(RWAsleep)'
        /\ Woken' = Woken
        /\ \A d \in Coro : pc'[d] = IF d = c THEN "read" ELSE pc[d]
    BY <1>1, AtInv, SyncLabels DEF RWCore, RWRun
  <1>3. \A d \in Coro : after'[d] = "run"
    BY <1>1 DEF RWCore, At, stack
  <1>4. /\ read_waiters_ = <<>> /\ Elems(write_waiters_) = {} /\ Contents(<<>>) = {}
        /\ passed[c] = 0
    BY <1>1, NothingQueued, ElemsContents DEF RWCore, RWJustified, Turns, RWAsleep
  <1>5. passed' = passed
    BY <1>1, <1>4 DEF ReadersIn, RWCore, Turns
  <1>6. /\ c \notin Readers /\ Readers' = Readers \union {c}
        /\ Writers = {} /\ Writers' = {}
    BY <1>1, <1>2, RWHolders DEF Readers, Writers, RWAsleep
  <1>7. {d \in Coro : pc'[d] \in RWAsleep} = {d \in Coro : pc[d] \in RWAsleep}
    BY <1>2 DEF RWAsleep
  <1>8. ReadWriteExclusion'
    <2>1. Cardinality(Readers \union {c}) = Cardinality(Readers) + 1
      BY <1>6, RWHolders, FS_AddElement
    <2> QED
      BY <1>1, <1>6, <2>1 DEF ReadWriteExclusion, RWCore
  <1>9. RWHandles'
    BY <1>1, <1>2, <1>4, <1>7 DEF RWCore, RWHandles
  <1>10. Turns'
    BY <1>1, <1>2, <1>4, <1>5, <1>7 DEF RWCore, Turns
  <1> QED
    BY <1>1, <1>2, <1>3, <1>4, <1>8, <1>9, <1>10 DEF RWCore, RWJustified

(* A writer comes in: nobody has the lock, and then nobody waits for it. *)
LEMMA TakeWriteCore ==
  ASSUME RWCore, NEW c \in Coro, pc[c] \in {"run", "write?"}, TakeWrite(c)
  PROVE  RWCore'
  <1>1. /\ ~write_locked_ /\ reader_count_ = 0 /\ write_locked_' = TRUE
        /\ At(c, "write") /\ WriterIn(c)
        /\ UNCHANGED <<reader_count_, read_waiters_, write_waiters_>>
    BY DEF TakeWrite, CanWrite
  <1>2. /\ StackInv(RWRun, RWAsleep)' /\ ListsInv(RWAsleep)'
        /\ Woken' = Woken
        /\ \A d \in Coro : pc'[d] = IF d = c THEN "write" ELSE pc[d]
    BY <1>1, AtInv, SyncLabels DEF RWCore, RWRun
  <1>3. \A d \in Coro : after'[d] = "run"
    BY <1>1 DEF RWCore, At, stack
  <1>4. /\ read_waiters_ = <<>> /\ write_waiters_ = <<>> /\ Contents(<<>>) = {}
        /\ Elems(read_waiters_) = {} /\ Elems(write_waiters_) = {}
        /\ passed[c] = 0
    BY <1>1, NothingQueued, ElemsContents DEF RWCore, RWJustified, Turns, RWAsleep
  <1>5. passed' = passed
    BY <1>1, <1>4 DEF WriterIn, RWCore, Turns
  <1>6. Readers = {} /\ Readers' = {} /\ Writers = {} /\ Writers' = {c}
    BY <1>1, <1>2, RWHolders DEF Readers, Writers, RWAsleep
  <1>7. {d \in Coro : pc'[d] \in RWAsleep} = {d \in Coro : pc[d] \in RWAsleep}
    BY <1>2 DEF RWAsleep
  <1>8. ReadWriteExclusion'
    <2>1. Cardinality({c}) = 1 /\ Cardinality({}) = 0
      BY FS_Singleton, FS_EmptySet
    <2> QED
      BY <1>1, <1>6, <2>1 DEF ReadWriteExclusion, RWCore
  <1>9. RWHandles'
    BY <1>1, <1>2, <1>4, <1>7 DEF RWCore, RWHandles
  <1>10. Turns'
    BY <1>1, <1>2, <1>4, <1>5, <1>7 DEF RWCore, Turns
  <1> QED
    BY <1>1, <1>2, <1>3, <1>4, <1>8, <1>9, <1>10 DEF RWCore, RWJustified

(* await_suspend of a ReadLock() that may not read. *)
LEMMA ReadQueueCore ==
  ASSUME RWCore, NEW c \in Coro, pc[c] = "read?", ~CanRead,
         read_waiters_' = Append(read_waiters_, c), Leave(c, "rwait"),
         UNCHANGED <<reader_count_, write_locked_, write_waiters_, passed>>
  PROVE  RWCore'
  <1>1. /\ StackInv(RWRun, RWAsleep)' /\ ListsInv(RWAsleep)'
        /\ Woken' = Woken
        /\ pc'[c] = "rwait"
        /\ \A d \in Coro \ {c} :
             pc'[d] = pc[d] \/ (pc[d] = "nest" /\ pc'[d] \in {after[d], "wake"})
    BY LeaveInv, SyncLabels DEF RWCore, RWRun, RWAsleep
  <1>2. \A d \in Coro : after[d] = "run" /\ after'[d] = "run"
    BY DEF RWCore, Leave
  <1>3. c \notin Contents(read_waiters_) \union Contents(write_waiters_) /\ c \notin Woken
    BY DEF RWCore, RWHandles, RWAsleep
  <1>4. /\ read_waiters_' \in Seq(Coro) /\ Distinct(read_waiters_')
        /\ Contents(read_waiters_') = Contents(read_waiters_) \union {c}
    BY <1>3, PushBackSets DEF RWCore, RWHandles
  <1>5. \A d \in Coro : \A l \in RWAsleep \union {"read", "write"} :
          d # c => (pc'[d] = l <=> pc[d] = l)
    BY <1>1, <1>2 DEF RWAsleep
  <1>6. /\ Readers' = Readers /\ Writers' = Writers
        /\ {d \in Coro : pc'[d] \in RWAsleep} = {d \in Coro : pc[d] \in RWAsleep} \union {c}
    BY <1>1, <1>3, <1>5 DEF Readers, Writers, RWAsleep
  <1>7. RWHandles'
    <2>1. /\ \A d \in Contents(read_waiters_) : d \in Coro
          /\ \A d \in Contents(write_waiters_) : d \in Coro
      BY EmptyDeque DEF RWCore, RWHandles
    <2> QED
      BY <1>1, <1>3, <1>4, <1>5, <1>6, <2>1 DEF RWCore, RWHandles, RWAsleep
  <1>8. ReadWriteExclusion'
    BY <1>6 DEF RWCore, ReadWriteExclusion
  <1>9. RWJustified'
    BY DEF RWCore, RWJustified, CanRead
  <1>10. passed[c] = 0
    BY DEF RWCore, Turns, RWAsleep
  <1>11. Turns'
    BY <1>1, <1>4, <1>5, <1>6, <1>10 DEF RWCore, Turns
  <1> QED
    BY <1>1, <1>2, <1>7, <1>8, <1>9, <1>11 DEF RWCore

(* await_suspend of a WriteLock() that may not write. *)
LEMMA WriteQueueCore ==
  ASSUME RWCore, NEW c \in Coro, pc[c] = "write?", ~CanWrite,
         write_waiters_' = Append(write_waiters_, c), Leave(c, "wwait"),
         UNCHANGED <<reader_count_, write_locked_, read_waiters_, passed>>
  PROVE  RWCore'
  <1>1. /\ StackInv(RWRun, RWAsleep)' /\ ListsInv(RWAsleep)'
        /\ Woken' = Woken
        /\ pc'[c] = "wwait"
        /\ \A d \in Coro \ {c} :
             pc'[d] = pc[d] \/ (pc[d] = "nest" /\ pc'[d] \in {after[d], "wake"})
    BY LeaveInv, SyncLabels DEF RWCore, RWRun, RWAsleep
  <1>2. \A d \in Coro : after[d] = "run" /\ after'[d] = "run"
    BY DEF RWCore, Leave
  <1>3. c \notin Contents(read_waiters_) \union Contents(write_waiters_) /\ c \notin Woken
    BY DEF RWCore, RWHandles, RWAsleep
  <1>4. /\ write_waiters_' \in Seq(Coro) /\ Distinct(write_waiters_')
        /\ Contents(write_waiters_') = Contents(write_waiters_) \union {c}
        /\ write_waiters_' # <<>>
    BY <1>3, PushBackSets DEF RWCore, RWHandles
  <1>5. \A d \in Coro : \A l \in RWAsleep \union {"read", "write"} :
          d # c => (pc'[d] = l <=> pc[d] = l)
    BY <1>1, <1>2 DEF RWAsleep
  <1>6. /\ Readers' = Readers /\ Writers' = Writers
        /\ {d \in Coro : pc'[d] \in RWAsleep} = {d \in Coro : pc[d] \in RWAsleep} \union {c}
    BY <1>1, <1>3, <1>5 DEF Readers, Writers, RWAsleep
  <1>7. RWHandles'
    <2>1. /\ \A d \in Contents(read_waiters_) : d \in Coro
          /\ \A d \in Contents(write_waiters_) : d \in Coro
      BY EmptyDeque DEF RWCore, RWHandles
    <2> QED
      BY <1>1, <1>3, <1>4, <1>5, <1>6, <2>1 DEF RWCore, RWHandles, RWAsleep
  <1>8. ReadWriteExclusion'
    BY <1>6 DEF RWCore, ReadWriteExclusion
  <1>9. RWJustified'
    BY <1>4 DEF RWCore, RWJustified, CanWrite
  <1>10. passed[c] = 0
    BY DEF RWCore, Turns, RWAsleep
  <1>11. Turns'
    BY <1>1, <1>4, <1>5, <1>6, <1>10 DEF RWCore, Turns
  <1> QED
    BY <1>1, <1>2, <1>7, <1>8, <1>9, <1>11 DEF RWCore

(* The last holder passes the lock to the first waiting writer, who is     *)
(* still suspended: the other writers have not been passed by readers, and *)
(* the waiting readers are passed for the first time.                      *)
LEMMA AdmitWriterCore ==
  ASSUME RWCore, NEW c \in Coro, pc[c] \in {"read", "write"},
         Readers \union Writers = {c},
         write_waiters_ # <<>>, \A d \in Contents(read_waiters_) : passed[d] = 0,
         AdmitWriter(c), reader_count_' = 0, UNCHANGED read_waiters_
  PROVE  RWCore'
  <1> DEFINE w == Head(write_waiters_)
             q == <<w>>
  <1>1. /\ write_locked_' = TRUE /\ write_waiters_' = Tail(write_waiters_)
        /\ WriterIn(w) /\ WakeAll(c, q, "run")
    BY DEF AdmitWriter
  <1>2. /\ Tail(write_waiters_) \in Seq(Coro) /\ Distinct(Tail(write_waiters_))
        /\ w \in Coro /\ w \in Contents(write_waiters_)
        /\ Contents(Tail(write_waiters_)) = Contents(write_waiters_) \ {w}
    BY PopFrontSets DEF RWCore, RWHandles
  <1> HIDE DEF w
  <1>3. q \in Seq(Coro) /\ q # <<>> /\ Distinct(q) /\ Contents(q) = {w}
    BY <1>2, OneSets
  <1> HIDE DEF q
  <1>4. w \notin Woken /\ pc[w] = "wwait" /\ w \notin Contents(read_waiters_)
    BY <1>2 DEF RWCore, RWHandles
  <1>5. /\ StackInv(RWRun, RWAsleep)' /\ ListsInv(RWAsleep)'
        /\ Woken' = Woken \union {w}
        /\ pc'[c] = "wake"
        /\ \A d \in Coro \ {c} : pc'[d] = pc[d]
    <2>1. /\ pc[c] \in RWRun /\ "run" \in RWRun
          /\ \A v \in Contents(q) : pc[v] \in RWAsleep
          /\ Contents(q) \intersect Woken = {}
      BY <1>3, <1>4 DEF RWRun, RWAsleep
    <2>2. StackInv(RWRun, RWAsleep) /\ ListsInv(RWAsleep)
      BY DEF RWCore
    <2> QED
      BY <1>1, <1>3, <2>1, <2>2, WakeAllInv, SyncLabels
  <1>6. \A d \in Coro : after'[d] = "run"
    BY <1>1 DEF RWCore, StackInv, WakeAll
  <1>7. /\ {d \in Coro : pc'[d] \in RWAsleep} = {d \in Coro : pc[d] \in RWAsleep}
        /\ \A d \in Coro : pc[d] \in RWAsleep => pc'[d] = pc[d]
    BY <1>5 DEF RWAsleep
  <1>8. Readers' = {} /\ Writers' = {w}
    BY <1>2, <1>4, <1>5 DEF Readers, Writers
  <1>9. ReadWriteExclusion'
    <2>1. Cardinality({w}) = 1 /\ Cardinality({}) = 0
      BY FS_Singleton, FS_EmptySet
    <2> QED
      BY <1>1, <1>8, <2>1 DEF ReadWriteExclusion
  <1>10. RWHandles'
    <2>1. /\ \A d \in Contents(read_waiters_) : d \in Coro
          /\ \A d \in Contents(write_waiters_) : d \in Coro
      BY EmptyDeque DEF RWCore, RWHandles
    <2> QED
      BY <1>1, <1>2, <1>4, <1>5, <1>7, <2>1 DEF RWCore, RWHandles, RWAsleep
  <1>11. Turns'
    <2>1. passed' = [d \in Coro |->
                      IF d = w \/ d \in Contents(write_waiters_) THEN 0
                      ELSE IF d \in Contents(read_waiters_)
                      THEN Passed1(d) ELSE passed[d]]
      BY <1>1, ElemsContents DEF WriterIn
    <2>2. passed \in [Coro -> 0 .. 2]
      BY DEF RWCore, Turns
    <2>3. \A d \in Coro : Passed1(d) \in 0 .. 2 /\ (passed[d] = 0 => Passed1(d) = 1)
      BY <2>2 DEF Passed1
    <2>4. passed' \in [Coro -> 0 .. 2]
      BY <2>1, <2>2, <2>3
    <2>5. /\ \A d \in Contents(read_waiters_) : d \in Coro /\ d # w
                                               /\ d \notin Contents(write_waiters_)
                                               /\ pc[d] \in RWAsleep
          /\ \A d \in Contents(write_waiters_) : d \in Coro /\ pc[d] \in RWAsleep
      BY <1>4, EmptyDeque DEF RWCore, RWHandles, RWAsleep
    <2>6. \A d \in Contents(read_waiters_) : passed'[d] = 1
      BY <2>1, <2>3, <2>5
    <2>7. \A d \in Contents(write_waiters_) : passed'[d] = 0
      BY <2>1, <2>5
    <2>8. \A d \in Coro : d \notin Contents(write_waiters_) \union Contents(read_waiters_)
                            => passed'[d] = 0
      BY <1>2, <2>1 DEF RWCore, Turns, RWHandles
    <2>9. \A d \in Coro : pc'[d] \notin RWAsleep => passed'[d] = 0
      BY <1>7, <2>5, <2>8
    <2>10. \A d \in Woken' : passed'[d] = 0
      BY <1>2, <1>5, <2>7, <2>8 DEF RWCore, RWHandles, ListsInv
    <2> QED
      BY <1>1, <1>2, <2>4, <2>6, <2>7, <2>9, <2>10 DEF Turns
  <1>12. RWJustified'
    BY <1>1 DEF RWJustified
  <1> QED
    BY <1>1, <1>5, <1>6, <1>9, <1>10, <1>11, <1>12 DEF RWCore

(* A holder leaves without waking anybody. *)
LEMMA UnlockCore ==
  ASSUME RWCore, NEW c \in Coro, pc[c] \in {"read", "write"}, At(c, "run"),
         ReadWriteExclusion', RWJustified',
         reader_count_' \in Nat, write_locked_' \in BOOLEAN,
         (write_locked_' <=> write_locked_) \/ (write_waiters_ = <<>> /\ read_waiters_ = <<>>),
         UNCHANGED <<read_waiters_, write_waiters_, passed>>
  PROVE  RWCore'
  <1>1. /\ StackInv(RWRun, RWAsleep)' /\ ListsInv(RWAsleep)'
        /\ Woken' = Woken
        /\ \A d \in Coro : pc'[d] = IF d = c THEN "run" ELSE pc[d]
    BY AtInv, SyncLabels DEF RWCore, RWRun
  <1>2. \A d \in Coro : after'[d] = "run"
    BY DEF RWCore, At, stack
  <1>3. \A d \in Coro : pc'[d] # pc[d] => pc[d] \notin RWAsleep /\ pc'[d] \notin RWAsleep
    BY <1>1 DEF RWAsleep
  <1>4. {d \in Coro : pc'[d] \in RWAsleep} = {d \in Coro : pc[d] \in RWAsleep}
    BY <1>3
  <1>5. RWHandles'
    <2>1. /\ \A d \in Contents(read_waiters_) : d \in Coro
          /\ \A d \in Contents(write_waiters_) : d \in Coro
      BY EmptyDeque DEF RWCore, RWHandles
    <2> QED
      BY <1>1, <1>3, <1>4, <2>1 DEF RWCore, RWHandles, RWAsleep
  <1>6. Turns'
    BY <1>1, <1>4, NothingQueued DEF RWCore, Turns
  <1> QED
    BY <1>1, <1>2, <1>5, <1>6 DEF RWCore

(* ReadUnlock() *)
LEMMA ReadUnlockCore ==
  ASSUME RWCore, NEW c \in Coro, ReadUnlock(c)
  PROVE  RWCore'
  <1>1. /\ pc[c] = "read" /\ reader_count_' = reader_count_ - 1
        /\ UNCHANGED read_waiters_ /\ c \in Readers
    BY DEF ReadUnlock, Readers
  <1>2. /\ reader_count_ > 0 /\ ~write_locked_ /\ Writers = {}
        /\ reader_count_ = 1 => Readers = {c}
        /\ reader_count_ \in Nat
    BY <1>1, RWHolders DEF RWCore
  <1>3. CASE reader_count_ = 1 /\ write_waiters_ # <<>>
    <2>1. AdmitWriter(c) /\ reader_count_' = 0
      BY <1>1, <1>3 DEF ReadUnlock
    <2>2. \A d \in Contents(read_waiters_) : passed[d] = 0
      BY <1>2 DEF RWCore, Turns
    <2> QED
      BY <1>1, <1>2, <1>3, <2>1, <2>2, AdmitWriterCore
  <1>4. CASE reader_count_ # 1 \/ write_waiters_ = <<>>
    <2>1. At(c, "run") /\ UNCHANGED <<write_locked_, write_waiters_, passed>>
      BY <1>4 DEF ReadUnlock
    <2>2. /\ Woken' = Woken
          /\ \A d \in Coro : pc'[d] = IF d = c THEN "run" ELSE pc[d]
      BY <1>1, <2>1, AtInv, SyncLabels DEF RWCore, RWRun
    <2>3. Readers' = Readers \ {c} /\ Writers' = {}
      BY <1>1, <1>2, <2>2 DEF Readers, Writers
    <2>4. Cardinality(Readers \ {c}) = Cardinality(Readers) - 1
      BY <1>1, RWHolders, FS_RemoveElement
    <2>5. ReadWriteExclusion'
      BY <1>1, <1>2, <2>1, <2>3, <2>4 DEF RWCore, ReadWriteExclusion
    <2>6. RWJustified'
      BY <1>1, <1>2, <1>4, <2>1 DEF RWCore, RWJustified
    <2>7. reader_count_' \in Nat /\ write_locked_' \in BOOLEAN /\ (write_locked_' <=> write_locked_)
      BY <1>1, <1>2, <2>1 DEF RWCore
    <2> QED
      BY <1>1, <2>1, <2>5, <2>6, <2>7, UnlockCore
  <1> QED
    BY <1>3, <1>4

(* The writer lets all the waiting readers in by one assignment: as many   *)
(* as wait, and the waiting writers are passed for the first time.         *)
LEMMA AdmitReadersCore ==
  ASSUME RWCore, NEW c \in Coro, pc[c] = "write", AdmitReaders(c)
  PROVE  RWCore'
  <1> DEFINE q == read_waiters_
  <1>1. /\ reader_count_' = Len(q) /\ write_locked_' = FALSE /\ read_waiters_' = <<>>
        /\ ReadersIn(Elems(q)) /\ WakeAll(c, q, "run") /\ q # <<>>
        /\ UNCHANGED write_waiters_
    BY DEF AdmitReaders
  <1>2. q \in Seq(Coro) /\ Distinct(q) /\ Contents(q) \intersect Woken = {}
    BY DEF RWCore, RWHandles
  <1>3. \A v \in Contents(q) : v \in Coro /\ pc[v] = "rwait"
    BY EmptyDeque DEF RWCore, RWHandles
  <1>4. /\ StackInv(RWRun, RWAsleep)' /\ ListsInv(RWAsleep)'
        /\ Woken' = Woken \union Contents(q)
        /\ pc'[c] = "wake"
        /\ \A d \in Coro \ {c} : pc'[d] = pc[d]
    <2>1. /\ pc[c] \in RWRun /\ "run" \in RWRun
          /\ \A v \in Contents(q) : pc[v] \in RWAsleep
      BY <1>3 DEF RWRun, RWAsleep
    <2>2. StackInv(RWRun, RWAsleep) /\ ListsInv(RWAsleep)
      BY DEF RWCore
    <2> QED
      BY <1>1, <1>2, <2>1, <2>2, WakeAllInv, SyncLabels
  <1>5. \A d \in Coro : after'[d] = "run"
    BY <1>1 DEF RWCore, StackInv, WakeAll
  <1>6. /\ {d \in Coro : pc'[d] \in RWAsleep} = {d \in Coro : pc[d] \in RWAsleep}
        /\ \A d \in Coro : pc[d] \in RWAsleep => pc'[d] = pc[d]
    BY <1>4 DEF RWAsleep
  <1>7. write_locked_ /\ Readers = {} /\ Writers = {c}
    BY RWHolders DEF Writers
  <1>8. Readers' = Contents(q) /\ Writers' = {}
    BY <1>3, <1>4, <1>7 DEF Readers, Writers
  <1>9. ReadWriteExclusion' /\ reader_count_' \in Nat
    <2>1. Cardinality(Contents(q)) = Len(q) /\ Len(q) \in Nat
      BY <1>2, DistinctCardinality
    <2> QED
      BY <1>1, <1>8, <2>1 DEF ReadWriteExclusion
  <1>10. RWHandles'
    <2>1. \A d \in Contents(write_waiters_) : d \in Coro
      BY EmptyDeque DEF RWCore, RWHandles
    <2>2. /\ Contents(read_waiters_') = {} /\ Distinct(read_waiters_')
          /\ read_waiters_' \in Seq(Coro)
      BY <1>1, NothingQueued
    <2>3. Contents(q) \intersect Contents(write_waiters_) = {}
      BY DEF RWCore, RWHandles
    <2> QED
      BY <1>1, <1>4, <1>6, <2>1, <2>2, <2>3 DEF RWCore, RWHandles, RWAsleep
  <1>11. Turns'
    <2>1. passed' = [d \in Coro |->
                      IF d \in Contents(q) THEN 0
                      ELSE IF d \in Contents(write_waiters_)
                      THEN Passed1(d) ELSE passed[d]]
      BY <1>1, ElemsContents DEF ReadersIn
    <2>2. passed \in [Coro -> 0 .. 2]
      BY DEF RWCore, Turns
    <2>3. \A d \in Coro : Passed1(d) \in 0 .. 2 /\ (passed[d] = 0 => Passed1(d) = 1)
      BY <2>2 DEF Passed1
    <2>4. passed' \in [Coro -> 0 .. 2]
      BY <2>1, <2>2, <2>3
    <2>5. \A d \in Contents(write_waiters_) :
            /\ d \in Coro /\ d \notin Contents(q)
            /\ pc[d] \in RWAsleep /\ passed[d] = 0
      BY <1>7, EmptyDeque DEF RWCore, RWHandles, RWAsleep, Turns
    <2>6. \A d \in Contents(write_waiters_) : passed'[d] = 1
      BY <2>1, <2>3, <2>5
    <2>7. \A d \in Contents(q) : passed'[d] = 0
      BY <1>3, <2>1
    <2>8. \A d \in Coro : d \notin Contents(write_waiters_) \union Contents(q)
                            => passed'[d] = 0
      BY <2>1 DEF RWCore, Turns, RWHandles
    <2>9. \A d \in Coro : pc'[d] \notin RWAsleep => passed'[d] = 0
      BY <1>6, <2>5, <2>7, <2>8
    <2>10. \A d \in Woken' : passed'[d] = 0
      BY <1>4, <2>7, <2>8 DEF RWCore, RWHandles, ListsInv
    <2>11. Contents(read_waiters_') = {}
      BY <1>1, NothingQueued
    <2> QED
      BY <1>1, <2>4, <2>6, <2>9, <2>10, <2>11 DEF Turns
  <1>12. RWJustified'
    <2>1. Len(q) > 0
      BY <1>1, <1>2
    <2> QED
      BY <1>1, <2>1 DEF RWJustified
  <1> QED
    BY <1>1, <1>4, <1>5, <1>9, <1>10, <1>11, <1>12 DEF RWCore

(* WriteUnlock() *)
LEMMA WriteUnlockCore ==
  ASSUME RWCore, NEW c \in Coro, WriteUnlock(c)
  PROVE  RWCore'
  <1>1. pc[c] = "write" /\ write_locked_ /\ Readers = {} /\ Writers = {c} /\ reader_count_ = 0
    BY RWHolders DEF WriteUnlock, Writers
  <1>2. CASE AdmitReaders(c)
    BY <1>1, <1>2, AdmitReadersCore
  <1>3. CASE read_waiters_ = <<>> /\ write_waiters_ # <<>>
    <2>1. AdmitWriter(c) /\ UNCHANGED <<reader_count_, read_waiters_>>
      BY <1>3 DEF WriteUnlock, AdmitReaders
    <2>2. \A d \in Contents(read_waiters_) : passed[d] = 0
      BY <1>3, NothingQueued
    <2> QED
      BY <1>1, <1>3, <2>1, <2>2, AdmitWriterCore
  <1>4. CASE read_waiters_ = <<>> /\ write_waiters_ = <<>>
    <2>1. /\ At(c, "run") /\ write_locked_' = FALSE
          /\ UNCHANGED <<reader_count_, read_waiters_, write_waiters_, passed>>
      BY <1>4 DEF WriteUnlock, AdmitReaders
    <2>2. /\ Woken' = Woken
          /\ \A d \in Coro : pc'[d] = IF d = c THEN "run" ELSE pc[d]
      BY <1>1, <2>1, AtInv, SyncLabels DEF RWCore, RWRun
    <2>3. Readers' = {} /\ Writers' = {}
      BY <1>1, <2>2 DEF Readers, Writers
    <2>4. ReadWriteExclusion'
      BY <1>1, <2>1, <2>3, FS_EmptySet DEF ReadWriteExclusion
    <2>5. RWJustified'
      BY <1>4, <2>1 DEF RWJustified
    <2>6. reader_count_' \in Nat /\ write_locked_' \in BOOLEAN
      BY <1>1, <2>1
    <2> QED
      BY <1>1, <1>4, <2>1, <2>4, <2>5, <2>6, UnlockCore
  <1> QED
    BY <1>2, <1>3, <1>4 DEF WriteUnlock

(* resume(): a coroutine that was admitted while suspended runs on. *)
LEMMA RWResumeCore ==
  ASSUME RWCore, NEW c \in Coro, RWResume(c)
  PROVE  RWCore'
  <1> DEFINE w == Head(to_wake[c])
             l == IF pc[w] = "wwait" THEN "write" ELSE "read"
  <1>1. /\ ResumeTo(c, w, l)
        /\ UNCHANGED <<reader_count_, write_locked_, read_waiters_, write_waiters_, passed>>
    BY DEF RWResume, ResumeAt, ResumeTo, lock
  <1>2. StackInv(RWRun, RWAsleep) /\ ListsInv(RWAsleep) /\ l \in RWRun
    BY DEF RWCore, RWRun
  <1>3. l = IF pc[w] = "wwait" THEN "write" ELSE "read"
    OBVIOUS
  <1> HIDE DEF w, l
  <1>4. /\ pc[c] = "wake" /\ after' = after
        /\ w \in Coro /\ w # c /\ w \in Woken /\ pc[w] \in RWAsleep
        /\ StackInv(RWRun, RWAsleep)' /\ ListsInv(RWAsleep)'
        /\ Woken' = Woken \ {w}
        /\ \A d \in Coro : pc'[d] = IF d = w THEN l
                                    ELSE IF d = c THEN "nest" ELSE pc[d]
    BY <1>1, <1>2, ResumeInv, SyncLabels
  <1>5. w \notin Contents(read_waiters_) \union Contents(write_waiters_)
    BY <1>4 DEF RWCore, RWHandles
  <1>6. passed[w] = 0
    BY <1>4 DEF RWCore, Turns
  <1>7. Readers' = Readers /\ Writers' = Writers
    BY <1>3, <1>4 DEF Readers, Writers, RWAsleep
  <1>8. {d \in Coro : pc'[d] \in RWAsleep} = {d \in Coro : pc[d] \in RWAsleep} \ {w}
    BY <1>3, <1>4 DEF RWAsleep
  <1>9. RWHandles'
    <2>1. /\ \A d \in Contents(read_waiters_) : d \in Coro /\ d # c
          /\ \A d \in Contents(write_waiters_) : d \in Coro /\ d # c
      BY <1>4, EmptyDeque DEF RWCore, RWHandles
    <2> QED
      BY <1>1, <1>4, <1>5, <1>8, <2>1 DEF RWCore, RWHandles, RWAsleep
  <1>10. Turns'
    BY <1>1, <1>4, <1>6, <1>8 DEF RWCore, Turns
  <1> QED
    BY <1>1, <1>4, <1>7, <1>9, <1>10 DEF RWCore, ReadWriteExclusion, RWJustified

(* Every step of the lock. *)
LEMMA RWStepCore ==
  ASSUME RWCore, NEW c \in Coro, RWStep(c)
  PROVE  RWCore'
  <1>1. CASE ReadReady(c)
    BY <1>1, TakeReadCore, RWAtCore DEF ReadReady, lock
  <1>2. CASE ReadSuspend(c)
    BY <1>2, TakeReadCore, ReadQueueCore DEF ReadSuspend
  <1>3. CASE WriteReady(c)
    BY <1>3, TakeWriteCore, RWAtCore DEF WriteReady, lock
  <1>4. CASE WriteSuspend(c)
    BY <1>4, TakeWriteCore, WriteQueueCore DEF WriteSuspend
  <1> QED
    BY <1>1, <1>2, <1>3, <1>4, ReadUnlockCore, WriteUnlockCore, RWResumeCore,
       RWYieldCore DEF RWStep

-----------------------------------------------------------------------------
(* The four together *)

(* All four are idle to begin with. *)
LEMMA InitIndInv ==
  ASSUME Init
  PROVE  IndInv
  <1>1. pc = [c \in Coro |-> "run"] /\ StackInit
    BY DEF Init
  <1>2. /\ StackInv(SemRun, SemAsleep) /\ ListsInv(SemAsleep) /\ Woken = {}
        /\ StackInv(MutexRun, MutexAsleep) /\ ListsInv(MutexAsleep)
        /\ StackInv(RWRun, RWAsleep) /\ ListsInv(RWAsleep)
        /\ StackInv(LatchRun, LatchAsleep) /\ ListsInv(LatchAsleep)
    <2>1. /\ pc \in [Coro -> SemRun \union SemAsleep]
          /\ pc \in [Coro -> MutexRun \union MutexAsleep]
          /\ pc \in [Coro -> RWRun \union RWAsleep]
          /\ pc \in [Coro -> LatchRun \union LatchAsleep]
          /\ "run" \in SemRun /\ "run" \in RWRun /\ "run" \in LatchRun
          /\ "run" \in MutexRun
      BY <1>1 DEF SemRun, RWRun, LatchRun, MutexRun
    <2> QED
      BY <1>1, <2>1, StackInitInv, SyncLabels
  <1>3. \A c \in Coro : after[c] = "run" /\ pc[c] = "run"
    BY <1>1 DEF StackInit
  <1>4. SemCore
    <2>1. waiters_ = <<>> /\ count_ \in Nat
      BY SemaphoreAssumption DEF Init, SemInit
    <2> QED
      BY <1>2, <1>3, <2>1, NothingQueued DEF SemCore
  <1>5. RWIdle /\ passed = [c \in Coro |-> 0]
    BY DEF Init, RWInit, RWIdle
  <1>6. RWCore
    <2>1. Readers = {} /\ Writers = {}
      BY <1>2, <1>3 DEF Readers, Writers
    <2>2. ReadWriteExclusion
      BY <1>5, <2>1, FS_EmptySet DEF RWIdle, ReadWriteExclusion
    <2>3. RWHandles /\ Turns
      BY <1>2, <1>3, <1>5, NothingQueued DEF RWIdle, RWHandles, Turns, RWAsleep
    <2> QED
      BY <1>2, <1>3, <1>5, <2>2, <2>3 DEF RWIdle, RWCore, RWJustified
  <1>7. LatchCore /\ latch_waiters_ = <<>>
    <2>1. latch_waiters_ = <<>> /\ latch_count_ \in Nat
      BY LatchAssumption DEF Init, LatchInit
    <2> QED
      BY <1>2, <1>3, <2>1, NothingQueued DEF LatchCore
  <1>8. waiters_ = <<>> /\ subject \in {"mutex", "semaphore", "rwlock", "latch"}
    BY DEF Init, SemInit
  <1>9. MutexCore /\ mutex_waiters_ = <<>> /\ locked_ = FALSE
    <2>1. mutex_waiters_ = <<>> /\ locked_ = FALSE
      BY DEF Init, MutexInit
    <2>2. MutualExclusion
      BY <1>3, <2>1 DEF MutualExclusion, LockOwners
    <2> QED
      BY <1>2, <1>3, <2>1, <2>2, NothingQueued DEF MutexCore
  <1> QED
    BY <1>4, <1>5, <1>6, <1>7, <1>8, <1>9 DEF IndInv

(* A coroutine owns a permit, or the mutex, only while it uses one. *)
LEMMA NoOwners ==
  ASSUME IndInv
  PROVE  /\ subject # "semaphore" => Owners = {}
         /\ subject # "mutex" => LockOwners = {}
  <1>1. CASE subject = "rwlock"
    BY <1>1 DEF IndInv, RWCore, StackInv, RWRun, RWAsleep, Owners, LockOwners
  <1>2. CASE subject = "latch"
    BY <1>2 DEF IndInv, LatchCore, StackInv, LatchRun, LatchAsleep, Owners, LockOwners
  <1>3. CASE subject = "mutex"
    BY <1>3 DEF IndInv, MutexCore, StackInv, MutexRun, MutexAsleep, Owners
  <1>4. CASE subject = "semaphore"
    BY <1>4 DEF IndInv, SemCore, StackInv, SemRun, SemAsleep, LockOwners
  <1> QED
    BY <1>1, <1>2, <1>3, <1>4 DEF IndInv

(* The same in the next state. *)
LEMMA NoOwnersNext ==
  ASSUME IndInv'
  PROVE  /\ subject' # "semaphore" => Owners' = {}
         /\ subject' # "mutex" => LockOwners' = {}
  <1>1. CASE subject' = "rwlock"
    BY <1>1 DEF IndInv, RWCore, StackInv, RWRun, RWAsleep, Owners, LockOwners
  <1>2. CASE subject' = "latch"
    BY <1>2 DEF IndInv, LatchCore, StackInv, LatchRun, LatchAsleep, Owners, LockOwners
  <1>3. CASE subject' = "mutex"
    BY <1>3 DEF IndInv, MutexCore, StackInv, MutexRun, MutexAsleep, Owners
  <1>4. CASE subject' = "semaphore"
    BY <1>4 DEF IndInv, SemCore, StackInv, SemRun, SemAsleep, LockOwners
  <1> QED
    BY <1>1, <1>2, <1>3, <1>4 DEF IndInv

(* A step that is not of the semaphore, or not of the mutex, is none of its *)
(* permit pool.                                                             *)
LEMMA PoolsIdle ==
  ASSUME IndInv, IndInv', subject' = subject
  PROVE  /\ subject # "semaphore" /\ UNCHANGED <<count_, waiters_, permits>>
              => UNCHANGED FP!vars
         /\ subject # "mutex" /\ UNCHANGED <<locked_, mutex_waiters_>>
              => UNCHANGED LP!vars
  BY NoOwners, NoOwnersNext DEF FP!vars, LP!vars

(* Every step of every primitive. *)
LEMMA StepIndInv ==
  ASSUME IndInv, NEW c \in Coro, Mutex(c) \/ Semaphore(c) \/ RWLock(c) \/ Latch(c)
  PROVE  /\ IndInv' /\ (FP!Next \/ UNCHANGED FP!vars)
         /\ LP!Next \/ UNCHANGED LP!vars
  <1>1. CASE Semaphore(c)
    <2>1. /\ subject = "semaphore" /\ subject' = subject /\ SemStep(c)
          /\ UNCHANGED <<locked_, mutex_waiters_, reader_count_, write_locked_,
                         read_waiters_, write_waiters_, latch_waiters_>>
      BY <1>1 DEF Semaphore, lock, mutex
    <2>2. SemCore' /\ (FP!Next \/ UNCHANGED FP!vars)
      BY <2>1, SemStepCore DEF IndInv
    <2>3. IndInv'
      BY <2>1, <2>2 DEF IndInv, RWIdle
    <2> QED
      BY <2>1, <2>2, <2>3, PoolsIdle
  <1>2. CASE RWLock(c)
    <2>1. /\ subject = "rwlock" /\ subject' = subject /\ RWStep(c)
          /\ UNCHANGED <<locked_, mutex_waiters_, count_, waiters_, permits,
                         latch_waiters_>>
      BY <1>2 DEF RWLock, semaphore, mutex
    <2>2. RWCore'
      BY <2>1, RWStepCore DEF IndInv
    <2>3. IndInv'
      BY <2>1, <2>2 DEF IndInv
    <2> QED
      BY <2>1, <2>3, PoolsIdle
  <1>3. CASE Latch(c)
    <2>1. /\ subject = "latch" /\ subject' = subject /\ LatchStep(c)
          /\ UNCHANGED <<locked_, mutex_waiters_, count_, waiters_, permits,
                         reader_count_, write_locked_, read_waiters_, write_waiters_>>
      BY <1>3 DEF Latch, semaphore, lock, mutex
    <2>2. LatchCore'
      BY <2>1, LatchStepCore DEF IndInv
    <2>3. IndInv'
      BY <2>1, <2>2 DEF IndInv, RWIdle
    <2> QED
      BY <2>1, <2>3, PoolsIdle
  <1>4. CASE Mutex(c)
    <2>1. /\ subject = "mutex" /\ subject' = subject /\ MutexStep(c)
          /\ UNCHANGED <<count_, waiters_, permits, reader_count_, write_locked_,
                         read_waiters_, write_waiters_, latch_waiters_>>
      BY <1>4 DEF Mutex, semaphore, lock
    <2>2. MutexCore' /\ (LP!Next \/ UNCHANGED LP!vars)
      BY <2>1, MutexStepCore DEF IndInv
    <2>3. IndInv'
      BY <2>1, <2>2 DEF IndInv, RWIdle
    <2> QED
      BY <2>1, <2>2, <2>3, PoolsIdle
  <1> QED
    BY <1>1, <1>2, <1>3, <1>4

(* A stuttering step. *)
LEMMA StutterIndInv ==
  ASSUME IndInv, UNCHANGED vars
  PROVE  IndInv' /\ UNCHANGED FP!vars /\ UNCHANGED LP!vars
  <1>1. UNCHANGED <<subject, locked_, mutex_waiters_, count_, waiters_, permits, reader_count_, write_locked_,
                    read_waiters_, write_waiters_, passed, latch_count_,
                    latch_waiters_, pc, to_wake, runner, after>>
    BY DEF vars, mutexVars, semVars, rwVars, latchVars, mutex, semaphore, lock, stack
  <1>2. Woken' = Woken
    BY <1>1 DEF Woken
  <1>3. /\ Owners' = Owners /\ LockOwners' = LockOwners
        /\ Readers' = Readers /\ Writers' = Writers
    BY <1>1, <1>2 DEF Owners, LockOwners, Readers, Writers
  <1>4. /\ StackInv(MutexRun, MutexAsleep) => StackInv(MutexRun, MutexAsleep)'
        /\ StackInv(SemRun, SemAsleep) => StackInv(SemRun, SemAsleep)'
        /\ StackInv(RWRun, RWAsleep) => StackInv(RWRun, RWAsleep)'
        /\ StackInv(LatchRun, LatchAsleep) => StackInv(LatchRun, LatchAsleep)'
    BY <1>1 DEF StackInv
  <1>5. /\ ListsInv(MutexAsleep) => ListsInv(MutexAsleep)'
        /\ ListsInv(SemAsleep) => ListsInv(SemAsleep)'
        /\ ListsInv(RWAsleep) => ListsInv(RWAsleep)'
        /\ ListsInv(LatchAsleep) => ListsInv(LatchAsleep)'
    BY <1>1, <1>2 DEF ListsInv
  <1>6. /\ SemCore => SemCore'
        /\ LatchCore => LatchCore'
        /\ MutexCore => MutexCore'
    BY <1>1, <1>2, <1>3, <1>4, <1>5 DEF SemCore, LatchCore, MutexCore, MutualExclusion
  <1>7. RWCore => RWCore'
    <2>1. RWHandles => RWHandles'
      BY <1>1, <1>2 DEF RWHandles
    <2>2. ReadWriteExclusion => ReadWriteExclusion'
      BY <1>1, <1>3 DEF ReadWriteExclusion
    <2>3. Turns => Turns'
      BY <1>1, <1>2 DEF Turns
    <2>4. RWJustified => RWJustified'
      BY <1>1 DEF RWJustified
    <2> QED
      BY <1>1, <1>4, <1>5, <2>1, <2>2, <2>3, <2>4 DEF RWCore
  <1> QED
    BY <1>1, <1>3, <1>6, <1>7 DEF IndInv, RWIdle, FP!vars, LP!vars

(***************************************************************************)
(* IndInv holds in every reachable state, whichever primitive is used, for *)
(* every set of coroutines and every initial count.                        *)
(***************************************************************************)
THEOREM Inductive == Spec => []IndInv
  <1>1. IndInv /\ [Next]_vars => IndInv'
    BY StepIndInv, StutterIndInv DEF Next
  <1> QED
    BY <1>1, InitIndInv, PTL DEF Spec

(***************************************************************************)
(* At most one coroutine has the mutex, whether it runs or was only popped *)
(* by Unlock(), and none while locked_ is false.                           *)
(***************************************************************************)
THEOREM MutexSafe == Spec => []MutualExclusion
  <1>1. IndInv => MutualExclusion
    BY NoOwners DEF IndInv, MutexCore, MutualExclusion
  <1> QED
    BY <1>1, Inductive, PTL

(***************************************************************************)
(* The mutex implements the FIFO pool of one permit: the next owner is the *)
(* one that queued longest, and no Lock() or TryLock() overtakes it.       *)
(***************************************************************************)
THEOREM MutexRefines == Spec => MutexRefinesFifo
  <1>1. Init => LP!Init
    BY DEF Init, MutexInit, LockOwners, LP!Init
  <1>2. IndInv /\ [Next]_vars => [LP!Next]_(LP!vars)
    BY StepIndInv, StutterIndInv DEF Next
  <1> QED
    BY <1>1, <1>2, Inductive, PTL DEF Spec, MutexRefinesFifo, LP!Spec

(***************************************************************************)
(* The semaphore implements the FIFO permit pool: a released permit goes   *)
(* to the coroutine that queued longest and no await_ready overtakes it.   *)
(***************************************************************************)
THEOREM SemaphoreRefines == Spec => SemaphoreRefinesFifo
  <1>1. Init => FP!Init
    <2> SUFFICES ASSUME Init PROVE FP!Init
      OBVIOUS
    <2>1. Owners = {}
      BY DEF Init, Owners
    <2> QED
      BY <2>1 DEF Init, SemInit, FP!Init
  <1>2. IndInv /\ [Next]_vars => [FP!Next]_(FP!vars)
    BY StepIndInv, StutterIndInv DEF Next
  <1> QED
    BY <1>1, <1>2, Inductive, PTL DEF Spec, SemaphoreRefinesFifo, FP!Spec

(***************************************************************************)
(* Every suspended coroutine is in exactly one place, a waiters list or    *)
(* the to_wake of one Release(), unlock or CountDown(): none is resumed    *)
(* while it runs or twice, none is dropped.                                *)
(***************************************************************************)
THEOREM HandlesSafe == Spec => []HandlesValid
  <1>1. ASSUME IndInv PROVE HandlesValid
    <2> DEFINE q == mutex_waiters_ \o waiters_ \o read_waiters_ \o write_waiters_
                      \o latch_waiters_
               S == {c \in Coro : pc[c] \in {"mwait", "susp", "rwait", "wwait", "lwait"}}
    <2>1. /\ mutex_waiters_ \in Seq(Coro) /\ Distinct(mutex_waiters_)
          /\ waiters_ \in Seq(Coro) /\ Distinct(waiters_)
          /\ read_waiters_ \in Seq(Coro) /\ Distinct(read_waiters_)
          /\ write_waiters_ \in Seq(Coro) /\ Distinct(write_waiters_)
          /\ latch_waiters_ \in Seq(Coro) /\ Distinct(latch_waiters_)
      BY <1>1, NothingQueued DEF IndInv, MutexCore, SemCore, RWCore, RWHandles, RWIdle,
                                 LatchCore
    <2>2. \/ Contents(waiters_) = {}
          \/ /\ Contents(read_waiters_) = {} /\ Contents(write_waiters_) = {}
             /\ Contents(latch_waiters_) = {}
      BY <1>1, NothingQueued DEF IndInv, RWIdle
    <2>2a. \/ Contents(mutex_waiters_) = {}
           \/ /\ Contents(waiters_) = {} /\ Contents(read_waiters_) = {}
              /\ Contents(write_waiters_) = {} /\ Contents(latch_waiters_) = {}
      BY <1>1, NothingQueued DEF IndInv, RWIdle
    <2>3. /\ Contents(latch_waiters_) = {}
             \/ (Contents(read_waiters_) = {} /\ Contents(write_waiters_) = {})
          /\ Contents(read_waiters_) \intersect Contents(write_waiters_) = {}
      <3>1. subject # "rwlock" => RWIdle
        BY <1>1 DEF IndInv
      <3>2. subject = "rwlock" => RWHandles /\ latch_waiters_ = <<>>
        BY <1>1 DEF IndInv, RWCore
      <3>3. RWHandles => Contents(read_waiters_) \intersect Contents(write_waiters_) = {}
        BY DEF RWHandles
      <3>4. RWIdle => Contents(read_waiters_) = {} /\ Contents(write_waiters_) = {}
        BY NothingQueued DEF RWIdle
      <3>5. subject = "rwlock" => Contents(latch_waiters_) = {}
        BY <3>2, NothingQueued
      <3> QED
        BY <3>1, <3>2, <3>3, <3>4, <3>5
    <2> DEFINE q0 == mutex_waiters_ \o waiters_
               q1 == q0 \o read_waiters_
               q2 == q1 \o write_waiters_
    <2>4a. /\ q0 \in Seq(Coro) /\ Distinct(q0)
           /\ Contents(q0) = Contents(mutex_waiters_) \union Contents(waiters_)
      BY <2>1, <2>2a, ConcatSets
    <2> HIDE DEF q0
    <2>4. /\ q1 \in Seq(Coro) /\ Distinct(q1)
          /\ Contents(q1) = Contents(q0) \union Contents(read_waiters_)
      <3>1. Contents(q0) \intersect Contents(read_waiters_) = {}
        BY <2>2, <2>2a, <2>4a
      <3> QED
        BY <2>1, <2>4a, <3>1, ConcatSets
    <2> HIDE DEF q1
    <2>5. /\ q2 \in Seq(Coro) /\ Distinct(q2)
          /\ Contents(q2) = Contents(q1) \union Contents(write_waiters_)
      BY <2>1, <2>2, <2>2a, <2>3, <2>4, <2>4a, ConcatSets
    <2>6. q = q2 \o latch_waiters_
      BY DEF q0, q1
    <2> HIDE DEF q, q2
    <2>7. /\ q \in Seq(Coro) /\ Distinct(q)
          /\ Contents(q) = Contents(q2) \union Contents(latch_waiters_)
      <3>1. Contents(q2) \intersect Contents(latch_waiters_) = {}
        BY <2>2, <2>2a, <2>3, <2>4, <2>4a, <2>5
      <3> QED
        BY <2>1, <2>5, <2>6, <3>1, ConcatSets
    <2>8. Contents(q) = Contents(mutex_waiters_) \union Contents(waiters_)
                          \union Contents(read_waiters_)
                          \union Contents(write_waiters_) \union Contents(latch_waiters_)
      BY <2>4, <2>4a, <2>5, <2>7
    <2>9. /\ Contents(q) \intersect Woken = {} /\ Contents(q) \union Woken = S
          /\ to_wake \in [Coro -> Seq(Coro)]
          /\ \/ ListsInv(MutexAsleep) \/ ListsInv(SemAsleep)
             \/ ListsInv(RWAsleep) \/ ListsInv(LatchAsleep)
      <3>1. CASE subject = "semaphore"
        <4>1. SemCore /\ Contents(q) = Contents(waiters_)
          BY <1>1, <2>8, <3>1, NothingQueued DEF IndInv, RWIdle
        <4>2. S = {c \in Coro : pc[c] = "susp"}
          BY <4>1 DEF SemCore, StackInv, SemRun, SemAsleep
        <4> QED
          BY <4>1, <4>2 DEF SemCore, StackInv
      <3>2. CASE subject = "rwlock"
        <4>1. /\ RWCore
              /\ Contents(q) = Contents(read_waiters_) \union Contents(write_waiters_)
          BY <1>1, <2>8, <3>2, NothingQueued DEF IndInv
        <4>2. S = {c \in Coro : pc[c] \in RWAsleep}
          BY <4>1 DEF RWCore, StackInv, RWRun, RWAsleep
        <4> QED
          BY <4>1, <4>2 DEF RWCore, RWHandles, StackInv
      <3>3. CASE subject = "latch"
        <4>1. LatchCore /\ Contents(q) = Contents(latch_waiters_)
          BY <1>1, <2>8, <3>3, NothingQueued DEF IndInv, RWIdle
        <4>2. S = {c \in Coro : pc[c] = "lwait"}
          BY <4>1 DEF LatchCore, StackInv, LatchRun, LatchAsleep
        <4> QED
          BY <4>1, <4>2 DEF LatchCore, StackInv
      <3>4. CASE subject = "mutex"
        <4>1. MutexCore /\ Contents(q) = Contents(mutex_waiters_)
          BY <1>1, <2>8, <3>4, NothingQueued DEF IndInv, RWIdle
        <4>2. S = {c \in Coro : pc[c] = "mwait"}
          BY <4>1 DEF MutexCore, StackInv, MutexRun, MutexAsleep
        <4> QED
          BY <4>1, <4>2 DEF MutexCore, StackInv
      <3> QED
        BY <1>1, <3>1, <3>2, <3>3, <3>4 DEF IndInv
    <2> HIDE DEF S
    <2>10. InOnePlace(q, S)
      BY <2>7, <2>9, OnePlace
    <2> QED
      BY <2>10 DEF HandlesValid, q, S
  <1> QED
    BY <1>1, Inductive, PTL

(***************************************************************************)
(* No lost wakeup between await_ready and await_suspend: nobody waits for  *)
(* what is free.                                                           *)
(***************************************************************************)
THEOREM NobodyWaitsInVain == Spec => []WaitersJustified
  <1>1. IndInv => WaitersJustified
    BY DEF IndInv, MutexCore, SemCore, RWCore, RWJustified, RWIdle, LatchCore,
           WaitersJustified
  <1> QED
    BY <1>1, Inductive, PTL

(***************************************************************************)
(* Readers exclude writers and writers each other, and reader_count_ is    *)
(* exact, for batches of any size.                                         *)
(***************************************************************************)
THEOREM LockExcludes == Spec => []ReadWriteExclusion
  <1>1. ASSUME IndInv PROVE ReadWriteExclusion
    <2>1. CASE subject = "rwlock"
      BY <1>1, <2>1 DEF IndInv, RWCore
    <2>2. CASE subject # "rwlock"
      <3>1. Readers = {} /\ Writers = {}
        BY <1>1, <2>2 DEF IndInv, MutexCore, SemCore, LatchCore, StackInv, MutexRun,
                          MutexAsleep, SemRun, SemAsleep, LatchRun, LatchAsleep,
                          Readers, Writers
      <3> QED
        BY <1>1, <2>2, <3>1, FS_EmptySet DEF IndInv, RWIdle, ReadWriteExclusion
    <2> QED
      BY <2>1, <2>2
  <1> QED
    BY <1>1, Inductive, PTL

(***************************************************************************)
(* The policy alternates: a waiting reader is passed by one writer at most *)
(* and a waiting writer by one batch of readers.                           *)
(***************************************************************************)
THEOREM LockAlternates == Spec => []BoundedOvertaking
  <1>1. ASSUME IndInv PROVE BoundedOvertaking
    <2>1. Elems(read_waiters_) = Contents(read_waiters_)
          /\ Elems(write_waiters_) = Contents(write_waiters_)
      BY ElemsContents
    <2> QED
      BY <1>1, <2>1, NothingQueued DEF IndInv, RWCore, Turns, RWIdle, BoundedOvertaking
  <1> QED
    BY <1>1, Inductive, PTL

=============================================================================
