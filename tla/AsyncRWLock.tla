---------------------------- MODULE AsyncRWLock ----------------------------
(***************************************************************************)
(* AsyncRWLock (sync/rwlock.hpp).  ReadLock() and WriteLock() are an       *)
(* await_ready and an await_suspend that run the same test under mutex_.   *)
(* An unlock passes the lock to suspended coroutines under mutex_ and then *)
(* resumes them inline, one after the other: the second reader of a batch  *)
(* owns its share of the lock while the first one still runs on the stack  *)
(* of WriteUnlock().                                                       *)
(***************************************************************************)
EXTENDS Coroutines

VARIABLES
  reader_count_,
  write_locked_,
  read_waiters_,
  write_waiters_,
  passed         (* history: admissions of the other kind since a coroutine *)
                 (* queued (or, for a writer, since its queue moved up)     *)

lock == <<reader_count_, write_locked_, read_waiters_, write_waiters_>>
rwVars == <<lock, passed, pc, stack>>

(* "run" in user code, without a guard                                      *)
(* "read", "write" in user code, with a ReadGuard, with a WriteGuard        *)
(* "read?", "write?" await_ready returned false                             *)
(* "rwait", "wwait" suspended                                               *)
RWInit ==
  /\ reader_count_ = 0 /\ write_locked_ = FALSE
  /\ read_waiters_ = <<>> /\ write_waiters_ = <<>>
  /\ passed = [c \in Coro |-> 0]

(* History: one admission more than before; the count stops at 2. *)
Passed1(c) == IF passed[c] < 2 THEN passed[c] + 1 ELSE 2

(* History: the readers `in` are admitted, past the waiting writers. *)
ReadersIn(in) ==
  /\ passed' = [c \in Coro |-> IF c \in in THEN 0
                               ELSE IF c \in Elems(write_waiters_)
                               THEN Passed1(c) ELSE passed[c]]

(* History: the writer w is admitted, past the waiting readers. *)
WriterIn(w) ==
  /\ passed' = [c \in Coro |-> IF c = w \/ c \in Elems(write_waiters_) THEN 0
                               ELSE IF c \in Elems(read_waiters_)
                               THEN Passed1(c) ELSE passed[c]]

-----------------------------------------------------------------------------
Bug_CanRead == ~write_locked_  (* waiting writers do not hold readers off *)

CanRead == ~write_locked_ /\ write_waiters_ = <<>>

TakeRead(c) ==
  /\ CanRead
  /\ reader_count_' = reader_count_ + 1
  /\ At(c, "read")
  /\ ReadersIn({c})
  /\ UNCHANGED <<write_locked_, read_waiters_, write_waiters_>>

(* ReadLockAwaitable::await_ready *)
ReadReady(c) ==
  /\ pc[c] = "run"
  /\ \/ TakeRead(c)
     \/ /\ ~CanRead
        /\ At(c, "read?")
        /\ UNCHANGED <<lock, passed>>

(* ReadLockAwaitable::await_suspend *)
ReadSuspend(c) ==
  /\ pc[c] = "read?"
  /\ \/ TakeRead(c)
     \/ /\ ~CanRead
        /\ read_waiters_' = Append(read_waiters_, c)
        /\ Leave(c, "rwait")
        /\ UNCHANGED <<reader_count_, write_locked_, write_waiters_, passed>>

Bug_CanWrite == ~write_locked_  (* readers do not hold a writer off *)

CanWrite == ~write_locked_ /\ reader_count_ = 0

TakeWrite(c) ==
  /\ CanWrite
  /\ write_locked_' = TRUE
  /\ At(c, "write")
  /\ WriterIn(c)
  /\ UNCHANGED <<reader_count_, read_waiters_, write_waiters_>>

(* WriteLockAwaitable::await_ready *)
WriteReady(c) ==
  /\ pc[c] = "run"
  /\ \/ TakeWrite(c)
     \/ /\ ~CanWrite
        /\ At(c, "write?")
        /\ UNCHANGED <<lock, passed>>

(* WriteLockAwaitable::await_suspend *)
WriteSuspend(c) ==
  /\ pc[c] = "write?"
  /\ \/ TakeWrite(c)
     \/ /\ ~CanWrite
        /\ write_waiters_' = Append(write_waiters_, c)
        /\ Leave(c, "wwait")
        /\ UNCHANGED <<reader_count_, write_locked_, read_waiters_, passed>>

-----------------------------------------------------------------------------
AdmitWriter(c) ==
  /\ write_locked_' = TRUE
  /\ write_waiters_' = Tail(write_waiters_)
  /\ WriterIn(Head(write_waiters_))
  /\ WakeAll(c, <<Head(write_waiters_)>>, "run")

(* ~ReadGuard: ReadUnlock() *)
ReadUnlock(c) ==
  /\ pc[c] = "read"
  /\ reader_count_' = reader_count_ - 1
  /\ \/ /\ reader_count_ = 1 /\ write_waiters_ # <<>>
        /\ AdmitWriter(c)
     \/ /\ reader_count_ # 1 \/ write_waiters_ = <<>>
        /\ At(c, "run")
        /\ UNCHANGED <<write_locked_, write_waiters_, passed>>
  /\ UNCHANGED read_waiters_

(* WriteUnlock() with readers waiting: all of them come in. *)
AdmitReaders(c) ==
  /\ read_waiters_ # <<>>
  /\ reader_count_' = Len(read_waiters_)
  /\ write_locked_' = FALSE
  /\ read_waiters_' = <<>>
  /\ ReadersIn(Elems(read_waiters_))
  /\ WakeAll(c, read_waiters_, "run")
  /\ UNCHANGED write_waiters_

Bug_WriteUnlock(c) ==  (* writers first *)
  /\ pc[c] = "write"
  /\ \/ /\ write_waiters_ # <<>>
        /\ AdmitWriter(c)
        /\ UNCHANGED <<reader_count_, read_waiters_>>
     \/ write_waiters_ = <<>> /\ AdmitReaders(c)
     \/ /\ read_waiters_ = <<>> /\ write_waiters_ = <<>>
        /\ write_locked_' = FALSE
        /\ At(c, "run")
        /\ UNCHANGED <<reader_count_, read_waiters_, write_waiters_,
                       passed>>

(* ~WriteGuard: WriteUnlock() *)
WriteUnlock(c) ==
  /\ pc[c] = "write"
  /\ \/ AdmitReaders(c)
     \/ /\ read_waiters_ = <<>> /\ write_waiters_ # <<>>
        /\ AdmitWriter(c)
        /\ UNCHANGED <<reader_count_, read_waiters_>>
     \/ /\ read_waiters_ = <<>> /\ write_waiters_ = <<>>
        /\ write_locked_' = FALSE
        /\ At(c, "run")
        /\ UNCHANGED <<reader_count_, read_waiters_, write_waiters_,
                       passed>>

(* resume() of the next handle: await_resume makes the waiter's guard. *)
RWResume(c) ==
  /\ ResumeAt(c, LAMBDA w : IF pc[w] = "wwait" THEN "write" ELSE "read")
  /\ UNCHANGED <<lock, passed>>

RWYield(c) == YieldAt(c, {"run", "read", "write"}) /\ UNCHANGED <<lock, passed>>

RWStep(c) ==
  \/ ReadReady(c) \/ ReadSuspend(c) \/ ReadUnlock(c)
  \/ WriteReady(c) \/ WriteSuspend(c) \/ WriteUnlock(c)
  \/ RWResume(c) \/ RWYield(c)

(* The steps a coroutine is sure to take: a started await_suspend or        *)
(* resume() runs to its end and a guard is at last destroyed.               *)
RWObliged(c) ==
  ReadSuspend(c) \/ WriteSuspend(c) \/ ReadUnlock(c) \/ WriteUnlock(c) \/ RWResume(c)

-----------------------------------------------------------------------------
Readers == {c \in Coro : pc[c] = "read" \/ (c \in Woken /\ pc[c] = "rwait")}
Writers == {c \in Coro : pc[c] = "write" \/ (c \in Woken /\ pc[c] = "wwait")}

(***************************************************************************)
(* Readers exclude writers and writers each other, counting coroutines     *)
(* that were admitted and not yet resumed; reader_count_ and write_locked_ *)
(* are exact, although a batch of readers is admitted by one assignment    *)
(* (rwlock.hpp:199) and leaves one by one.                                 *)
(***************************************************************************)
ReadWriteExclusion ==
  /\ reader_count_ = Cardinality(Readers)
  /\ write_locked_ <=> Writers # {}
  /\ Writers # {} => Readers = {} /\ Cardinality(Writers) = 1

(***************************************************************************)
(* The fair policy ("alternates between readers and writers",              *)
(* docs/tutorials/10:178): a waiting reader is passed by one writer at     *)
(* most, and the writers' queue by one batch of readers before it moves.   *)
(***************************************************************************)
BoundedOvertaking ==
  \A c \in Elems(read_waiters_) \union Elems(write_waiters_) : passed[c] <= 1

=============================================================================
