------------------------------ MODULE UringOps ------------------------------
(***************************************************************************)
(* The awaitables of io/iouring_async_ops.hpp and the provided buffers of  *)
(* io/iouring_executor.cpp.  Each prepares one entry of the submission     *)
(* ring for the coroutine that uses object o and suspends it until the     *)
(* completion; without an executor, or with the ring full, it returns an   *)
(* error at once.  All submit the ring, except the receive into a provided *)
(* buffer, which leaves that to the executor's loop.                       *)
(***************************************************************************)
EXTENDS Descriptors

CONSTANTS
  Buffer,        (* the provided buffers                                    *)
  Depth          (* entries of the submission ring                          *)

ASSUME RingAssumption == IsFiniteSet(Buffer) /\ Depth \in Nat \ {0}

Error == -1      (* any negative result                                     *)
None_ == -2      (* no result yet                                           *)

VARIABLES
  on_executor,   (* the coroutines run on an IoUringExecutor                *)
  job,           (* what each object's coroutine is doing, see NoJob        *)
  sq,            (* the objects whose entry is prepared, not submitted      *)
  submitted,     (* those whose entry the kernel has                        *)
  ring,          (* the buffers the kernel may use                          *)
  filled         (* the bytes in each buffer                                *)

ringVars == <<on_executor, sq, submitted, ring, filled>>

NoJob == [call |-> "",                 (* the call                          *)
          io |-> "",                   (* what it awaits                    *)
          fd |-> NoFd,                 (* with this descriptor              *)
          len |-> 0, total |-> 0,      (* bytes asked for, and done         *)
          res |-> None_,               (* the result, cqe->res              *)
          buf |-> {},                  (* the buffer, from cqe->flags       *)
          data |-> <<>>]               (* the bytes received                *)

NoUring ==
  /\ on_executor \in BOOLEAN
  /\ job = [o \in Obj |-> NoJob] /\ sq = <<>> /\ submitted = {}
  /\ ring = Buffer /\ filled = [b \in Buffer |-> <<>>]

Entries(s) == {s[i] : i \in DOMAIN s}

(* The kernel looks the descriptors up when it is given the entries: one    *)
(* that has waited may find its own closed, and free or another socket's.   *)
Submitted(jobs) ==
  [o \in Obj |-> IF o \in Entries(sq) /\ jobs[o].fd # fd_[o]
                 THEN [jobs[o] EXCEPT !.io = "recv_stale"] ELSE jobs[o]]

(* await_suspend: j says what the coroutine of o is doing. *)
Await(o, io, fd, j) ==
  \/ /\ ~on_executor \/ Len(sq) = Depth            (* -ENXIO, -EAGAIN *)
     /\ job' = [job EXCEPT ![o] = [j EXCEPT !.io = "", !.fd = fd, !.res = Error]]
     /\ UNCHANGED ringVars
  \/ /\ on_executor /\ Len(sq) < Depth
     /\ LET jobs == [job EXCEPT ![o] = [j EXCEPT !.io = io, !.fd = fd, !.res = None_]] IN
        \/ /\ io = "recv_provided"
           /\ sq' = Append(sq, o) /\ job' = jobs /\ UNCHANGED submitted
        \/ /\ io # "recv_provided"                 (* io_uring_submit *)
           /\ sq' = <<>> /\ submitted' = submitted \union Entries(sq) \union {o}
           /\ job' = Submitted(jobs)
     /\ UNCHANGED <<on_executor, ring, filled>>

IoUringAccept(o, j) == Await(o, "accept", fd_[o], j)
IoUringConnect(o, j) == Await(o, "connect", fd_'[o], j)
IoUringRecv(o, j) == Await(o, "recv", fd_[o], j)
IoUringRecvProvided(o, j) == Await(o, "recv_provided", fd_[o], j)
IoUringSend(o, j) == Await(o, "send", fd_[o], j)
IoUringOpenAt(o, j) == Await(o, "open", NoFd, j)
IoUringReadFile(o, j) == Await(o, "read", fd_[o], j)
IoUringWriteFile(o, j) == Await(o, "write", fd_[o], j)
IoUringClose(o, fd, j) == Await(o, "close", fd, j)
IoUringFsync(o, j) == Await(o, "fsync", fd_[o], j)
IoUringStatx(o, j) == Await(o, "statx", fd_[o], j)
IoUringUnlinkAt(o, j) == Await(o, "unlink", NoFd, j)
IoUringMkdirAt(o, j) == Await(o, "mkdir", NoFd, j)

(* The executor's loop submits before it waits. *)
LoopSubmits ==
  /\ sq # <<>>
  /\ submitted' = submitted \union Entries(sq) /\ sq' = <<>>
  /\ job' = Submitted(job)
  /\ UNCHANGED <<on_executor, ring, filled, fdVars, netVars, userVars>>

-----------------------------------------------------------------------------
(* The kernel completes an entry, and ProcessCompletions() resumes the      *)
(* coroutine with the result.                                               *)
Complete(o, io) ==
  /\ o \in submitted /\ job[o].io = io
  /\ submitted' = submitted \ {o}
  /\ UNCHANGED <<on_executor, sq, userVars>>

Result(o, res) == job' = [job EXCEPT ![o].io = "", ![o].res = res]

(* Anything may fail. *)
KernelFails(o) ==
  /\ Complete(o, job[o].io) /\ Result(o, Error)
  /\ open' = IF job[o].io = "close" THEN open \ {job[o].fd} ELSE open
  /\ UNCHANGED <<fd_, closed_, alive, lost, netVars, ring, filled>>

KernelAccept(o) ==
  /\ Complete(o, "accept") /\ queued /\ Free # {}
  /\ Result(o, Lowest(Free)) /\ open' = open \union {Lowest(Free)}
  /\ queued' = FALSE /\ ends' = ends \union {"sink"}
  /\ UNCHANGED <<fd_, closed_, alive, lost, listens, pipe, took, ring, filled>>

KernelConnect(o) ==
  /\ Complete(o, "connect") /\ Connects /\ Result(o, 0)
  /\ queued' = TRUE /\ ends' = IF fd_[o] = job[o].fd THEN {o} ELSE {}
  /\ UNCHANGED <<fdVars, listens, pipe, took, ring, filled>>

KernelSend(o) ==
  /\ Complete(o, "send") /\ o \in ends
  /\ \E n \in Sends(job[o].len - job[o].total) : Sent(n) /\ Result(o, n)
  /\ UNCHANGED <<fdVars, ring, filled>>

KernelRecv(o) ==
  /\ Complete(o, "recv")
  /\ \/ \E n \in Receives(job[o].len) :
          /\ Received(n)
          /\ job' = [job EXCEPT ![o].io = "", ![o].res = n, ![o].data = SubSeq(pipe, 1, n)]
     \/ AtEnd /\ Result(o, 0) /\ UNCHANGED netVars
  /\ UNCHANGED <<fdVars, ring, filled>>

(* The kernel picks a buffer; with none left the receive fails.  With none  *)
(* picked no byte is received, whatever the result says: the entry has no   *)
(* buffer of its own.  On a stale descriptor the receive fails, or waits on *)
(* a socket that nobody sends anything to.                                  *)
KernelRecvProvided(o) ==
  /\ Complete(o, "recv_provided")
  /\ \/ \E b \in ring, n \in Receives(2) :
          /\ Received(n)
          /\ job' = [job EXCEPT ![o].io = "", ![o].res = n, ![o].buf = {b}]
          /\ ring' = ring \ {b} /\ filled' = [filled EXCEPT ![b] = SubSeq(pipe, 1, n)]
     \/ AtEnd /\ Result(o, 0) /\ UNCHANGED <<netVars, ring, filled>>
     \/ pipe # <<>> /\ Result(o, 1) /\ UNCHANGED <<netVars, ring, filled>>
  /\ UNCHANGED fdVars

KernelOpen(o) ==
  /\ Complete(o, "open") /\ Free # {}
  /\ Result(o, Lowest(Free)) /\ open' = open \union {Lowest(Free)}
  /\ UNCHANGED <<fd_, closed_, alive, lost, netVars, ring, filled>>

KernelClose(o) ==
  /\ Complete(o, "close") /\ Result(o, 0)
  /\ open' = open \ {job[o].fd}
  /\ UNCHANGED <<fd_, closed_, alive, lost, netVars, ring, filled>>

(* The operations that return only whether they worked. *)
KernelDone(o) ==
  /\ \E io \in {"fsync", "unlink", "mkdir"} : Complete(o, io)
  /\ Result(o, 0)
  /\ UNCHANGED <<fdVars, netVars, ring, filled>>

-----------------------------------------------------------------------------
(* ReturnBuffer(bgid, bid) *)
ReturnBuffer(b) == ring' = ring \union {b}

(* The buffers that completions hold. *)
Held == UNION {job[o].buf : o \in Obj}

=============================================================================
