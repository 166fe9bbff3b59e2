----------------------------- MODULE Descriptors -----------------------------
(***************************************************************************)
(* What the kernel keeps for the sockets and files of io/sync_tcp.cpp,     *)
(* io/iouring_tcp.cpp and io/iouring_file.cpp, and the objects that own    *)
(* descriptors.  Numbers are reused at once, so closing one twice can      *)
(* close somebody else's.  One connection is made: the source sends the    *)
(* bytes 1, 2, 3, ... to the sink, which the listener has accepted.        *)
(***************************************************************************)
EXTENDS Integers, Sequences, FiniteSets

CONSTANTS
  MaxFd,         (* descriptors are 1 .. MaxFd                              *)
  MaxBytes       (* bound on the bytes sent, and written to the file        *)

ASSUME DescriptorsAssumption == MaxFd \in Nat /\ MaxBytes \in Nat

Obj == {"listener", "source", "sink", "file", "other"}
NoFd == 0        (* -1 in the code                                          *)

VARIABLES
  open,          (* the descriptors the kernel has open                     *)
  fd_,           (* the member of each object                               *)
  closed_,       (* likewise, of an IoUringTcpListener or IoUringTcpStream  *)
  alive,         (* the objects that exist                                  *)
  lost,          (* history: the streams bound to leave their descriptor    *)
                 (* open, and the descriptors left open for such a reason   *)
  listens,       (* the listener's socket listens                           *)
  queued,        (* the connection waits to be accepted                     *)
  ends,          (* the ends of the connection that are open                *)
  pipe,          (* the bytes on their way                                  *)
  took,          (* the number of bytes the kernel has taken                *)
  reported,      (* history: how many of them the source has been told of   *)
  got,           (* history: the bytes the sink has been given              *)
  torn           (* history: bytes received and thrown away                 *)

fdVars == <<open, fd_, closed_, alive, lost>>
netVars == <<listens, queued, ends, pipe, took>>
userVars == <<reported, got, torn>>

KernelInit(objects) ==
  /\ open = {} /\ fd_ = [o \in Obj |-> NoFd] /\ closed_ = [o \in Obj |-> FALSE]
  /\ alive = objects /\ lost = [bound |-> {}, fds |-> {}]
  /\ listens = FALSE /\ queued = FALSE /\ ends = {} /\ pipe = <<>> /\ took = 0
  /\ reported = 0 /\ got = <<>> /\ torn = FALSE

Free == (1 .. MaxFd) \ open
Lowest(S) == CHOOSE n \in S : \A m \in S : n <= m

(* socket(), accept(), open(): o gets the lowest free number. *)
Opened(o) ==
  /\ Free # {}
  /\ open' = open \union {Lowest(Free)}
  /\ fd_' = [fd_ EXCEPT ![o] = Lowest(Free)]

(* close(fd_), after which the other end of a connection sees its end. *)
Closed(o) ==
  /\ open' = open \ {fd_[o]}
  /\ fd_' = [fd_ EXCEPT ![o] = NoFd]
  /\ ends' = ends \ {o}
  /\ listens' = (listens /\ o \notin {"listener", "other"})
  /\ UNCHANGED <<queued, pipe, took>>

(* The object dest gets what src has, and src nothing. *)
Moved(src, dest) == [fd_ EXCEPT ![dest] = fd_[src], ![src] = NoFd]

-----------------------------------------------------------------------------
(* connect(): the connection waits in the listener's backlog. *)
Connects == listens /\ ~queued /\ ends = {} /\ took = 0

(* What send() and recv() may take: a part of what is asked for. *)
Sends(n) == 1 .. n
Receives(n) == 1 .. IF n < Len(pipe) THEN n ELSE Len(pipe)
AtEnd == pipe = <<>> /\ "source" \notin ends

Sent(n) == /\ pipe' = IF "sink" \in ends \/ queued
                      THEN pipe \o [i \in 1 .. n |-> took + i] ELSE pipe
           /\ took' = took + n
           /\ UNCHANGED <<listens, queued, ends>>

Received(n) == /\ pipe' = SubSeq(pipe, n + 1, Len(pipe))
               /\ UNCHANGED <<listens, queued, ends, took>>

-----------------------------------------------------------------------------
(* The descriptors of `pending` are in the kernel's hands.  What is open    *)
(* and neither owned nor in `lost` is a leak nobody has accounted for.      *)
Owned(pending) ==
  /\ \A o \in Obj : fd_[o] # NoFd => fd_[o] \in open
  /\ \A o, p \in Obj : o # p /\ fd_[o] # NoFd => fd_[o] # fd_[p]
  /\ open = ({fd_[o] : o \in alive} \ {NoFd}) \union pending \union lost.fds

(***************************************************************************)
(* The sink is given the bytes that were sent, in order and none twice,    *)
(* and none is missing unless a RecvExact() failed in the middle.          *)
(***************************************************************************)
BytesInOrder ==
  /\ \A i, j \in DOMAIN got : i < j => got[i] < got[j]
  /\ ~torn => \A i \in DOMAIN got : got[i] = i
  /\ reported <= took

=============================================================================
