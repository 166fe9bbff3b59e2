---------------------------- MODULE UringStreams ----------------------------
(***************************************************************************)
(* IoUringTcpListener and IoUringTcpStream (io/iouring_tcp.cpp) and File   *)
(* (io/iouring_file.cpp).  One coroutine uses each object; somebody else   *)
(* on the same thread may Close() a stream while that coroutine waits.     *)
(***************************************************************************)
EXTENDS UringOps

VARIABLES
  uses,          (* the objects of this behaviour: a connection's or files  *)
  size,          (* of the file, whose i-th byte is i                       *)
  read           (* history: what ReadAll() returned last                   *)

fileVars == <<size, read>>
uringVars == <<uses, job, ringVars, fileVars>>

Ready(o) == o \in alive \intersect uses /\ job[o] = NoJob

(* The call of o has its result, and returns, or awaits something again.    *)
At_(o, call) == job[o].call = call /\ job[o].res # None_
Return(o) == job' = [job EXCEPT ![o] = NoJob]
Call(call, len) == [NoJob EXCEPT !.call = call, !.len = len]

-----------------------------------------------------------------------------
(* IoUringTcpListener.  Bind() closes the socket it opened on every error.  *)
UBind(ok) ==
  /\ Ready("listener") /\ Free # {}
  /\ IF ok /\ fd_["listener"] = NoFd THEN Opened("listener") ELSE UNCHANGED <<open, fd_>>
  /\ UNCHANGED <<closed_, alive, lost, netVars, userVars, uringVars>>

UListen ==
  /\ Ready("listener") /\ fd_["listener"] # NoFd
  /\ listens' = TRUE
  /\ UNCHANGED <<fdVars, queued, ends, pipe, took, userVars, uringVars>>

UAccept ==
  /\ Ready("listener") /\ listens /\ "sink" \notin alive
  /\ IoUringAccept("listener", Call("Accept", 0))
  /\ UNCHANGED <<fdVars, netVars, userVars, uses, fileVars>>

(* InitFromFd() of a new stream, or no stream. *)
UAccepted ==
  /\ At_("listener", "Accept") /\ Return("listener")
  /\ IF job["listener"].res = Error THEN UNCHANGED <<fd_, closed_, alive>>
     ELSE /\ fd_' = [fd_ EXCEPT !["sink"] = job["listener"].res]
          /\ closed_' = [closed_ EXCEPT !["sink"] = FALSE]
          /\ alive' = alive \union {"sink"}
  /\ UNCHANGED <<open, lost, netVars, userVars, uses, ringVars, fileVars>>

(* Every destructor closes what is not closed; a stream whose reader has    *)
(* seen the end is closed_ with its descriptor open.                        *)
UDestroy(o) ==
  /\ Ready(o)
  /\ alive' = alive \ {o}
  /\ IF fd_[o] # NoFd /\ ~closed_[o] THEN Closed(o) /\ UNCHANGED lost
     ELSE /\ lost' = [bound |-> lost.bound \ {o},
                      fds |-> lost.fds \union ({fd_[p] : p \in {o} \intersect lost.bound} \ {NoFd})]
          /\ fd_' = [fd_ EXCEPT ![o] = NoFd] /\ UNCHANGED <<open, netVars>>
  /\ UNCHANGED <<closed_, userVars, uringVars>>

-----------------------------------------------------------------------------
(* IoUringTcpStream *)
(* The stream o is closed_ with its descriptor open. *)
Bound(o, b) == IF b THEN [lost EXCEPT !.bound = @ \union {o}] ELSE lost

Bug_UClose(o) ==  (* fd_ keeps its value *)
  /\ o \in alive \intersect uses
  /\ IF fd_[o] # NoFd /\ ~closed_[o]
     THEN /\ open' = open \ {fd_[o]} /\ ends' = ends \ {o}
          /\ closed_' = [closed_ EXCEPT ![o] = TRUE]
     ELSE UNCHANGED <<open, ends, closed_>>
  /\ UNCHANGED <<fd_, alive, lost, listens, queued, pipe, took, userVars, uringVars>>

UClose(o) ==
  /\ o \in alive \intersect uses
  /\ IF fd_[o] # NoFd /\ ~closed_[o]
     THEN Closed(o) /\ closed_' = [closed_ EXCEPT ![o] = TRUE]
     ELSE UNCHANGED <<open, fd_, netVars, closed_>>
  /\ UNCHANGED <<alive, lost, userVars, uringVars>>

(* Connect() after Close() leaves closed_ set. *)
UConnect ==
  /\ Ready("source") /\ fd_["source"] = NoFd
  /\ \/ /\ Opened("source") /\ IoUringConnect("source", Call("Connect", 0))
        /\ lost' = Bound("source", closed_["source"])
     \/ UNCHANGED <<open, fd_, job, ringVars, lost>>     (* -EINVAL *)
  /\ UNCHANGED <<closed_, alive, netVars, userVars, uses, fileVars>>

(* A failure closes whatever fd_ is by then. *)
UConnected ==
  /\ At_("source", "Connect") /\ Return("source")
  /\ IF job["source"].res = Error /\ fd_["source"] # NoFd THEN Closed("source")
     ELSE UNCHANGED <<open, fd_, netVars>>
  /\ UNCHANGED <<closed_, alive, lost, userVars, uses, ringVars, fileVars>>

IsOpen_(o) == fd_[o] # NoFd /\ ~closed_[o]

URead(len) ==
  /\ Ready("sink") /\ IsOpen_("sink")
  /\ IoUringRecv("sink", Call("Read", len))
  /\ UNCHANGED <<fdVars, netVars, userVars, uses, fileVars>>

UReadDone ==
  LET j == job["sink"] IN
  /\ At_("sink", "Read") /\ Return("sink")
  /\ got' = got \o j.data
  /\ closed_' = [closed_ EXCEPT !["sink"] = @ \/ j.res = 0]
  /\ lost' = Bound("sink", j.res = 0 /\ fd_["sink"] # NoFd)
  /\ UNCHANGED <<open, fd_, alive, netVars, reported, torn, uses, ringVars, fileVars>>

UReadProvided ==
  /\ Ready("sink") /\ IsOpen_("sink")
  /\ IoUringRecvProvided("sink", Call("ReadProvided", 0))
  /\ UNCHANGED <<fdVars, netVars, userVars, uses, fileVars>>

(* The bytes are copied and the buffer is given back. *)
UReadProvidedDone ==
  LET j == job["sink"] IN
  /\ At_("sink", "ReadProvided") /\ Return("sink")
  /\ \/ /\ j.res = 0
        /\ closed_' = [closed_ EXCEPT !["sink"] = TRUE]
        /\ UNCHANGED <<got, ring>>
     \/ j.res = Error /\ UNCHANGED <<closed_, got, ring>>
     \/ /\ j.res > 0 /\ j.buf = {} /\ ~IsOpen_("sink")
        /\ UNCHANGED <<closed_, got, ring>>
     \/ \E b \in j.buf :
          got' = got \o filled[b] /\ ReturnBuffer(b) /\ UNCHANGED closed_
  /\ lost' = Bound("sink", j.res = 0 /\ fd_["sink"] # NoFd)
  /\ UNCHANGED <<open, fd_, alive, netVars, reported, torn, uses,
                 on_executor, sq, submitted, filled, fileVars>>

(* A completion with no buffer: the rest is a Read(). *)
UReadInstead ==
  /\ At_("sink", "ReadProvided") /\ job["sink"].res > 0 /\ job["sink"].buf = {}
  /\ IsOpen_("sink") /\ IoUringRecv("sink", Call("Read", 2))
  /\ UNCHANGED <<fdVars, netVars, userVars, uses, fileVars>>

UWrite(len) ==
  /\ Ready("source") /\ IsOpen_("source") /\ took + len <= MaxBytes
  /\ IoUringSend("source", Call("Write", len))
  /\ UNCHANGED <<fdVars, netVars, userVars, uses, fileVars>>

Bug_USent ==  (* an error hides the bytes sent before it *)
  LET j == job["source"]
      total == j.total + j.res
  IN /\ At_("source", "Write")
     /\ \/ /\ j.res = Error
           /\ Return("source") /\ UNCHANGED <<ringVars, reported>>
        \/ /\ j.res > 0 /\ total < j.len
           /\ IoUringSend("source", [j EXCEPT !.total = total]) /\ UNCHANGED reported
        \/ /\ j.res > 0 /\ total = j.len
           /\ Return("source") /\ reported' = reported + total /\ UNCHANGED ringVars
     /\ UNCHANGED <<fdVars, netVars, got, torn, uses, fileVars>>

(* The loop of Write(): on an error it returns the bytes sent, if any.      *)
USent ==
  LET j == job["source"]
      total == j.total + j.res
  IN /\ At_("source", "Write")
     /\ \/ /\ j.res = Error
           /\ Return("source") /\ reported' = reported + j.total /\ UNCHANGED ringVars
        \/ /\ j.res > 0 /\ total < j.len
           /\ IoUringSend("source", [j EXCEPT !.total = total]) /\ UNCHANGED reported
        \/ /\ j.res > 0 /\ total = j.len
           /\ Return("source") /\ reported' = reported + total /\ UNCHANGED ringVars
     /\ UNCHANGED <<fdVars, netVars, got, torn, uses, fileVars>>

-----------------------------------------------------------------------------
(* File.  The "other" is a File that files are moved to and from.           *)
FOpen(o) ==
  /\ o \in uses \ alive /\ job[o] = NoJob /\ o \in {"file", "other"}
  /\ IoUringOpenAt(o, Call("Open", 0))
  /\ UNCHANGED <<fdVars, netVars, userVars, uses, fileVars>>

FOpened(o) ==
  /\ At_(o, "Open") /\ Return(o)
  /\ IF job[o].res = Error THEN UNCHANGED <<fd_, alive>>
     ELSE fd_' = [fd_ EXCEPT ![o] = job[o].res] /\ alive' = alive \union {o}
  /\ UNCHANGED <<open, closed_, lost, netVars, userVars, uses, ringVars, fileVars>>

(* Move assignment; the descriptor it replaces is closed. *)
FMove(src, dest) ==
  /\ Ready(src) /\ Ready(dest) /\ src # dest
  /\ open' = open \ {fd_[dest]} /\ fd_' = Moved(src, dest)
  /\ UNCHANGED <<closed_, alive, lost, netVars, userVars, uringVars>>

(* Move construction: dest is new. *)
FMoveNew(src, dest) ==
  /\ Ready(src) /\ dest \in uses \ alive /\ job[dest] = NoJob /\ dest # src
  /\ fd_' = Moved(src, dest) /\ alive' = alive \union {dest}
  /\ UNCHANGED <<open, closed_, lost, netVars, userVars, uringVars>>

(* Close() forgets the descriptor first: if the entry cannot be submitted,  *)
(* nobody closes it any more.                                               *)
FClose(o) ==
  /\ Ready(o) /\ fd_[o] # NoFd
  /\ fd_' = [fd_ EXCEPT ![o] = NoFd]
  /\ IoUringClose(o, fd_[o], Call("Close", 0))
  /\ lost' = IF job'[o].res = Error THEN [lost EXCEPT !.fds = @ \union {fd_[o]}] ELSE lost
  /\ UNCHANGED <<open, closed_, alive, netVars, userVars, uses, fileVars>>

(* ReadAt, WriteAt and Fsync, and the calls that take a path.               *)
FReadAt(o) == fd_[o] # NoFd /\ IoUringReadFile(o, Call("ReadAt", 1))
FWriteAt(o) == fd_[o] # NoFd /\ IoUringWriteFile(o, Call("WriteAt", 1))
FFsync(o) == fd_[o] # NoFd /\ IoUringFsync(o, Call("Fsync", 0))
FUnlink(o) == IoUringUnlinkAt(o, Call("Unlink", 0))
FMkdir(o) == IoUringMkdirAt(o, Call("Mkdir", 0))
FStat(o) == IoUringStatx(o, Call("Stat", 0))

FSimple(o) ==
  /\ Ready(o) /\ o \in {"file", "other"}
  /\ FReadAt(o) \/ FWriteAt(o) \/ FFsync(o) \/ FUnlink(o) \/ FMkdir(o) \/ FStat(o)
  /\ UNCHANGED <<fdVars, netVars, userVars, uses, fileVars>>

FSimpleDone(o) ==
  /\ \E call \in {"ReadAt", "WriteAt", "Fsync", "Unlink", "Mkdir", "Stat", "Close"} : At_(o, call)
  /\ Return(o)
  /\ UNCHANGED <<fdVars, netVars, userVars, uses, ringVars, fileVars>>

(* WriteAll(): n bytes from offset 0, in as many writes as it takes.  Any   *)
(* error is an error of the whole.                                          *)
FWriteAll(o) ==
  /\ Ready(o) /\ fd_[o] # NoFd /\ size = 0
  /\ IoUringWriteFile(o, Call("WriteAll", MaxBytes))
  /\ UNCHANGED <<fdVars, netVars, userVars, uses, fileVars>>

FWritten(o) ==
  LET j == job[o]
      total == j.total + j.res
  IN /\ At_(o, "WriteAll")
     /\ \/ j.res <= 0 /\ Return(o) /\ UNCHANGED ringVars
        \/ j.res > 0 /\ total < j.len /\ IoUringWriteFile(o, [j EXCEPT !.total = total])
        \/ j.res > 0 /\ total = j.len /\ Return(o) /\ UNCHANGED ringVars
     /\ UNCHANGED <<fdVars, netVars, userVars, uses, fileVars>>

(* ReadAll(): the size, then reads at growing offsets up to it, or to an    *)
(* end that comes early.                                                    *)
FReadAll(o) ==
  /\ Ready(o) /\ fd_[o] # NoFd
  /\ IoUringStatx(o, Call("ReadAll", 0))
  /\ UNCHANGED <<fdVars, netVars, userVars, uses, fileVars>>

FReadMore(o) ==
  LET j == job[o]
      total == j.total + j.res
  IN /\ At_(o, "ReadAll")
     /\ \/ j.res = Error /\ Return(o) /\ UNCHANGED <<ringVars, read>>
        \/ /\ j.res >= 0 /\ j.len = 0 /\ j.res > 0      (* the size is known *)
           /\ IoUringReadFile(o, [j EXCEPT !.len = j.res]) /\ UNCHANGED read
        \/ /\ j.len > 0 /\ j.res > 0 /\ total < j.len
           /\ IoUringReadFile(o, [j EXCEPT !.total = total]) /\ UNCHANGED read
        \/ /\ j.res >= 0 /\ \/ j.len = 0 /\ j.res = 0
                            \/ j.len > 0 /\ (j.res = 0 \/ total = j.len)
           /\ read' = j.data /\ Return(o) /\ UNCHANGED ringVars
     /\ UNCHANGED <<fdVars, netVars, userVars, uses, size>>

(* Reads and writes of the file may be short. *)
KernelFile(o) ==
  LET at == job[o].total IN
  /\ \/ /\ Complete(o, "write") /\ UNCHANGED read
        /\ \E n \in 1 .. job[o].len - at :
             /\ Result(o, n)
             /\ size' = IF at + n > size THEN at + n ELSE size
     \/ Complete(o, "statx") /\ Result(o, size) /\ UNCHANGED fileVars
     \/ /\ Complete(o, "read") /\ UNCHANGED fileVars
        /\ \E n \in 0 .. job[o].len - at :
             /\ n <= size - at \/ n = 0
             /\ n = 0 => at >= size
             /\ job' = [job EXCEPT ![o].io = "", ![o].res = n,
                         ![o].data = @ \o [i \in 1 .. n |-> at + i]]
  /\ UNCHANGED <<fdVars, netVars, ring, filled>>

(* Somebody else truncates the file, while nobody writes. *)
Truncate ==
  /\ "file" \in uses /\ size > 0
  /\ \A o \in Obj : job[o].call \notin {"WriteAll", "WriteAt"}
  /\ size' = size - 1
  /\ UNCHANGED <<fdVars, netVars, userVars, uses, job, ringVars, read>>

-----------------------------------------------------------------------------
Kernel(o) ==
  \/ /\ \/ KernelFails(o) \/ KernelAccept(o) \/ KernelConnect(o) \/ KernelSend(o)
        \/ KernelRecv(o) \/ KernelRecvProvided(o) \/ KernelOpen(o)
        \/ KernelClose(o) \/ KernelDone(o)
     /\ UNCHANGED fileVars
  \/ KernelFile(o)

UringNext ==
  \/ \E ok \in BOOLEAN : UBind(ok)
  \/ UListen \/ UAccept \/ UAccepted \/ UConnect \/ UConnected
  \/ \E n \in 1 .. 2 : URead(n) \/ UWrite(n)
  \/ UReadDone \/ UReadProvided \/ UReadProvidedDone \/ UReadInstead \/ USent
  \/ \E o \in {"source", "sink"} : UClose(o)
  \/ \E o \in Obj : UDestroy(o) \/ (Kernel(o) /\ UNCHANGED uses)
  \/ \E o \in {"file", "other"} :
       \/ FOpen(o) \/ FOpened(o) \/ FClose(o) \/ FSimple(o) \/ FSimpleDone(o)
       \/ FWriteAll(o) \/ FWritten(o) \/ FReadAll(o) \/ FReadMore(o)
       \/ \E p \in {"file", "other"} : FMove(o, p) \/ FMoveNew(o, p)
  \/ Truncate
  \/ LoopSubmits /\ UNCHANGED <<uses, fileVars>>

-----------------------------------------------------------------------------
(***************************************************************************)
(* Every open descriptor has one owner: an object, a completion that is to *)
(* make an object of it, or a close under way; an owned descriptor is      *)
(* open; and none is ever closed by two.  One is left open for ever only   *)
(* by a stream that has seen the end or was connected again after Close(), *)
(* when closed_ keeps the destructor from closing, or by a Close() of a    *)
(* file that could not be submitted.                                       *)
(***************************************************************************)
DescriptorsOwned ==
  Owned({job[o].res : o \in {p \in Obj : job[p].call \in {"Accept", "Open"} /\ job[p].res > 0}}
          \union {job[o].fd : o \in {p \in Obj : job[p].io = "close"}})

(***************************************************************************)
(* Write() and ReadAll() tell the truth after short and failed writes and  *)
(* reads, and every provided buffer is with the kernel or with the one     *)
(* completion it was picked for.                                           *)
(***************************************************************************)
UringTruthful ==
  /\ Ready("source") => reported = took
  /\ \A i \in DOMAIN read : read[i] = i
  /\ ring \union Held = Buffer /\ ring \intersect Held = {}

=============================================================================
