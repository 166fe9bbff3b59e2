------------------------------- MODULE SyncTcp -------------------------------
(***************************************************************************)
(* SyncTcpListener and SyncTcpStream (io/sync_tcp.cpp): blocking calls on  *)
(* threads of their own.  A call that loops takes a step for each send()   *)
(* or recv().                                                              *)
(***************************************************************************)
EXTENDS Descriptors

VARIABLES
  want,          (* the argument of the SendAll() or RecvExact() that each  *)
                 (* object is in, or 0                                      *)
  had            (* what it has sent, or received                           *)

syncVars == <<want, had>>

NoSync == want = [o \in Obj |-> 0] /\ had = [o \in Obj |-> <<>>]

Idle(o) == o \in alive /\ want[o] = 0

(* The call of o goes on with `all`, or returns. *)
GoesOn(o, all) == had' = [had EXCEPT ![o] = all] /\ UNCHANGED want
Returns(o) == had' = [had EXCEPT ![o] = <<>>] /\ want' = [want EXCEPT ![o] = 0]

(* Listen(): every error path closes the socket; only a listener that       *)
(* listens gets it.                                                         *)
SyncListen(ok) ==
  /\ Idle("listener") /\ fd_["listener"] = NoFd /\ Free # {}
  /\ \/ ok /\ Opened("listener") /\ listens' = TRUE
     \/ ~ok /\ UNCHANGED <<open, fd_, listens>>
  /\ UNCHANGED <<closed_, alive, lost, queued, ends, pipe, took, userVars, syncVars>>

(* Connect(): likewise. *)
SyncConnect(ok) ==
  /\ Idle("source") /\ fd_["source"] = NoFd /\ Free # {} /\ (ok => Connects)
  /\ \/ /\ ok /\ Opened("source")
        /\ queued' = TRUE /\ ends' = {"source"}
     \/ ~ok /\ UNCHANGED <<open, fd_, queued, ends>>
  /\ UNCHANGED <<closed_, alive, lost, listens, pipe, took, userVars, syncVars>>

SyncAccept ==
  /\ Idle("listener") /\ fd_["listener"] # NoFd /\ queued
  /\ "sink" \notin alive
  /\ Opened("sink") /\ alive' = alive \union {"sink"}
  /\ queued' = FALSE /\ ends' = ends \union {"sink"}
  /\ UNCHANGED <<closed_, lost, listens, pipe, took, userVars, syncVars>>

Send(n) ==
  /\ Idle("source") /\ "source" \in ends /\ took + n <= MaxBytes
  /\ Sent(n) /\ reported' = reported + n
  /\ UNCHANGED <<fdVars, got, torn, syncVars>>

SendAll(n) ==
  /\ Idle("source") /\ "source" \in ends /\ took + n <= MaxBytes
  /\ want' = [want EXCEPT !["source"] = n]
  /\ UNCHANGED <<had, fdVars, netVars, userVars>>

(* One send() of SendAll(): it returns Ok when everything is sent, or an    *)
(* error, which does not tell how much was.                                 *)
SendSome ==
  LET left == want["source"] - Len(had["source"]) IN
  /\ want["source"] > 0
  /\ \/ \E n \in Sends(left) :
          /\ Sent(n)
          /\ \/ n < left /\ UNCHANGED reported
                /\ GoesOn("source", had["source"] \o [i \in 1 .. n |-> took + i])
             \/ n = left /\ reported' = reported + want["source"] /\ Returns("source")
     \/ Returns("source") /\ UNCHANGED <<netVars, reported>>
  /\ UNCHANGED <<fdVars, got, torn>>

Recv(n) ==
  /\ Idle("sink") /\ "sink" \in ends
  /\ \/ \E k \in Receives(n) : Received(k) /\ got' = got \o SubSeq(pipe, 1, k)
     \/ AtEnd /\ UNCHANGED <<netVars, got>>
  /\ UNCHANGED <<fdVars, reported, torn, syncVars>>

RecvExact(n) ==
  /\ Idle("sink") /\ "sink" \in ends
  /\ want' = [want EXCEPT !["sink"] = n]
  /\ UNCHANGED <<had, fdVars, netVars, userVars>>

(* One recv() of RecvExact().  An error, or the end of the stream, loses    *)
(* what this call has received.                                             *)
RecvSome ==
  LET left == want["sink"] - Len(had["sink"]) IN
  /\ want["sink"] > 0
  /\ \/ \E n \in Receives(left) :
          LET all == had["sink"] \o SubSeq(pipe, 1, n) IN
          /\ Received(n)
          /\ \/ n < left /\ GoesOn("sink", all) /\ UNCHANGED <<got, torn>>
             \/ n = left /\ Returns("sink") /\ got' = got \o all /\ UNCHANGED torn
     \/ /\ Returns("sink")
        /\ torn' = (torn \/ had["sink"] # <<>>)
        /\ UNCHANGED <<netVars, got>>
  /\ UNCHANGED <<fdVars, reported>>

(* Close(), of a stream; it may be repeated. *)
SyncClose(o) ==
  /\ Idle(o)
  /\ IF fd_[o] = NoFd THEN UNCHANGED <<open, fd_, netVars>> ELSE Closed(o)
  /\ UNCHANGED <<closed_, alive, lost, userVars, syncVars>>

(* Move assignment, of a stream or of a listener.  Nothing more is sent to  *)
(* a stream that has moved.                                                 *)
SyncMove(src, dest) ==
  /\ Idle(src) /\ Idle(dest)
  /\ \/ src = dest /\ UNCHANGED <<open, fd_, netVars>>
     \/ /\ src # dest
        /\ open' = open \ {fd_[dest]} /\ fd_' = Moved(src, dest)
        /\ ends' = ends \ {src, dest}
        /\ listens' = (listens /\ (dest \in {"source", "sink"} \/ fd_[dest] = NoFd))
        /\ UNCHANGED <<queued, pipe, took>>
  /\ UNCHANGED <<closed_, alive, lost, userVars, syncVars>>

(* The destructors. *)
SyncDestroy(o) ==
  /\ Idle(o)
  /\ alive' = alive \ {o}
  /\ IF fd_[o] = NoFd THEN UNCHANGED <<open, fd_, netVars>> ELSE Closed(o)
  /\ UNCHANGED <<closed_, lost, userVars, syncVars>>

SyncNext ==
  \/ \E ok \in BOOLEAN : SyncListen(ok) \/ SyncConnect(ok)
  \/ SyncAccept \/ SendSome \/ RecvSome
  \/ \E n \in 1 .. 2 : Send(n) \/ SendAll(n) \/ Recv(n) \/ RecvExact(n)
  \/ \E o \in {"source", "sink"} : SyncClose(o)
  \/ \E o \in {"listener", "other", "source", "sink"} : SyncDestroy(o)
  \/ \E o, p \in {"source", "sink"} : SyncMove(o, p)
  \/ \E o, p \in {"listener", "other"} : SyncMove(o, p)

=============================================================================
