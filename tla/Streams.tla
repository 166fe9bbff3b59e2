------------------------------- MODULE Streams -------------------------------
(***************************************************************************)
(* Everything that moves bytes or owns a handle of the system: the HTTP    *)
(* server over libuv's streams, the blocking streams, the streams and      *)
(* files of io_uring, and the periodic timer.  A behaviour is about one.   *)
(***************************************************************************)
EXTENDS HttpServer, UringStreams, SyncTcp, PeriodicTimer

VARIABLE about

kernelVars == <<fdVars, netVars, userVars>>
allVars == <<about, httpVars, kernelVars, uringVars, syncVars, timerVars>>

-----------------------------------------------------------------------------
(* The requests: text in pieces as small as the cutting can make a          *)
(* difference; a header that is repeated, its value cut or whole, one that  *)
(* closes the connection, an unknown method, a URL over the limit, and a    *)
(* message that llhttp refuses.                                             *)
Piece(t, x) == [t |-> t, v |-> <<x>>]
Line(method, version) ==
  <<Piece("method", method), Piece("url", "a"), Piece("url", "?"), Piece("version", version)>>
Field(f) == Piece("field", f)
Value(x) == Piece("value", x)
Finish == <<Piece("end", "")>>

SomeRequests ==
  {Line("POST", 10) \o <<Field("X"), Value("1"), Field("X"), Value("2"), Value("3")>> \o Finish,
   Line("POST", 11) \o <<Field("X"), Value("1"), Field("X"), Value("2")>> \o Finish,
   Line("GET", 11) \o <<Field("Connection"), Value("close"), Piece("body", "b")>> \o Finish,
   Line("TRACE", 10) \o Finish,
   Line("GET", 11) \o <<Field("X"), Value("1"), Field("Y"), Value("2")>>,
   Line("GET", 11) \o <<Piece("body", "b"), Piece("body", "b")>>,
   <<Piece("method", "GET"), Piece("url", "a"), Piece("url", "b"), Piece("url", "c")>>,
   <<Piece("method", "GET"), Piece("bad", "")>>}

OneRequest == {Line("PUT", 10) \o Finish}

-----------------------------------------------------------------------------
Init ==
  /\ \/ /\ about = "http"
        /\ clients \in {{c} : c \in {CHOOSE c \in Conn : TRUE}} \union {Conn}
        /\ handler_ \in {TRUE, ~Alone}
        /\ KernelInit({}) /\ uses = {} /\ on_executor = TRUE
     \/ /\ about = "timer" /\ clients = {} /\ handler_ = TRUE
        /\ KernelInit({}) /\ uses = {} /\ on_executor = TRUE
     \/ /\ about = "sync" /\ clients = {} /\ handler_ = TRUE
        /\ KernelInit({"listener", "other", "source"})
        /\ uses = {} /\ on_executor = TRUE
     \/ /\ about = "uring" /\ clients = {} /\ handler_ = TRUE
        /\ KernelInit({"listener", "source"})
        /\ uses \in {{"listener", "source", "sink"}, {"file", "other"}}
        /\ on_executor \in BOOLEAN
  /\ HttpState /\ NoUring /\ NoSync /\ PeriodicInit
  /\ size = 0 /\ read = <<>>

HttpProgram ==
  /\ about = "http" /\ HttpNext
  /\ UNCHANGED <<about, kernelVars, uringVars, syncVars, timerVars>>

SyncProgram ==
  /\ about = "sync" /\ SyncNext
  /\ UNCHANGED <<about, httpVars, uringVars, timerVars>>

UringProgram ==
  /\ about = "uring" /\ UringNext
  /\ UNCHANGED <<about, httpVars, syncVars, timerVars>>

TimerProgram ==
  /\ about = "timer" /\ PeriodicNext
  /\ UNCHANGED <<about, httpVars, kernelVars, uringVars, syncVars>>

Next == HttpProgram \/ SyncProgram \/ UringProgram \/ TimerProgram

(* A coroutine that has the loop's thread at last gives it up; libuv calls  *)
(* back as long as there is something to call back for, and what was        *)
(* spawned is started.                                                      *)
Fairness ==
  /\ []<>(on = Loop)
  /\ WF_httpVars(about = "http" /\ RunStart)
  /\ WF_httpVars(about = "http" /\ UvCallback)
  /\ \A c \in Conn : WF_httpVars(about = "http" /\ HStart(c))

Spec == Init /\ [][Next]_allVars
FairSpec == Spec /\ Fairness

(***************************************************************************)
(* libuv calls back only into a stream or a timer that is there and for a  *)
(* coroutine that waits, and whatever is destroyed has had its handle      *)
(* closed, once (the closed_ tests of TcpStream::Close() and its           *)
(* destructor; ~PeriodicTimer()).  Tcp and PeriodicTimer say it in parts,  *)
(* with the exceptions the code has.                                       *)
(***************************************************************************)
HandlesReleased == StreamsReleased /\ TimerReleased

(***************************************************************************)
(* The blocking and the io_uring streams give the bytes that were sent, in *)
(* order, and report those that were really moved, whatever the kernel     *)
(* splits, interrupts or refuses: SendAll(), RecvExact(), Write(),         *)
(* ReadAll() and ReadProvided() with its buffers.                          *)
(***************************************************************************)
TransfersTruthful == BytesInOrder /\ UringTruthful

=============================================================================
