--------------------------------- MODULE Tcp ---------------------------------
(***************************************************************************)
(* TcpListener and TcpStream over libuv (io/tcp.cpp).  Everything happens  *)
(* on the loop's thread: libuv calls back while no coroutine runs, and a   *)
(* callback resumes the coroutine that waits, which then has the thread    *)
(* until it suspends.  A connection has two ends, each a TcpStream used by *)
(* one coroutine.                                                          *)
(***************************************************************************)
EXTENDS Integers, Sequences

CONSTANTS
  Conn,          (* the connections                                         *)
  MaxFaults      (* bound on the calls of libuv that fail                   *)

End == Conn \X {"client", "server"}
Peer(e) == <<e[1], IF e[2] = "client" THEN "server" ELSE "client">>
Loop == <<"loop", "">>                 (* no coroutine has the thread       *)
Acceptor == <<"acceptor", "">>         (* the coroutine that accepts        *)

VARIABLES
  stream,        (* the members of the TcpStream of each end                *)
  handle,        (* its uv_tcp_t: "none" before it is allocated, "raw"      *)
                 (* before uv_tcp_init, "open", "closing", "freed"          *)
  uv_reading,    (* libuv reads from it                                     *)
  uv_writing,    (* the data of the uv_write under way                      *)
  wire,          (* the data sent to each end and not read                  *)
  backlog,       (* connections made and not accepted                       *)
  pending_connections_, accept_waiter_,
  listening,     (* the listener's handle: "raw", "open" or "closing"       *)
  on,            (* the coroutine that has the thread, or Loop              *)
  faults         (* calls of libuv that have failed                         *)

tcpVars == <<stream, handle, uv_reading, uv_writing, wire, backlog,
             pending_connections_, accept_waiter_, listening, on, faults>>

TcpStream ==
  [alive |-> TRUE, initialized_ |-> FALSE, closed_ |-> FALSE,
   reading_ |-> FALSE, read_buffer_ |-> <<>>, read_waiter_ |-> FALSE,
   connect_waiter_ |-> FALSE, connect_result_ |-> 0,
   connecting |-> FALSE,               (* a uv_connect_t is under way       *)
   eof |-> FALSE,                      (* history: a read has failed        *)
   unsent |-> FALSE,                   (* history: uv_write has failed      *)
   unread |-> FALSE]                   (* history: uv_read_start has failed *)

TcpInit ==
  /\ stream = [e \in End |-> [TcpStream EXCEPT !.alive = e[2] = "client"]]
  /\ handle = [e \in End |-> IF e[2] = "client" THEN "raw" ELSE "none"]
  /\ uv_reading = [e \in End |-> FALSE]
  /\ uv_writing = [e \in End |-> <<>>]
  /\ wire = [e \in End |-> <<>>]
  /\ backlog = <<>> /\ pending_connections_ = <<>>
  /\ accept_waiter_ = FALSE /\ listening = "raw" /\ on = Loop
  /\ faults = 0

Fault(failed) ==
  /\ failed => faults < MaxFaults
  /\ faults' = IF failed THEN faults + 1 ELSE faults

IsOpen(e) == ~stream[e].closed_

(* What the end of e's peer sees as the end of the stream. *)
Gone(e) ==
  \/ handle[e] \in {"closing", "freed"}
  \/ handle[e] = "none" /\ listening = "closing"

-----------------------------------------------------------------------------
(* TcpListener *)
Bind(result) ==
  /\ on = Acceptor /\ listening = "raw"
  /\ listening' = IF result = 0 THEN "open" ELSE listening
  /\ Fault(result # 0)
  /\ UNCHANGED <<stream, handle, uv_reading, uv_writing, wire, backlog,
                 pending_connections_, accept_waiter_, on>>

(* OnConnection, InitFromAccept and the resumption of Accept(): a           *)
(* connection whose uv_accept fails is queued too, as a closed stream.      *)
OnConnection(ok) ==
  LET e == <<Head(backlog), "server">> IN
  /\ on = Loop /\ listening = "open" /\ backlog # <<>>
  /\ backlog' = Tail(backlog)
  /\ stream' = [stream EXCEPT ![e] =
                  [TcpStream EXCEPT !.initialized_ = ok, !.closed_ = ~ok]]
  /\ handle' = [handle EXCEPT ![e] = IF ok THEN "open" ELSE "closing"]
  /\ pending_connections_' = Append(pending_connections_, e[1])
  /\ accept_waiter_' = FALSE
  /\ on' = IF accept_waiter_ THEN Acceptor ELSE Loop
  /\ Fault(~ok)
  /\ UNCHANGED <<uv_reading, uv_writing, wire, listening>>

AcceptSuspend ==
  /\ on = Acceptor /\ pending_connections_ = <<>>
  /\ accept_waiter_' = TRUE /\ on' = Loop
  /\ UNCHANGED <<stream, handle, uv_reading, uv_writing, wire, backlog,
                 pending_connections_, listening, faults>>

(* await_resume; the stream passes to the coroutine of its end.             *)
AcceptResume ==
  /\ on = Acceptor /\ pending_connections_ # <<>>
  /\ pending_connections_' = Tail(pending_connections_)
  /\ UNCHANGED <<stream, handle, uv_reading, uv_writing, wire, backlog,
                 accept_waiter_, listening, on, faults>>

-----------------------------------------------------------------------------
(* TcpStream: the destructor and Close() *)

(* What uv_close does to the handles of the ends es, and what is left of    *)
(* the data on its way to them.                                             *)
Closing(es) ==
  /\ handle' = [e \in End |-> IF e \in es THEN "closing" ELSE handle[e]]
  /\ uv_reading' = [e \in End |-> e \notin es /\ uv_reading[e]]
  /\ wire' = [e \in End |-> IF e \in es THEN <<>> ELSE wire[e]]

Bug_CloseUnguarded(e) ==  (* Close() does not test closed_ *)
  /\ on = e
  /\ stream' = [stream EXCEPT ![e].closed_ = FALSE, ![e].reading_ = FALSE]
  /\ Closing({e})
  /\ UNCHANGED <<uv_writing, backlog, pending_connections_, accept_waiter_,
                 listening, on, faults>>

Close(e) ==
  /\ on = e
  /\ IF stream[e].closed_ THEN UNCHANGED <<stream, handle, uv_reading, wire>>
     ELSE /\ stream' = [stream EXCEPT ![e].closed_ = TRUE, ![e].reading_ = FALSE]
          /\ Closing({e})
  /\ UNCHANGED <<uv_writing, backlog, pending_connections_, accept_waiter_,
                 listening, on, faults>>

(* The destructors of the streams es: a handle that was never initialised   *)
(* is deleted, another one closed, unless closed_ says that it is.          *)
Destroyed(es) ==
  LET closes == {e \in es : ~stream[e].closed_ /\ stream[e].initialized_}
      raw == {e \in es : ~stream[e].closed_ /\ ~stream[e].initialized_}
  IN /\ stream' = [e \in End |-> IF e \in es THEN
                     [stream[e] EXCEPT !.alive = FALSE, !.closed_ = TRUE] ELSE stream[e]]
     /\ handle' = [e \in End |-> IF e \in closes THEN "closing"
                                 ELSE IF e \in raw THEN "freed" ELSE handle[e]]
     /\ uv_reading' = [e \in End |-> e \notin closes /\ uv_reading[e]]
     /\ wire' = [e \in End |-> IF e \in closes THEN <<>> ELSE wire[e]]

(* The coroutine of e ends, and its stream with it. *)
DestroyStream(e) ==
  /\ on = e /\ Destroyed({e})
  /\ on' = Loop
  /\ UNCHANGED <<uv_writing, backlog, pending_connections_, accept_waiter_, listening, faults>>

(* The coroutine that accepts ends: ~TcpListener, with the streams that     *)
(* nobody has accepted.  The kernel closes the backlog.                     *)
DestroyListener ==
  /\ on = Acceptor
  /\ listening' = "closing" /\ on' = Loop
  /\ Destroyed({<<c, "server">> : c \in {pending_connections_[i] : i \in DOMAIN pending_connections_}})
  /\ pending_connections_' = <<>>
  /\ UNCHANGED <<uv_writing, backlog, accept_waiter_, faults>>

OnClose(e) ==
  /\ on = Loop /\ handle[e] = "closing"
  /\ handle' = [handle EXCEPT ![e] = "freed"]
  /\ UNCHANGED <<stream, uv_reading, uv_writing, wire, backlog,
                 pending_connections_, accept_waiter_, listening, on, faults>>

-----------------------------------------------------------------------------
(* Connect.  A bad address or an error of uv_tcp_connect does not suspend.  *)
ConnectSuspend(e, sync_error) ==
  /\ on = e /\ ~stream[e].initialized_
  /\ stream' = [stream EXCEPT ![e].initialized_ = TRUE, ![e].connect_waiter_ = TRUE,
                              ![e].connecting = ~sync_error]
  /\ handle' = [handle EXCEPT ![e] = "open"]
  /\ on' = IF sync_error THEN e ELSE Loop
  /\ Fault(sync_error)
  /\ UNCHANGED <<uv_reading, uv_writing, wire, backlog, pending_connections_,
                 accept_waiter_, listening>>

(* UV_EALREADY: the stream stays as it is. *)
ConnectAgain(e) ==
  /\ on = e /\ stream[e].initialized_
  /\ UNCHANGED tcpVars

OnConnect(e, status) ==
  /\ on = Loop /\ stream[e].connecting
  /\ status = 0 => listening = "open"
  /\ backlog' = IF status = 0 THEN Append(backlog, e[1]) ELSE backlog
  /\ stream' = [stream EXCEPT ![e].connect_result_ = status,
                              ![e].connect_waiter_ = FALSE, ![e].connecting = FALSE]
  /\ on' = e
  /\ Fault(status # 0 /\ listening = "open")
  /\ UNCHANGED <<handle, uv_reading, uv_writing, wire, pending_connections_,
                 accept_waiter_, listening>>

-----------------------------------------------------------------------------
(* Read *)
ReadReady(e) == stream[e].read_buffer_ # <<>>

(* Nobody looks at the result of uv_read_start: the coroutine suspends even *)
(* if nothing will resume it.                                               *)
ReadSuspend(e) ==
  /\ on = e /\ ~ReadReady(e)
  /\ \E error \in BOOLEAN :
       /\ stream' = [stream EXCEPT ![e].read_waiter_ = TRUE, ![e].reading_ = TRUE,
                                   ![e].unread = @ \/ error]
       /\ uv_reading' = [uv_reading EXCEPT ![e] = ~error]
       /\ Fault(error)
  /\ on' = Loop
  /\ UNCHANGED <<handle, uv_writing, wire, backlog, pending_connections_,
                 accept_waiter_, listening>>

(* await_resume, which returns the buffer. *)
ReadResume(e) ==
  /\ on = e
  /\ stream' = [stream EXCEPT ![e].reading_ = FALSE, ![e].read_buffer_ = <<>>]
  /\ uv_reading' = [uv_reading EXCEPT ![e] = FALSE]

(* The buffer after AllocBuffer and OnRead, and what is left on the wire:   *)
(* n pieces, an empty read (n = 0), or an error or the end (n < 0).         *)
CanRead(e, n) ==
  /\ on = Loop /\ uv_reading[e] /\ handle[e] = "open"
  /\ n <= Len(wire[e]) /\ (n < 0 => Gone(Peer(e)))

Bug_OnRead(e, n) ==  (* an error does not resume the coroutine *)
  /\ CanRead(e, n)
  /\ stream' = [stream EXCEPT ![e].read_buffer_ = @ \o SubSeq(wire[e], 1, n),
                              ![e].closed_ = @ \/ n < 0, ![e].eof = @ \/ n < 0,
                              ![e].read_waiter_ = n < 0]
  /\ wire' = [wire EXCEPT ![e] = SubSeq(@, (IF n < 0 THEN 0 ELSE n) + 1, Len(@))]
  /\ uv_reading' = [uv_reading EXCEPT ![e] = n >= 0]
  /\ on' = IF n < 0 THEN Loop ELSE e
  /\ Fault(n = 0)
  /\ UNCHANGED <<handle, uv_writing, backlog, pending_connections_, accept_waiter_, listening>>

OnRead(e, n) ==
  /\ CanRead(e, n)
  /\ stream' = [stream EXCEPT ![e].read_buffer_ = @ \o SubSeq(wire[e], 1, n),
                              ![e].closed_ = @ \/ n < 0, ![e].eof = @ \/ n < 0,
                              ![e].read_waiter_ = FALSE]
  /\ wire' = [wire EXCEPT ![e] = SubSeq(@, (IF n < 0 THEN 0 ELSE n) + 1, Len(@))]
  /\ uv_reading' = [uv_reading EXCEPT ![e] = n >= 0]
  /\ on' = IF stream[e].read_waiter_ THEN e ELSE Loop
  /\ Fault(n = 0)
  /\ UNCHANGED <<handle, uv_writing, backlog, pending_connections_,
                 accept_waiter_, listening>>

-----------------------------------------------------------------------------
(* Write: the WriteRequest owns the data.  An error of uv_write does not    *)
(* suspend.                                                                 *)
WriteSuspend(e, data, sync_error) ==
  /\ on = e
  /\ uv_writing' = IF sync_error THEN uv_writing ELSE [uv_writing EXCEPT ![e] = data]
  /\ stream' = [stream EXCEPT ![e].unsent = @ \/ sync_error]
  /\ on' = IF sync_error THEN e ELSE Loop
  /\ Fault(sync_error)
  /\ UNCHANGED <<handle, uv_reading, wire, backlog,
                 pending_connections_, accept_waiter_, listening>>

OnWrite(e, ok) ==
  /\ on = Loop /\ uv_writing[e] # <<>>
  /\ ~ok => Gone(Peer(e))
  /\ wire' = IF ok /\ ~Gone(Peer(e)) THEN [wire EXCEPT ![Peer(e)] = @ \o uv_writing[e]]
             ELSE wire
  /\ uv_writing' = [uv_writing EXCEPT ![e] = <<>>]
  /\ on' = e
  /\ UNCHANGED <<stream, handle, uv_reading, backlog, pending_connections_,
                 accept_waiter_, listening, faults>>

-----------------------------------------------------------------------------
(***************************************************************************)
(* The heap-allocated handle of every stream (tcp.hpp: "Heap-allocated so  *)
(* uv_close callback can safely access it"): while libuv can call back     *)
(* into a stream, the stream is alive and the coroutine it would resume    *)
(* waits; once the stream is gone its handle is closed, once, except after *)
(* a read that failed, when closed_ makes Close() and the destructor skip  *)
(* uv_close.                                                               *)
(***************************************************************************)
StreamsReleased ==
  \A e \in End :
    /\ uv_reading[e] /\ on = Loop =>
         stream[e].alive /\ handle[e] = "open" /\ stream[e].read_waiter_
    /\ uv_writing[e] # <<>> => stream[e].alive /\ handle[e] = "open"
    /\ stream[e].alive /\ ~stream[e].closed_ => handle[e] \in {"raw", "open"}
    /\ ~stream[e].alive => handle[e] \in {"none", "closing", "freed"} \/ stream[e].eof

=============================================================================
