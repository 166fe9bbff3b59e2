----------------------------- MODULE HttpServer -----------------------------
(***************************************************************************)
(* HttpParser, HttpRequest and HttpServer (http/http.cpp) over TcpListener *)
(* and TcpStream, with clients that send one request at a time and read    *)
(* its response on the same connection, or close it at any time.  The      *)
(* server's coroutines are Run() and a HandleConnection() for each         *)
(* connection.                                                             *)
(***************************************************************************)
EXTENDS Tcp, SequencesExt

-----------------------------------------------------------------------------
(* HttpParser and HttpRequest.  A request travels as a sequence of pieces   *)
(* [t, v]: t is the part of the message the piece belongs to and v its      *)
(* text, a sequence.  A part may be cut anywhere: it is then several        *)
(* pieces, which may reach Parse() in different calls.  llhttp calls back   *)
(* once for all the text of one part that it finds in one call.             *)
CONSTANTS kMaxUrlLength, kMaxHeaderCount, kMaxTotalHeaderSize, kMaxBodySize

ASSUME LimitsAssumption ==
  {kMaxUrlLength, kMaxHeaderCount, kMaxTotalHeaderSize, kMaxBodySize} \subseteq Nat

(* The methods that HttpMethod has. *)
HttpMethodFromLlhttp(m) ==
  IF m \in {"GET", "POST", "PUT", "DELETE", "PATCH", "HEAD", "OPTIONS"} THEN m
  ELSE "UNKNOWN"

NoHeaders == [f \in {} |-> <<>>]

(* A parser as its constructor leaves it. *)
NewParser ==
  [method |-> "GET", version |-> 11, url |-> <<>>, headers |-> NoHeaders,
   body |-> <<>>, field |-> <<>>, value |-> <<>>, header_state_ |-> "kNone",
   complete_ |-> FALSE, error_ |-> FALSE]

Fail(p) == [p EXCEPT !.error_ = TRUE]

OnUrl(p, text) ==
  IF Len(p.url) + Len(text) > kMaxUrlLength THEN Fail(p)
  ELSE [p EXCEPT !.url = @ \o text]

OnHeaderField(p, text) ==
  [p EXCEPT !.field = IF p.header_state_ = "kValue" THEN text ELSE @ \o text,
            !.header_state_ = "kField"]

HeaderSize(headers) ==
  FoldSet(LAMBDA f, n : n + Len(f) + Len(headers[f]), 0, DOMAIN headers)

(* A field seen before: a new occurrence is appended, a further piece of a  *)
(* value REPLACES what the map holds.                                       *)
OnHeaderValue(p, text) ==
  LET new == p.header_state_ = "kField"
      value == IF new THEN text ELSE p.value \o text
      entry == IF new /\ p.field \in DOMAIN p.headers
               THEN p.headers[p.field] \o <<",">> \o value ELSE value
      headers == [f \in DOMAIN p.headers \union {p.field} |->
                    IF f = p.field THEN entry ELSE p.headers[f]]
      q == [p EXCEPT !.value = value, !.headers = headers, !.header_state_ = "kValue"]
  IN IF \/ Cardinality(DOMAIN headers) > kMaxHeaderCount
        \/ HeaderSize(headers) > kMaxTotalHeaderSize
     THEN Fail(q) ELSE q

OnBody(p, text) ==
  IF Len(p.body) + Len(text) > kMaxBodySize THEN Fail(p)
  ELSE [p EXCEPT !.body = @ \o text]

OnMessageComplete(p) == [p EXCEPT !.complete_ = TRUE]

(* llhttp: one callback for each part; what does not parse is an error.     *)
Callback(p, piece) ==
  CASE p.error_             -> p
    [] piece.t = "method"   -> [p EXCEPT !.method = piece.v[1]]
    [] piece.t = "url"      -> OnUrl(p, piece.v)
    [] piece.t = "version"  -> [p EXCEPT !.version = piece.v[1]]
    [] piece.t = "field"    -> OnHeaderField(p, piece.v)
    [] piece.t = "value"    -> OnHeaderValue(p, piece.v)
    [] piece.t = "body"     -> OnBody(p, piece.v)
    [] piece.t = "end"      -> OnMessageComplete(p)
    [] OTHER                -> Fail(p)

(* The pieces of one part that arrive together are one. *)
Joined(data) ==
  FoldLeft(LAMBDA s, d : IF s # <<>> /\ Last(s).t = d.t
                         THEN Append(Front(s), [t |-> d.t, v |-> Last(s).v \o d.v])
                         ELSE Append(s, d), <<>>, data)

Parse(p, data) == FoldLeft(Callback, p, Joined(data))

(* The request, with its path and its query: what stands before and after   *)
(* the first question mark of the URL.                                      *)
GetRequest(p) ==
  LET q == SelectInSeq(p.url, LAMBDA x : x = "?") IN
  [method |-> HttpMethodFromLlhttp(p.method), version |-> p.version,
   path |-> IF q = 0 THEN p.url ELSE SubSeq(p.url, 1, q - 1),
   query |-> IF q = 0 THEN <<>> ELSE SubSeq(p.url, q + 1, Len(p.url)),
   headers |-> p.headers, body |-> p.body]

Bug_Reset(p) ==  (* the headers of the last request stay *)
  [NewParser EXCEPT !.headers = p.headers]

Reset(p) == NewParser

GetHeader(r, name) == IF name \in DOMAIN r.headers THEN r.headers[name] ELSE <<>>

(* HTTP/1.0 closes unless told not to, HTTP/1.1 the other way round. *)
ShouldKeepAlive(r) ==
  IF r.version = 10 THEN GetHeader(r, <<"Connection">>) = <<"keep-alive">>
  ELSE GetHeader(r, <<"Connection">>) # <<"close">>

-----------------------------------------------------------------------------
(* What a request means, read off all its pieces at once.                   *)
Text(pieces, part) ==
  LET s == SelectSeq(pieces, LAMBDA x : x.t = part) IN
  FoldLeft(LAMBDA text, x : text \o x.v, <<>>, s)

(* The occurrences of the header fields, in order, and whether the value of *)
(* one was cut.                                                             *)
Occurrences(pieces) ==
  LET whole == [i \in DOMAIN pieces |-> [t |-> pieces[i].t, v |-> <<pieces[i].v>>]]
      s == SelectSeq(Joined(whole), LAMBDA x : x.t \in {"field", "value"})
  IN [i \in 1 .. Len(s) \div 2 |->
        [name |-> FlattenSeq(s[2 * i - 1].v), value |-> FlattenSeq(s[2 * i].v),
         cut |-> Len(s[2 * i].v) > 1]]

Of(f, pieces) == SelectSeq(Occurrences(pieces), LAMBDA x : x.name = f)

(* The values of some occurrences as one, with commas between them. *)
Combined(occurs) ==
  Tail(FlattenSeq([i \in DOMAIN occurs |-> <<",">> \o occurs[i].value]))

(* r is the request that `pieces` are.  The occurrences of a repeated field *)
(* are combined, all of them or those from one whose value was cut.         *)
Faithful(r, pieces) ==
  LET url == r.path \o (IF "?" \in ToSet(Text(pieces, "url")) THEN <<"?">> ELSE <<>>)
               \o r.query
  IN /\ r.method = HttpMethodFromLlhttp(Text(pieces, "method")[1])
     /\ r.version = Text(pieces, "version")[1]
     /\ url = Text(pieces, "url") /\ "?" \notin ToSet(r.path)
     /\ r.body = Text(pieces, "body")
     /\ DOMAIN r.headers = {x.name : x \in ToSet(Occurrences(pieces))}
     /\ \A f \in DOMAIN r.headers : LET of == Of(f, pieces) IN
          \E k \in DOMAIN of : /\ k = 1 \/ of[k].cut
                             /\ r.headers[f] = Combined(SubSeq(of, k, Len(of)))

-----------------------------------------------------------------------------
(* The server and its clients.                                              *)
CONSTANTS
  Requests,      (* the requests a client sends when it is the only one,    *)
                 (* each a sequence of pieces                               *)
  Brief,         (* those clients send when there are several, or no        *)
                 (* handler to look at them                                 *)
  MaxRequests    (* bound on the requests sent                              *)

VARIABLES
  rpc,           (* Run(): "start", "bind", "listen", "while", "accepted",  *)
                 (* "return" or "done"                                      *)
  running_,
  handler_,      (* whether a request handler is set                        *)
  hpc,           (* HandleConnection(): "none", "spawned", "while", "read", *)
                 (* "bad", "reply", "replied", "close", "return", "done"    *)
  parser,
  request,       (* the local of HandleConnection()                         *)
  clients,       (* the connections that are made                           *)
  cpc,           (* the client of each connection                           *)
  sent,          (* history: the requests it has sent                       *)
  handled,       (* history: the requests the handler has been given        *)
  answers        (* history: the responses the client has read              *)

serverVars == <<rpc, running_, handler_, hpc, parser, request>>
clientVars == <<clients, cpc, sent, answers>>
httpVars == <<tcpVars, serverVars, clientVars, handled>>

NoRequest == GetRequest(NewParser)

HttpState ==
  /\ TcpInit
  /\ rpc = "start" /\ running_ = TRUE
  /\ hpc = [c \in Conn |-> "none"]
  /\ parser = [c \in Conn |-> NewParser]
  /\ request = [c \in Conn |-> NoRequest]
  /\ cpc = [c \in Conn |-> "start"]
  /\ sent = [c \in Conn |-> <<>>] /\ handled = [c \in Conn |-> <<>>]
  /\ answers = [c \in Conn |-> <<>>]

Server(c) == <<c, "server">>
Client(c) == <<c, "client">>

-----------------------------------------------------------------------------
(* HttpResponse.  The body that the application's handler returns tells for *)
(* which request it is.                                                     *)
Response(status, about) == <<[status |-> status, about |-> about]>>
Ok(r) == Response(200, r)
NotFound == Response(404, NoRequest)
BadRequest == Response(400, NoRequest)

-----------------------------------------------------------------------------
(* Run() *)
RunStart ==
  /\ rpc = "start" /\ on = Loop
  /\ rpc' = "bind" /\ on' = Acceptor
  /\ UNCHANGED <<stream, handle, uv_reading, uv_writing, wire, backlog,
                 pending_connections_, accept_waiter_, listening, faults, running_,
                 handler_, hpc, parser, request, clientVars, handled>>

(* Bind() and Listen(): an error of either ends Run(). *)
RunBind(result) ==
  /\ rpc = "bind" /\ Bind(result)
  /\ rpc' = IF result = 0 THEN "while" ELSE "return"
  /\ UNCHANGED <<running_, handler_, hpc, parser, request, clientVars, handled>>

(* while (running_): the test comes before every Accept() and only then.    *)
RunWhile ==
  /\ rpc = "while"
  /\ \/ /\ ~running_ /\ on = Acceptor
        /\ rpc' = "return" /\ UNCHANGED tcpVars
     \/ /\ running_ /\ rpc' = "accepted"
        /\ AcceptSuspend
     \/ /\ running_ /\ rpc' = "accepted" /\ on = Acceptor
        /\ pending_connections_ # <<>> /\ UNCHANGED tcpVars
  /\ UNCHANGED <<running_, handler_, hpc, parser, request, clientVars, handled>>

(* Spawn(executor_, HandleConnection(std::move(stream))) *)
RunAccepted ==
  /\ rpc = "accepted" /\ AcceptResume
  /\ hpc' = [hpc EXCEPT ![Head(pending_connections_)] = "spawned"]
  /\ rpc' = "while"
  /\ UNCHANGED <<running_, handler_, parser, request, clientVars, handled>>

RunReturn ==
  /\ rpc = "return" /\ DestroyListener
  /\ rpc' = "done"
  /\ UNCHANGED <<running_, handler_, hpc, parser, request, clientVars, handled>>

Stop ==
  /\ running_ /\ running_' = FALSE
  /\ UNCHANGED <<tcpVars, rpc, handler_, hpc, parser, request, clientVars, handled>>

-----------------------------------------------------------------------------
(* HandleConnection() *)
HStart(c) ==
  /\ hpc[c] = "spawned" /\ on = Loop
  /\ on' = Server(c) /\ hpc' = [hpc EXCEPT ![c] = "while"]
  /\ UNCHANGED <<stream, handle, uv_reading, uv_writing, wire, backlog,
                 pending_connections_, accept_waiter_, listening, faults, rpc, running_,
                 handler_, parser, request, clientVars, handled>>

(* The deadline is looked at between reads. *)
HWhile(c) ==
  LET e == Server(c) IN
  /\ hpc[c] = "while" /\ on = e
  /\ \/ /\ ~IsOpen(e)
        /\ hpc' = [hpc EXCEPT ![c] = "close"] /\ UNCHANGED tcpVars
     \/ /\ IsOpen(e)                          (* past the deadline *)
        /\ \E error \in BOOLEAN : WriteSuspend(e, BadRequest, error)
        /\ hpc' = [hpc EXCEPT ![c] = "close"]
     \/ /\ IsOpen(e) /\ ReadSuspend(e)
        /\ hpc' = [hpc EXCEPT ![c] = "read"]
     \/ /\ IsOpen(e) /\ ReadReady(e)
        /\ hpc' = [hpc EXCEPT ![c] = "read"] /\ UNCHANGED tcpVars
  /\ UNCHANGED <<rpc, running_, handler_, parser, request, clientVars, handled>>

(* What Read() returned is parsed. *)
HRead(c) ==
  LET e == Server(c)
      data == stream[e].read_buffer_
      p == Parse(parser[c], data)
  IN /\ hpc[c] = "read" /\ ReadResume(e)
     /\ \/ /\ data = <<>>
           /\ hpc' = [hpc EXCEPT ![c] = "close"]
           /\ UNCHANGED <<parser, request, handled>>
        \/ /\ data # <<>> /\ p.error_
           /\ parser' = [parser EXCEPT ![c] = p]
           /\ hpc' = [hpc EXCEPT ![c] = "bad"]
           /\ UNCHANGED <<request, handled>>
        \/ /\ data # <<>> /\ ~p.error_ /\ ~p.complete_
           /\ parser' = [parser EXCEPT ![c] = p]
           /\ hpc' = [hpc EXCEPT ![c] = "while"]
           /\ UNCHANGED <<request, handled>>
        \/ /\ data # <<>> /\ ~p.error_ /\ p.complete_
           /\ parser' = [parser EXCEPT ![c] = p]
           /\ request' = [request EXCEPT ![c] = GetRequest(p)]
           /\ handled' = IF handler_ THEN [handled EXCEPT ![c] = Append(@, GetRequest(p))]
                         ELSE handled
           /\ hpc' = [hpc EXCEPT ![c] = "reply"]
     /\ UNCHANGED <<handle, uv_writing, wire, backlog, pending_connections_,
                    accept_waiter_, listening, on, faults, rpc, running_, handler_, clientVars>>

HBad(c) ==
  /\ hpc[c] = "bad"
  /\ \E error \in BOOLEAN : WriteSuspend(Server(c), BadRequest, error)
  /\ hpc' = [hpc EXCEPT ![c] = "close"]
  /\ UNCHANGED <<rpc, running_, handler_, parser, request, clientVars, handled>>

HReply(c) ==
  /\ hpc[c] = "reply"
  /\ \E error \in BOOLEAN :
       WriteSuspend(Server(c), IF handler_ THEN Ok(request[c]) ELSE NotFound, error)
  /\ hpc' = [hpc EXCEPT ![c] = "replied"]
  /\ UNCHANGED <<rpc, running_, handler_, parser, request, clientVars, handled>>

HReplied(c) ==
  /\ hpc[c] = "replied" /\ on = Server(c)
  /\ \/ /\ ~ShouldKeepAlive(request[c])
        /\ hpc' = [hpc EXCEPT ![c] = "close"] /\ UNCHANGED parser
     \/ /\ ShouldKeepAlive(request[c])
        /\ parser' = [parser EXCEPT ![c] = Reset(parser[c])]
        /\ hpc' = [hpc EXCEPT ![c] = "while"]
  /\ UNCHANGED <<tcpVars, rpc, running_, handler_, request, clientVars, handled>>

HClose(c) ==
  /\ hpc[c] = "close" /\ Close(Server(c))
  /\ hpc' = [hpc EXCEPT ![c] = "return"]
  /\ UNCHANGED <<rpc, running_, handler_, parser, request, clientVars, handled>>

HReturn(c) ==
  /\ hpc[c] = "return" /\ DestroyStream(Server(c))
  /\ hpc' = [hpc EXCEPT ![c] = "done"]
  /\ UNCHANGED <<rpc, running_, handler_, parser, request, clientVars, handled>>

Handle(c) ==
  \/ HStart(c) \/ HWhile(c) \/ HRead(c) \/ HBad(c) \/ HReply(c)
  \/ HReplied(c) \/ HClose(c) \/ HReturn(c)

-----------------------------------------------------------------------------
(* A client: Connect(), then requests and their responses.                  *)
Alone == Cardinality(clients) = 1

ClientConnect(c) ==
  LET e == Client(c) IN
  /\ \/ /\ cpc[c] = "start" /\ on = Loop
        /\ on' = e /\ cpc' = [cpc EXCEPT ![c] = "connect"]
        /\ UNCHANGED <<stream, handle, uv_reading, uv_writing, wire, backlog,
                       pending_connections_, accept_waiter_, listening, faults>>
     \/ /\ cpc[c] = "connect" /\ ConnectSuspend(e, FALSE)
        /\ cpc' = [cpc EXCEPT ![c] = "again"]
     \/ /\ cpc[c] = "connect" /\ ConnectSuspend(e, TRUE)
        /\ cpc' = [cpc EXCEPT ![c] = "close"]
     \/ /\ cpc[c] = "again" /\ ConnectAgain(e)
        /\ cpc' = [cpc EXCEPT ![c] =
                     IF stream[e].connect_result_ = 0 THEN "send" ELSE "close"]
  /\ UNCHANGED <<serverVars, clients, sent, answers, handled>>

ClientSend(c) ==
  /\ cpc[c] = "send" /\ Len(sent[c]) < IF Alone THEN MaxRequests ELSE 1
  /\ \E r \in IF Alone /\ handler_ THEN Requests ELSE Brief, error \in BOOLEAN :
       /\ WriteSuspend(Client(c), r, error)
       /\ sent' = IF error THEN sent ELSE [sent EXCEPT ![c] = Append(@, r)]
       /\ cpc' = [cpc EXCEPT ![c] = IF error THEN "close" ELSE "receive"]
  /\ UNCHANGED <<serverVars, clients, answers, handled>>

ClientReceive(c) ==
  LET e == Client(c) IN
  /\ cpc[c] = "receive" /\ ReadSuspend(e)
  /\ cpc' = [cpc EXCEPT ![c] = "received"]
  /\ UNCHANGED <<serverVars, clients, sent, answers, handled>>

ClientReceived(c) ==
  LET e == Client(c) data == stream[e].read_buffer_ IN
  /\ cpc[c] = "received" /\ ReadResume(e)
  /\ answers' = [answers EXCEPT ![c] = @ \o data]
  /\ cpc' = [cpc EXCEPT ![c] = IF data = <<>> THEN "close" ELSE "send"]
  /\ UNCHANGED <<handle, uv_writing, wire, backlog, pending_connections_,
                 accept_waiter_, listening, on, faults, serverVars, clients, sent, handled>>

(* A client may give up whenever it has the thread and is connected. *)
ClientClose(c) ==
  /\ cpc[c] \in {"send", "receive", "close"} /\ Close(Client(c))
  /\ cpc' = [cpc EXCEPT ![c] = "return"]
  /\ UNCHANGED <<serverVars, clients, sent, answers, handled>>

(* The stream is destroyed, after Close() or without. *)
ClientReturn(c) ==
  /\ cpc[c] \in {"close", "return"} /\ DestroyStream(Client(c))
  /\ cpc' = [cpc EXCEPT ![c] = "done"]
  /\ UNCHANGED <<serverVars, clients, sent, answers, handled>>

ClientStep(c) ==
  \/ ClientConnect(c) \/ ClientSend(c) \/ ClientReceive(c)
  \/ ClientReceived(c) \/ ClientClose(c) \/ ClientReturn(c)

-----------------------------------------------------------------------------
(* How much a read finds.  With several clients it takes all there is. *)
Found(e) == {-1, 0, Len(wire[e])} \union IF Alone THEN 1 .. Len(wire[e]) ELSE {}

(* libuv calls back. *)
UvCallback ==
  /\ \/ \E ok \in BOOLEAN : OnConnection(ok)
     \/ \E c \in Conn, status \in {0, -1} : OnConnect(Client(c), status)
     \/ \E e \in End : \/ \E n \in Found(e) : OnRead(e, n)
                       \/ \E ok \in BOOLEAN : OnWrite(e, ok)
                       \/ OnClose(e)
  /\ UNCHANGED <<serverVars, clientVars, handled>>

RunStep == RunWhile \/ RunAccepted \/ RunReturn \/ \E r \in {0, -1} : RunBind(r)

HttpNext ==
  \/ RunStart \/ RunStep \/ Stop \/ UvCallback
  \/ \E c \in Conn : Handle(c)
  \/ \E c \in clients : ClientStep(c)

-----------------------------------------------------------------------------
(***************************************************************************)
(* The handler is given the requests of a connection as they were sent, in *)
(* order and each once: however their bytes were cut into reads, and       *)
(* whatever came before them on a connection that is kept alive.  A client *)
(* reads responses to its own requests, in order.                          *)
(***************************************************************************)
RequestsIntact ==
  \A c \in Conn :
    /\ Len(handled[c]) <= Len(sent[c])
    /\ \A i \in DOMAIN handled[c] : Faithful(handled[c][i], sent[c][i])
    /\ Len(SelectSeq(answers[c], LAMBDA a : a.status # 400)) <= Len(sent[c])
    /\ \A i \in DOMAIN answers[c] :
         answers[c][i].status = 200 =>
           i \in DOMAIN handled[c] /\ answers[c][i].about = handled[c][i]

(***************************************************************************)
(* "multi-valued headers must be combined per RFC 7230", says http_test,   *)
(* and OnHeaderValue() cites the RFC: the handler sees all the occurrences *)
(* of a field.  It does not: when the value of a later occurrence arrives  *)
(* in two reads, its second piece replaces what the earlier ones said.     *)
(***************************************************************************)
HeadersCombined ==
  \A c \in Conn : \A i \in DOMAIN handled[c] :
    \A f \in DOMAIN handled[c][i].headers :
      handled[c][i].headers[f] = Combined(Of(f, sent[c][i]))

(***************************************************************************)
(* A client that has sent a request and reads gets an answer or the end of *)
(* the connection, whatever fails: uv_accept, a read, Run() itself or the  *)
(* listener's end with connections queued.  The exceptions are two results *)
(* that nobody looks at.  A response that uv_write refuses is not sent,    *)
(* and HandleConnection() waits for the next request of a client that      *)
(* waits for it; a Read() whose uv_read_start fails never returns.         *)
(***************************************************************************)
ClientServed ==
  \A c \in Conn :
    cpc[c] = "received" ~>
      \/ cpc[c] # "received"
      \/ stream[Server(c)].unsent
      \/ stream[Server(c)].unread \/ stream[Client(c)].unread

=============================================================================
