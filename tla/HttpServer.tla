----------------------------- MODULE HttpServer -----------------------------
(***************************************************************************)
(* One connection of muduo::net::HttpServer: onMessage() is called with    *)
(* whatever bytes have arrived and parses, line by line, what the input    *)
(* buffer holds.  A line is a request line, a header or the blank line;    *)
(* `buf' has the complete lines not yet retrieved, and a message that only *)
(* brings a part of a line brings no complete line.                        *)
(***************************************************************************)
EXTENDS Integers, Sequences, FiniteSets

CONSTANTS Lines,          \* the lines the client sends
          MaxLines,       \* bound: lines sent over the connection
          MaxPerMessage   \* bound: complete lines that arrive together

None == "none"
RequestLine(method, version) ==
    [word |-> method, version |-> version, field |-> None, value |-> None]
HeaderLine(field, value) ==
    [word |-> None, version |-> None, field |-> field, value |-> value]
Blank == HeaderLine(None, None)

Methods == {"GET", "POST", "HEAD", "PUT", "DELETE"}
Versions == {"HTTP/1.0", "HTTP/1.1"}
IsRequestLine(l) == l.word \in Methods /\ l.version \in Versions
HasColon(l) == l.field # None

VARIABLES
    buf,                     \* TcpConnection::inputBuffer_
    state_, request_,        \* the HttpContext of the connection
    conn,                    \* TcpConnection::state_
    pc,                      \* where onMessage() is; "loop": it has returned
    wire,                    \* what was sent to the client
    stream, handled,         \* history: all lines received; the requests
                             \* passed to httpCallback_, each with the
                             \* number of lines retrieved by then
    waits                    \* history: the client has waited for its answers

vars == <<buf, state_, request_, conn, pc, wire, stream, handled, waits>>

(* The lines retrieved so far.                                            *)
Retrieved == Len(stream) - Len(buf)

-----------------------------------------------------------------------------
(* HttpRequest(): `connection' is what getHeader("Connection") returns.    *)
NoHeader == ""
NewRequest == [method_ |-> "kInvalid", version_ |-> "kUnknow", connection |-> NoHeader]

Init ==
    /\ buf = <<>> /\ state_ = "kExpectRequestLine" /\ request_ = NewRequest
    /\ conn = "kConnected" /\ pc = "loop"
    /\ wire = <<>> /\ stream = <<>> /\ handled = <<>> /\ waits = TRUE

(* What a client that waits sends: requests of the right form, and nothing *)
(* behind the end of a request before it is answered.                      *)
OneByOne(ls) ==
    LET s == stream \o ls
    IN  /\ \A i \in DOMAIN s : IF i = 1 \/ s[i - 1] = Blank THEN IsRequestLine(s[i])
                                ELSE HasColon(s[i]) \/ s[i] = Blank
        /\ \A i \in DOMAIN ls : ls[i] = Blank => i = Len(ls)

(* TcpConnection::handleRead() calls onMessage().                          *)
onMessage(ls) ==
    /\ pc = "loop" /\ Len(stream) + Len(ls) <= MaxLines
    /\ waits' = (waits /\ OneByOne(ls))
    /\ buf' = buf \o ls /\ stream' = stream \o ls /\ pc' = "parse"
    /\ UNCHANGED <<state_, request_, conn, wire, handled>>

(* TcpConnection::send() and shutdown() in the loop's thread.              *)
send(r) == wire' = IF conn = "kConnected" THEN Append(wire, r) ELSE wire
shutdown(yes) == conn' = IF yes THEN "kDisconnecting" ELSE conn

setMethod(word) ==
    CASE word = "GET" -> "kGet"
      [] word = "POST" -> "kPost"
      [] word \in {"HEAD", "PUT"} -> "kHead"
      [] word = "DELETE" -> "kDelete"
      [] OTHER -> "kInvalid"

VersionOf(v) ==
    CASE v = "HTTP/1.1" -> "kHttp11" [] v = "HTTP/1.0" -> "kHttp10" [] OTHER -> "kUnknow"

(* setMethod() is called for a line with a space and expects a new request.*)
MethodAssert(l) == l # Blank => request_.method_ = "kInvalid"

processRequestLine(l) ==
    LET method == setMethod(l.word)
        version == VersionOf(l.version)
        ok == method # "kInvalid" /\ version # "kUnknow"
    IN  [ok |-> ok,
         request |-> [request_ EXCEPT !.method_ = method,
                                      !.version_ = IF ok THEN version ELSE @]]

Retrieve == buf' = Tail(buf)

ParseRequestLine ==
    /\ pc = "parse" /\ state_ = "kExpectRequestLine" /\ buf # <<>> /\ MethodAssert(buf[1])
    /\ LET result == processRequestLine(buf[1])
       IN  result.ok /\ request_' = result.request
    /\ Retrieve /\ state_' = "kExpectHeaders"
    /\ UNCHANGED <<conn, pc, wire, stream, handled, waits>>

(* The line stays in the buffer, and the method it may have set in the     *)
(* request.                                                                *)
BadRequest ==
    /\ pc = "parse" /\ state_ = "kExpectRequestLine" /\ buf # <<>> /\ MethodAssert(buf[1])
    /\ LET result == processRequestLine(buf[1])
       IN  ~result.ok /\ request_' = result.request
    /\ send([to |-> 0, status |-> "400", close |-> TRUE, chosen |-> TRUE])
    /\ shutdown(TRUE)
    /\ pc' = "loop"
    /\ UNCHANGED <<buf, state_, stream, handled, waits>>

AssertFails ==
    /\ pc = "parse" /\ state_ = "kExpectRequestLine" /\ buf # <<>> /\ ~MethodAssert(buf[1])
    /\ pc' = "aborted"
    /\ UNCHANGED <<buf, state_, request_, conn, wire, stream, handled, waits>>

addHeader(l) ==
    request_' = IF l.field = "Connection" THEN [request_ EXCEPT !.connection = l.value]
                ELSE request_

ParseHeader ==
    /\ pc = "parse" /\ state_ = "kExpectHeaders" /\ buf # <<>> /\ HasColon(buf[1])
    /\ addHeader(buf[1]) /\ Retrieve
    /\ UNCHANGED <<state_, conn, pc, wire, stream, handled, waits>>

(* Any line without a colon ends the headers.                              *)
EndOfHeaders ==
    /\ pc = "parse" /\ state_ = "kExpectHeaders" /\ buf # <<>> /\ ~HasColon(buf[1])
    /\ state_' = "kGotAll" /\ Retrieve /\ pc' = "request"
    /\ UNCHANGED <<request_, conn, wire, stream, handled, waits>>

(* No CRLF.                                                                *)
NeedMore ==
    /\ pc = "parse" /\ buf = <<>> /\ pc' = "loop"
    /\ UNCHANGED <<buf, state_, request_, conn, wire, stream, handled, waits>>

(* Whether snprintf(buf,sizeof 32,"HTTP/1.1 ...") gets as far as the code. *)
SizeofInt == 4
CodeFits == SizeofInt > Len("HTTP/1.1 200")
appendToBuffer(status) == IF CodeFits THEN status ELSE None

reset_Bug == request_' = [NewRequest EXCEPT !.version_ = request_.version_,
                                            !.connection = request_.connection]
(* HttpContext::reset(): HttpRequest::swap() leaves version_ out.          *)
reset == request_' = [NewRequest EXCEPT !.version_ = request_.version_]

(* onRequest() with the callback, which may ask to close the connection,   *)
(* as defaultHttpCallback does, and reset().                               *)
onRequest(status, chosen) ==
    LET close == \/ request_.connection = "close"
                 \/ request_.version_ = "kHttp10" /\ request_.connection # "Keep-Alive"
                 \/ chosen
    IN  /\ pc = "request"
        /\ send([to |-> Len(handled) + 1, status |-> appendToBuffer(status),
                 close |-> close, chosen |-> chosen])
        /\ shutdown(close)
        /\ handled' = Append(handled, [method_ |-> request_.method_, status |-> status,
                                       end |-> Retrieved])
        /\ reset /\ state_' = "kExpectRequestLine" /\ pc' = "loop"
        /\ UNCHANGED <<buf, stream, waits>>

Step == \/ ParseRequestLine \/ BadRequest \/ AssertFails
        \/ ParseHeader \/ EndOfHeaders \/ NeedMore
        \/ \E status \in {"200", "404"}, chosen \in BOOLEAN : onRequest(status, chosen)
Next == Step \/ \E n \in 0..MaxPerMessage : \E ls \in [1..n -> Lines] : onMessage(ls)

Spec == Init /\ [][Next]_vars /\ WF_vars(Step)

-----------------------------------------------------------------------------
TypeOK ==
    /\ buf \in Seq(Lines) /\ stream \in Seq(Lines) /\ Retrieved >= 0
    /\ buf = SubSeq(stream, Retrieved + 1, Len(stream))
    /\ state_ \in {"kExpectRequestLine", "kExpectHeaders", "kGotAll"}
    /\ (state_ = "kGotAll") <=> (pc = "request")
    /\ request_ \in [method_ : {"kInvalid", "kGet", "kPost", "kHead", "kDelete"},
                     version_ : {"kUnknow", "kHttp10", "kHttp11"},
                     connection : {NoHeader} \cup {l.value : l \in Lines}]
    /\ conn \in {"kConnected", "kDisconnecting"} /\ waits \in BOOLEAN
    /\ pc \in {"loop", "parse", "request", "aborted"}

(* The lines of the i-th request handled.                                  *)
First(i) == IF i = 1 THEN 1 ELSE handled[i - 1].end + 1
Headers(i) == (First(i) + 1)..(handled[i].end - 1)

(* However the stream was cut into messages, the requests passed to the    *)
(* callback are those of the stream, one behind the other: a request line, *)
(* headers, and the first line that is none.                               *)
FramesTheStream ==
    \A i \in DOMAIN handled :
        /\ IsRequestLine(stream[First(i)])
        /\ handled[i].end > First(i) /\ ~HasColon(stream[handled[i].end])
        /\ \A j \in Headers(i) : HasColon(stream[j])

(* What the client asked for in its i-th request: the last Connection      *)
(* header counts.                                                          *)
Asked(i) ==
    LET hs == {j \in Headers(i) : stream[j].field = "Connection"}
        last == CHOOSE j \in hs : \A k \in hs : k <= j
    IN  IF hs = {} THEN NoHeader ELSE stream[last].value

(* A connection is kept or closed behind an answer as this very request,   *)
(* and none before it on the connection, asks, unless the callback has     *)
(* chosen to close it.                                                     *)
PersistsAsAsked ==
    \A i \in DOMAIN wire : wire[i].to # 0 /\ ~wire[i].chosen =>
        (wire[i].close <=> \/ Asked(i) = "close"
                           \/ /\ stream[First(i)].version = "HTTP/1.0"
                              /\ Asked(i) # "Keep-Alive")

(* Answers go out one for each request, in the order of the requests, and  *)
(* nothing follows one behind which the connection is shut down, whatever  *)
(* the client still sends.                                                 *)
AnswersInOrder ==
    /\ \A i \in DOMAIN wire : wire[i].to = IF wire[i].status = "400" THEN 0 ELSE i
    /\ \A i \in DOMAIN wire : wire[i].close <=> (i = Len(wire) /\ conn = "kDisconnecting")

(* A client that waits for its answers before it goes on finds every       *)
(* request handled by the time the message that ends it has been.  (The    *)
(* second of two requests in one message is left in the buffer until       *)
(* another message arrives.)                                               *)
WaitingClientAnswered ==
    waits /\ pc = "loop" =>
        Len(handled) = Cardinality({i \in DOMAIN stream : stream[i] = Blank})

(* onMessage() returns to the loop, which serves other connections too,    *)
(* unless the assert of setMethod() ends the program.                      *)
MessageHandled == (pc = "parse") ~> (pc \in {"loop", "aborted"})
=============================================================================
