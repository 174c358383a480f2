---------------------------- MODULE TcpConnection ----------------------------
(***************************************************************************)
(* muduo::net::TcpConnection: one connection of a TcpServer, in an I/O     *)
(* loop of its own.  Worker threads call send() and shutdown(), which test *)
(* and set state_ without a lock and leave the rest to functors queued in  *)
(* the I/O loop; the loop handles the socket's events and calls the user   *)
(* back; the server, in another loop, removes the connection when it has   *)
(* closed, or drops it when the server is destroyed.                       *)
(*                                                                         *)
(* The I/O loop is TaskExecutor's queue plus one event of the connection   *)
(* at a time.  A message is MessageLength units, each named after the      *)
(* message; a write(2) takes any number of them.  Callbacks are user code: *)
(* while one runs, the loop's thread may send() and shutdown().            *)
(*                                                                         *)
(* sendInLoop and shutdownInLoop are queued with the bare `this', the      *)
(* other functors with a shared_ptr.  Alive is whether a shared_ptr is     *)
(* left.  What stops the program (an assertion) or leaves its behaviour    *)
(* undefined (use of a destroyed object) is recorded in aborted, and       *)
(* nothing is modelled after it.                                           *)
(***************************************************************************)
EXTENDS Naturals, Sequences, Functions

CONSTANTS Messages,         \* each sent at most once
          MessageLength,
          Workers,          \* threads other than the I/O loop's
          MayShutdown,      \* those of them that call shutdown()
          HighWaterMark,    \* highWaterMark_, in units
          ServerStops       \* whether the TcpServer may be destroyed

ASSUME MessageAssumption ==
    /\ MessageLength \in Nat \ {0} /\ HighWaterMark \in Nat \ {0}
    /\ ServerStops \in BOOLEAN /\ MayShutdown \subseteq Workers

VARIABLES
    state_,                  \* stateE: read and written by every thread
    events_, registered,     \* of channel_: interest, and known to the poller
    outputBuffer_,
    pendingFunctors_,        \* of the I/O loop
    pc, then, revents,       \* of the I/O loop: see PCs
    calls, holders,          \* per worker: inside send or shutdown; has a ptr
    server,                  \* TcpServer: the connection's entry in its map
    peer,                    \* the other end
    unsent,                  \* messages not yet passed to send()
    aborted,
    (***********************************************************************)
    (* History: units taken over by sendInLoop, units written, FIN sent,   *)
    (* disableAll called, connectionCallback_ called up and down.          *)
    (***********************************************************************)
    accepted, wire, finSent, disabled, ups, downs

channel == <<events_, registered>>
loop == <<pc, then, revents>>
threads == <<calls, holders, unsent>>
stream == <<outputBuffer_, accepted, wire>>
callbacks == <<ups, downs>>
vars == <<state_, channel, stream, pendingFunctors_, loop, threads, server,
          peer, aborted, finSent, disabled, callbacks>>

(* "idle": between events and functors; "events": in handleEventWithGuard; *)
(* "callback": in user code, and `then' is what its caller goes on to do.  *)
PCs == {"idle", "events", "callback"}

States == {"kDisconnected", "kConnecting", "kConnected", "kDisconnecting"}

SendFunctor(m) == [op |-> "sendInLoop", message |-> m]
ShutdownFunctor == [op |-> "shutdownInLoop"]
Established == [op |-> "connectEstablished"]
Destroyed == [op |-> "connectDestroyed"]
WriteComplete == [op |-> "writeCompleteCallback"]
HighWater == [op |-> "highWaterMarkCallback"]

Raw == {SendFunctor(m) : m \in Messages} \cup {ShutdownFunctor}
Shared == {Established, Destroyed, WriteComplete, HighWater}

NoCall == [op |-> "none"]
Calls == {NoCall, [op |-> "shutdown"], [op |-> "shutdownSet"]}
         \cup {[op |-> "send", message |-> m] : m \in Messages}

Aborts == {"none", "Channel.cc:46", "PollPoller.cc:81",
           "TcpConnection destroyed", "TcpServer destroyed"}

(* The values of the variables: what the loop may find queued, the worker  *)
(* calls it may interleave with, the ways of going wrong.                  *)
TypeOK ==
    /\ state_ \in States
    /\ events_ \subseteq {"read", "write"} /\ registered \in BOOLEAN
    /\ outputBuffer_ \in Seq(Messages)
    /\ accepted \in Seq(Messages) /\ wire \in Seq(Messages)
    /\ pendingFunctors_ \in Seq(Raw \cup Shared)
    /\ pc \in PCs /\ then \in {"none", "closeCallback", "remove"}
    /\ pc = "idle" => then = "none" /\ revents = {}
    /\ revents \subseteq {"error", "read", "write"}
    /\ calls \in [Workers -> Calls] /\ holders \subseteq Workers
    /\ server \in {"listed", "removing", "removed", "destroyed"}
    /\ peer \in {"open", "closed", "reset", "dead"}
    /\ unsent \subseteq Messages
    /\ aborted \in Aborts
    /\ finSent \in BOOLEAN /\ disabled \in BOOLEAN
    /\ ups \in Nat /\ downs \in Nat

(* TcpServer::newConnection: the connection is listed and its              *)
(* connectEstablished queued in the I/O loop.                              *)
Init ==
    /\ state_ = "kConnecting"
    /\ events_ = {} /\ registered = FALSE
    /\ outputBuffer_ = << >> /\ accepted = << >> /\ wire = << >>
    /\ pendingFunctors_ = <<Established>>
    /\ pc = "idle" /\ then = "none" /\ revents = {}
    /\ calls = [w \in Workers |-> NoCall] /\ holders = Workers
    /\ server = "listed" /\ peer = "open"
    /\ unsent = Messages
    /\ aborted = "none"
    /\ finSent = FALSE /\ disabled = FALSE
    /\ ups = 0 /\ downs = 0

-----------------------------------------------------------------------------

Running == aborted = "none"

isWriting == "write" \in events_

Alive == \/ server \in {"listed", "removing"}
         \/ holders # {}
         \/ Range(pendingFunctors_) \cap Shared # {}

Abort(what) ==
    /\ aborted' = what
    /\ UNCHANGED <<state_, channel, stream, pendingFunctors_, loop, threads,
                   server, peer, finSent, disabled, callbacks>>

(* Names that end in _Bug are the definitions after them with one mistake  *)
(* put in; nothing uses them, they show that the properties notice.        *)
Continue_Bug(rest) ==
    /\ pc' = "idle"
    /\ then' = "none"
    /\ revents' = rest

(* After the current event, with the events still to handle; into user     *)
(* code, with what the loop goes on to do and those events.                *)
Continue(rest) ==
    /\ pc' = IF rest = {} THEN "idle" ELSE "events"
    /\ then' = "none"
    /\ revents' = rest

Callback(next, rest) ==
    /\ pc' = "callback"
    /\ then' = next
    /\ revents' = rest

queueInLoop(functor) == pendingFunctors_' = Append(pendingFunctors_, functor)

-----------------------------------------------------------------------------
(* In the I/O loop's thread: what send() and shutdown() do there.          *)

(* write(2) takes units as long as this end has not shut down and the      *)
(* other has not gone.  The first call after a reset reports it (with      *)
(* ECONNRESET or EPIPE), and every later write gives EPIPE.                *)
CanWrite == ~finSent /\ peer \in {"open", "closed"}
BrokenPipe == finSent \/ peer \in {"reset", "dead"}
Reported == IF peer = "reset" THEN "dead" ELSE peer

Units(m, n) == [i \in 1 .. n |-> m]

WritesDirectly_Bug == TRUE

WritesDirectly == ~isWriting /\ outputBuffer_ = << >>

Crosses(rest) == /\ Len(outputBuffer_) + rest >= HighWaterMark
                 /\ Len(outputBuffer_) < HighWaterMark

(* n units are written at once (none if the write fails with another error *)
(* than EPIPE), the rest goes to the buffer and the channel is to be told  *)
(* when more can be written.                                               *)
Takes(m, n, queue) ==
    LET rest == MessageLength - n
    IN  /\ n > 0 => WritesDirectly /\ CanWrite
        /\ n = 0 /\ WritesDirectly => CanWrite \/ peer = "reset"
        /\ rest > 0 /\ ~isWriting => registered
        /\ accepted' = accepted \o Units(m, MessageLength)
        /\ wire' = wire \o Units(m, n)
        /\ outputBuffer_' = outputBuffer_ \o Units(m, rest)
        /\ events_' = IF rest > 0 THEN events_ \cup {"write"} ELSE events_
        /\ pendingFunctors_' = IF rest = 0 THEN Append(queue, WriteComplete)
                               ELSE IF Crosses(rest) THEN Append(queue, HighWater)
                               ELSE queue

GivesUp == state_ = "kDisconnected" \/ (WritesDirectly /\ BrokenPipe)

(* The message is dropped, or taken over; `queue' are the functors queued  *)
(* before.                                                                 *)
sendInLoop(m, queue) ==
    /\ \/ GivesUp /\ pendingFunctors_' = queue /\ UNCHANGED <<events_, stream>>
       \/ state_ # "kDisconnected" /\ \E n \in 0 .. MessageLength : Takes(m, n, queue)
    /\ peer' = IF state_ # "kDisconnected" /\ WritesDirectly THEN Reported ELSE peer

(* enableWriting on a channel that has been removed: its index_ is still   *)
(* set, and the poller looks for it among the channels it knows.           *)
SendAborts == /\ state_ # "kDisconnected" /\ ~registered /\ ~isWriting
              /\ WritesDirectly => CanWrite \/ peer = "reset"

shutdownInLoop_Bug == finSent' = TRUE

shutdownInLoop == finSent' = (finSent \/ ~isWriting)

-----------------------------------------------------------------------------
(* Worker threads.  A call that finds state_ other than kConnected does    *)
(* nothing.                                                                *)

SendCheck(w, m) ==
    /\ w \in holders /\ calls[w] = NoCall
    /\ m \in unsent /\ state_ = "kConnected"
    /\ calls' = [calls EXCEPT ![w] = [op |-> "send", message |-> m]]
    /\ unsent' = unsent \ {m}
    /\ UNCHANGED <<state_, channel, stream, pendingFunctors_, loop, holders,
                   server, peer, aborted, finSent, disabled, callbacks>>

SendQueue(w) ==
    /\ calls[w].op = "send"
    /\ queueInLoop(SendFunctor(calls[w].message))
    /\ calls' = [calls EXCEPT ![w] = NoCall]
    /\ UNCHANGED <<state_, channel, stream, loop, holders, unsent, server,
                   peer, aborted, finSent, disabled, callbacks>>

ShutdownCheck(w) ==
    /\ w \in holders \cap MayShutdown /\ calls[w] = NoCall
    /\ state_ = "kConnected"
    /\ calls' = [calls EXCEPT ![w] = [op |-> "shutdown"]]
    /\ UNCHANGED <<state_, channel, stream, pendingFunctors_, loop, holders,
                   unsent, server, peer, aborted, finSent, disabled, callbacks>>

ShutdownSet(w) ==
    /\ calls[w].op = "shutdown"
    /\ state_' = "kDisconnecting"
    /\ calls' = [calls EXCEPT ![w] = [op |-> "shutdownSet"]]
    /\ UNCHANGED <<channel, stream, pendingFunctors_, loop, holders, unsent,
                   server, peer, aborted, finSent, disabled, callbacks>>

ShutdownQueue(w) ==
    /\ calls[w].op = "shutdownSet"
    /\ queueInLoop(ShutdownFunctor)
    /\ calls' = [calls EXCEPT ![w] = NoCall]
    /\ UNCHANGED <<state_, channel, stream, loop, holders, unsent, server,
                   peer, aborted, finSent, disabled, callbacks>>

(* The worker resets its TcpConnectionPtr.                                 *)
Drop(w) ==
    /\ w \in holders /\ calls[w] = NoCall
    /\ holders' = holders \ {w}
    /\ UNCHANGED <<state_, channel, stream, pendingFunctors_, loop, calls,
                   unsent, server, peer, aborted, finSent, disabled, callbacks>>

Worker(w) == \/ \E m \in Messages : SendCheck(w, m)
             \/ SendQueue(w)
             \/ ShutdownCheck(w) \/ ShutdownSet(w) \/ ShutdownQueue(w)
             \/ Drop(w)

-----------------------------------------------------------------------------
(* User code in the loop's thread.                                         *)

LoopSend(m) ==
    /\ pc = "callback" /\ m \in unsent /\ state_ = "kConnected"
    /\ sendInLoop(m, pendingFunctors_)
    /\ unsent' = unsent \ {m}
    /\ UNCHANGED <<state_, registered, loop, calls, holders, server, aborted,
                   finSent, disabled, callbacks>>

LoopShutdown ==
    /\ pc = "callback" /\ state_ = "kConnected"
    /\ state_' = "kDisconnecting"
    /\ shutdownInLoop
    /\ UNCHANGED <<channel, stream, pendingFunctors_, loop, threads, server,
                   peer, aborted, disabled, callbacks>>

(* Channel::disableAll, and what handleClose and connectDestroyed share.   *)
disableAll_Bug == UNCHANGED <<events_, disabled>>
disableAll == events_' = {} /\ disabled' = TRUE

Down(next, rest) ==
    /\ state_' = "kDisconnected" /\ disableAll
    /\ downs' = downs + 1 /\ UNCHANGED ups
    /\ Callback(next, rest)

(* Channel::remove                                                         *)
remove ==
    IF events_ # {}
      THEN Abort("Channel.cc:46")
      ELSE /\ registered' = FALSE
           /\ Continue({})
           /\ UNCHANGED <<state_, events_, stream, threads, server, peer,
                          aborted, finSent, disabled, callbacks>>

(* TcpServer::removeConnection, set as the close callback.                 *)
closeCallback ==
    IF server = "destroyed"
      THEN Abort("TcpServer destroyed")
      ELSE /\ server' = "removing"
           /\ Continue(revents)
           /\ UNCHANGED <<state_, channel, stream, pendingFunctors_, threads,
                          peer, aborted, finSent, disabled, callbacks>>

CallbackReturns ==
    /\ pc = "callback"
    /\ \/ /\ then = "none"
          /\ Continue(revents)
          /\ UNCHANGED <<state_, channel, stream, pendingFunctors_, threads,
                         server, peer, aborted, finSent, disabled, callbacks>>
       \/ then = "remove" /\ remove /\ UNCHANGED pendingFunctors_
       \/ then = "closeCallback" /\ closeCallback

-----------------------------------------------------------------------------
(* Functors.                                                               *)

TakesFunctor(f) == /\ pc = "idle" /\ pendingFunctors_ # << >>
                   /\ Head(pendingFunctors_) = f

connectEstablished ==
    /\ TakesFunctor(Established)
    /\ pendingFunctors_' = Tail(pendingFunctors_)
    /\ state_' = "kConnected"
    /\ events_' = {"read"} /\ registered' = TRUE
    /\ ups' = ups + 1
    /\ Callback("none", {})
    /\ UNCHANGED <<stream, threads, server, peer, aborted, finSent, disabled, downs>>

connectDestroyed ==
    /\ TakesFunctor(Destroyed)
    /\ \/ /\ state_ = "kConnected"
          /\ pendingFunctors_' = Tail(pendingFunctors_)
          /\ Down("remove", {})
          /\ UNCHANGED <<registered, stream, threads, server, peer, aborted, finSent>>
       \/ /\ state_ # "kConnected"
          /\ remove
          /\ events_ = {} => pendingFunctors_' = Tail(pendingFunctors_)

(* A functor bound to the bare `this'.                                     *)
RawFunctor ==
    \/ /\ \E f \in Raw : TakesFunctor(f)
       /\ ~Alive
       /\ Abort("TcpConnection destroyed")
    \/ \E m \in Messages :
          /\ TakesFunctor(SendFunctor(m)) /\ Alive
          /\ \/ SendAborts /\ Abort("PollPoller.cc:81")
             \/ /\ sendInLoop(m, Tail(pendingFunctors_))
                /\ UNCHANGED <<state_, registered, loop, threads, server,
                               aborted, finSent, disabled, callbacks>>
    \/ /\ TakesFunctor(ShutdownFunctor) /\ Alive
       /\ shutdownInLoop
       /\ pendingFunctors_' = Tail(pendingFunctors_)
       /\ UNCHANGED <<state_, channel, stream, loop, threads, server, peer,
                      aborted, disabled, callbacks>>

UserFunctor ==
    /\ TakesFunctor(WriteComplete) \/ TakesFunctor(HighWater)
    /\ pendingFunctors_' = Tail(pendingFunctors_)
    /\ Callback("none", {})
    /\ UNCHANGED <<state_, channel, stream, threads, server, peer, aborted,
                   finSent, disabled, callbacks>>

RunFunctor == connectEstablished \/ connectDestroyed \/ RawFunctor \/ UserFunctor

-----------------------------------------------------------------------------
(* Events.  An end of stream stays readable and a broken connection        *)
(* writable.  Until disableAll the channel asks for POLLIN, so POLLHUP     *)
(* never comes without it; after disableAll the poller never watches the   *)
(* channel again, whatever it asks for (PollPoller!WantedIsWatched).       *)

Poll ==
    /\ pc = "idle" /\ registered /\ ~disabled
    /\ \E ready \in SUBSET events_ :
          /\ peer # "open" => "read" \in ready
          /\ isWriting /\ peer \in {"reset", "dead"} => "write" \in ready
          /\ ready # {}
          /\ Continue(ready \cup {e \in {"error"} : peer = "reset"})
    /\ UNCHANGED <<state_, channel, stream, pendingFunctors_, threads, server,
                   peer, aborted, finSent, disabled, callbacks>>

handleClose(rest) ==
    /\ Down("closeCallback", rest)
    /\ UNCHANGED <<registered, stream, pendingFunctors_, threads, server, peer,
                   aborted, finSent>>

(* Asking for the error reports it.                                        *)
handleError(rest) ==
    /\ peer' = Reported
    /\ Continue(rest)
    /\ UNCHANGED <<state_, channel, stream, pendingFunctors_, threads, server,
                   aborted, finSent, disabled, callbacks>>

handleRead ==
    LET rest == revents \ {"read"}
    IN  \/ /\ peer = "open"
           /\ Callback("none", rest)
           /\ UNCHANGED <<state_, channel, stream, pendingFunctors_, threads,
                          server, peer, aborted, finSent, disabled, callbacks>>
        \/ peer \in {"closed", "dead"} /\ handleClose(rest)
        \/ peer = "reset" /\ handleError(rest)

disableWriting_Bug == events_
disableWriting == events_ \ {"write"}

FinAfterDrain_Bug == finSent
FinAfterDrain == finSent \/ state_ = "kDisconnecting"

(* The head of the buffer is written; when the buffer is empty, a shutdown *)
(* that has waited for it goes on.                                         *)
WriteSome ==
    \E n \in 1 .. Len(outputBuffer_) :
       LET drained == n = Len(outputBuffer_)
       IN  /\ isWriting /\ CanWrite
           /\ wire' = wire \o SubSeq(outputBuffer_, 1, n)
           /\ outputBuffer_' = SubSeq(outputBuffer_, n + 1, Len(outputBuffer_))
           /\ events_' = IF drained THEN disableWriting ELSE events_
           /\ pendingFunctors_' = IF drained THEN Append(pendingFunctors_, WriteComplete)
                                  ELSE pendingFunctors_
           /\ finSent' = IF drained THEN FinAfterDrain ELSE finSent
           /\ UNCHANGED <<accepted, peer>>

handleWrite ==
    /\ \/ WriteSome
       \/ /\ ~isWriting \/ BrokenPipe
          /\ peer' = IF isWriting THEN Reported ELSE peer
          /\ UNCHANGED <<events_, stream, pendingFunctors_, finSent>>
    /\ Continue({})
    /\ UNCHANGED <<state_, registered, threads, server, aborted, disabled, callbacks>>

(* Channel::handleEventWithGuard, one callback at a time.                  *)
HandleEvent ==
    /\ pc = "events"
    /\ \/ "error" \in revents /\ handleError(revents \ {"error"})
       \/ "error" \notin revents /\ "read" \in revents /\ handleRead
       \/ revents = {"write"} /\ handleWrite

-----------------------------------------------------------------------------
(* The server's loop, and the other end.                                   *)

removeConnectionInLoop_Bug ==
    /\ server = "removing"
    /\ server' = "removed"
    /\ UNCHANGED <<state_, channel, stream, pendingFunctors_, loop, threads,
                   peer, aborted, finSent, disabled, callbacks>>

removeConnectionInLoop ==
    /\ server = "removing"
    /\ server' = "removed"
    /\ queueInLoop(Destroyed)
    /\ UNCHANGED <<state_, channel, stream, loop, threads, peer, aborted,
                   finSent, disabled, callbacks>>

(* TcpServer::~TcpServer.  A removeConnectionInLoop that is still queued   *)
(* will run on the destroyed server.                                       *)
ServerDestroyed ==
    /\ ServerStops
    /\ \/ /\ server = "listed"
          /\ server' = "destroyed"
          /\ queueInLoop(Destroyed)
          /\ UNCHANGED <<state_, channel, stream, loop, threads, peer, aborted,
                         finSent, disabled, callbacks>>
       \/ server = "removing" /\ Abort("TcpServer destroyed")

PeerLeaves ==
    /\ \/ peer = "open" /\ peer' = "closed"
       \/ peer \in {"open", "closed"} /\ peer' = "reset"
    /\ UNCHANGED <<state_, channel, stream, pendingFunctors_, loop, threads,
                   server, aborted, finSent, disabled, callbacks>>

-----------------------------------------------------------------------------

Loop == \/ RunFunctor
        \/ Poll \/ HandleEvent
        \/ CallbackReturns
        \/ LoopShutdown \/ \E m \in Messages : LoopSend(m)

Next == /\ Running
        /\ \/ \E w \in Workers : Worker(w)
           \/ Loop
           \/ removeConnectionInLoop \/ ServerDestroyed
           \/ PeerLeaves

Spec == Init /\ [][Next]_vars

(* A thread in a call goes on; a user callback returns; every round of the *)
(* loop polls and runs functors; the other end reads what it is sent.      *)
PollsFor(e) == Poll /\ e \in revents'

Fairness ==
    /\ \A w \in Workers : WF_vars(Running /\ (SendQueue(w) \/ ShutdownSet(w) \/ ShutdownQueue(w)))
    /\ WF_vars(Running /\ CallbackReturns)
    /\ WF_vars(Running /\ HandleEvent)
    /\ SF_vars(Running /\ RunFunctor)
    /\ \A e \in {"read", "write"} : SF_vars(Running /\ PollsFor(e))
    /\ WF_vars(Running /\ removeConnectionInLoop)

FairSpec == Spec /\ Fairness

-----------------------------------------------------------------------------
(***************************************************************************)
(* Properties.                                                             *)
(***************************************************************************)

(* TcpConnection.cc:142-186 and 267-272: what sendInLoop took over, from   *)
(* the loop's thread or a worker's, reaches the other end in that order    *)
(* and without a gap; what has not been written is in outputBuffer_.       *)
StreamIntact == wire \o outputBuffer_ = accepted

(* TcpConnection.cc:142, 182, 275: as long as the poller watches the       *)
(* channel, it is asked for POLLOUT exactly while there is output: no busy *)
(* loop with an empty buffer, no output that waits for an event nobody     *)
(* asked for.                                                              *)
WritesWhenBuffered == registered /\ ~disabled => (isWriting <=> outputBuffer_ # << >>)

(* TcpConnection.cc:201, 280: a shutdown waits for the output: until the   *)
(* connection is closed, the FIN follows the last unit taken over.  And    *)
(* (142-176) it ends the stream: a sendInLoop that a worker queued before  *)
(* the shutdown finds write(2) broken and drops its message; nothing is    *)
(* put into a buffer nobody would ever drain, as long as the other end is  *)
(* there.                                                                  *)
FinAfterData ==
    [][~disabled /\ finSent' =>
          /\ ~finSent => wire' = accepted'
          /\ finSent /\ peer \in {"open", "closed"} => UNCHANGED stream]_vars

(* TcpConnection.cc:306, TcpServer.cc:117: handleClose meets a connection  *)
(* that is up, the server is told once, and connectionCallback_ is called  *)
(* with a connection that goes down once, after it came up.                *)
ClosesOnce ==
    /\ events_ # {} => state_ \in {"kConnected", "kDisconnecting"}
    /\ then = "closeCallback" => server \in {"listed", "destroyed"}
    /\ downs <= ups /\ ups <= 1

(* TcpConnection.cc:189-205, 280: a shutdown is carried out, unless the    *)
(* connection closes first.                                                *)
ShutdownCompletes ==
    state_ = "kDisconnecting" ~> finSent \/ disabled \/ ~Running

(* TcpConnection.cc:250-316, TcpServer.cc:105-123: when the other end has  *)
(* gone, the connection is taken down and its channel removed.             *)
GoneIsRemoved ==
    peer # "open" /\ ups > 0 ~> (disabled /\ ~registered) \/ ~Running

(* TcpConnection.cc:71, "thread safe" of send().                           *)
SendIsSafe == aborted # "TcpConnection destroyed"

=============================================================================
