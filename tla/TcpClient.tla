------------------------------ MODULE TcpClient ------------------------------
(***************************************************************************)
(* muduo::net::TcpClient with its Connector and the connections it makes.  *)
(* The user calls it from the loop's thread or from another one; the loop  *)
(* runs the connector's handlers, timers and functors, and those of the    *)
(* connections.                                                            *)
(*                                                                         *)
(* A handler or functor is one step, but for removeConnection(), whose     *)
(* tests of connect_, by then stale, come before what restart() does.      *)
(* User code runs in the loop's handlers, timers and functors, or in       *)
(* another thread.  An assertion that fails ends the program.              *)
(***************************************************************************)
EXTENDS Connector

CONSTANTS Users,        \* what users do: the calls they make, one after the other,
                        \* in the loop's thread or not, with enableRetry() or not
          KeeperRounds  \* rounds without sleep that the second of ~TcpClient lasts

Ops == {"startInLoop", "stopInLoop", "resetChannel", "setCloseCallback",
        "connectDestroyed"}

(* Nothing is called after the destructor.  The rounds of stopInLoop and   *)
(* of the resetChannel it queues take less than a second.                  *)
ASSUME ClientAssumption ==
    /\ Users \subseteq [calls : Seq({"connect", "stop", "disconnect", "destroy"}),
                       inLoop : BOOLEAN, retry : BOOLEAN]
    /\ \A u \in Users : \A i \in DOMAIN u.calls :
          u.calls[i] = "destroy" => i = Len(u.calls)
    /\ KeeperRounds \in Nat /\ KeeperRounds >= 2
    /\ IsFiniteSet(Socks) /\ None \notin Socks

VARIABLES
    user,           \* the member of Users that has this client
    wanted,         \* TcpClient::connect_
    connection_,
    conn,           \* of each socket handed over: the connection's phase
    closeCallback,  \* of each: "client", or "detail" once replaced
    client,         \* "alive", "dying": between two steps of ~TcpClient, "gone"
    keeper,         \* 0, or 1 + the rounds left before the timer of ~TcpClient,
                    \* which holds the connector, may fire
    done, upc,      \* how far the user is, inside of which call
    early, dropped  \* history: connect() calls made before all was at rest;
                    \* ~TcpClient dropped a connector with functors queued

Calls == user.calls
InLoop == user.inLoop
retry_ == user.retry

history == <<early, dropped>>
callers == <<wanted, client, keeper, done, upc, history>>
life == <<connection_, conn, closeCallback>>
loop == <<pendingFunctors_, functors, pc, active>>
vars == <<connect_, connector, loop, aborted, callers, life, user>>

(* pc: in the poll and its handlers, in the functors, in removeConnection  *)
(* before restart(), in restart() before startInLoop().                    *)
TypeOK ==
    /\ connect_ \in BOOLEAN /\ wanted \in BOOLEAN /\ watched \in BOOLEAN
    /\ state_ \in {"kDisconnected", "kConnecting", "kConnected"}
    /\ retryDelayMs_ \in kInitRetryDelayMs..kMaxRetryDelayMs
    /\ channel_ \in Socks \cup {None} /\ connection_ \in Socks \cup {None}
    /\ sock \in [Socks -> {"none", "open", "closed", "handed"}]
    /\ conn \in [Socks -> {"none", "up", "down", "destroyed"}]
    /\ closeCallback \in [Socks -> {"client", "detail"}]
    /\ pendingFunctors_ \in Seq([op : Ops, sock : Socks \cup {None}])
    /\ functors \in Seq([op : Ops, sock : Socks \cup {None}])
    /\ pc \in {"poll", "run", "restart", "restarted"} /\ active \subseteq Socks
    /\ client \in {"alive", "dying", "gone"} /\ keeper \in Nat
    /\ user \in Users /\ done \in 0..Len(Calls)
    /\ upc \in {"idle", "start", "stop", "stopLast", "setCloseCallback"}
    /\ timers \in Nat /\ young \in 0..timers
    /\ early \in Nat /\ dropped \in BOOLEAN

Init ==
    /\ user \in Users /\ ConnectorInit /\ aborted = {}
    /\ pendingFunctors_ = <<>> /\ functors = <<>> /\ pc = "poll" /\ active = {}
    /\ wanted = TRUE /\ client = "alive" /\ keeper = 0
    /\ connection_ = None /\ conn = [s \in Socks |-> "none"]
    /\ closeCallback = [s \in Socks |-> "client"] /\ done = 0 /\ upc = "idle"
    /\ early = 0 /\ dropped = FALSE

-----------------------------------------------------------------------------
(* What is an attempt: a start, a retry timer, a socket being connected, a *)
(* connection that is up or that is about to be made again.                *)
Count(q, op) == Cardinality({i \in DOMAIN q : q[i].op = op})
Starts == Count(pendingFunctors_, "startInLoop") + Count(functors, "startInLoop")
Ups == Cardinality({s \in Socks : conn[s] = "up"})
One(b) == IF b THEN 1 ELSE 0
Attempts == One(upc = "start") + Starts + timers + One(watched) + Ups
            + One(pc \in {"restart", "restarted"})

(* Nothing is left of what connect(), stop() and the peer have begun.      *)
AtRest == Attempts = 0 /\ state_ = "kDisconnected" /\ channel_ = None

-----------------------------------------------------------------------------
(* The user's calls.  In the loop's thread runInLoop() is a plain call.    *)

Calling(op) ==
    /\ upc = "idle" /\ done < Len(Calls) /\ Calls[done + 1] = op
    /\ done' = done + 1
    /\ InLoop => pc \in {"poll", "run"}

UserConnect ==
    /\ Calling("connect") /\ wanted' = TRUE /\ start
    /\ early' = early + One(~AtRest)
    /\ IF InLoop THEN startInLoop(TRUE, timers) /\ UNCHANGED upc
       ELSE upc' = "start" /\ UNCHANGED <<connector, aborted>>
    /\ UNCHANGED <<loop, life, client, keeper, dropped>>

UserStop ==
    /\ Calling("stop") /\ wanted' = FALSE /\ stop
    /\ IF InLoop THEN stopInLoop(FALSE) /\ UNCHANGED upc
       ELSE upc' = "stop" /\ UNCHANGED <<connector, aborted, pendingFunctors_>>
    /\ UNCHANGED <<functors, pc, active, life, client, keeper, history>>

(* connection_->shutdown() leaves the connection up till its peer closes.  *)
UserDisconnect ==
    /\ Calling("disconnect") /\ wanted' = FALSE
    /\ UNCHANGED <<connect_, connector, loop, aborted, life, client, keeper, upc,
                   history>>

(* The second step of a call from another thread.                          *)
UserQueues ==
    /\ \/ upc = "start" /\ queueInLoop("startInLoop")
       \/ upc \in {"stop", "stopLast"} /\ queueInLoop("stopInLoop")
    /\ upc' = "idle"
    /\ IF upc = "stopLast" THEN client' = "gone" /\ keeper' = KeeperRounds + 1
       ELSE UNCHANGED <<client, keeper>>
    /\ UNCHANGED <<connect_, connector, functors, pc, active, aborted, life, wanted,
                   done, history>>

-----------------------------------------------------------------------------
(* ~TcpClient.  With a connection its close callback is replaced, and the  *)
(* connector is deleted with the client; without, it is stopped and kept   *)
(* by a timer for a second.                                                *)
DestroyConnected(s) ==
    /\ Calling("destroy") /\ s = connection_ /\ client' = "gone"
    /\ dropped' = ConnectorQueued
    /\ IF InLoop
       THEN /\ closeCallback' = [closeCallback EXCEPT ![s] = "detail"]
            /\ UNCHANGED pendingFunctors_
       ELSE /\ pendingFunctors_' = Append(pendingFunctors_,
                                         [op |-> "setCloseCallback", sock |-> s])
            /\ UNCHANGED closeCallback
    /\ UNCHANGED <<connect_, connector, functors, pc, active, aborted, connection_, conn,
                   wanted, keeper, upc, early>>

DestroyUnconnected ==
    /\ Calling("destroy") /\ connection_ = None /\ client' = "dying"
    /\ UNCHANGED <<connect_, connector, loop, aborted, life, wanted, keeper, upc, history>>

DestroyStops_Bug ==
    /\ client = "dying" /\ upc = "idle" /\ stop
    /\ IF InLoop
       THEN stopInLoop(FALSE) /\ client' = "gone" /\ UNCHANGED <<keeper, upc>>
       ELSE /\ upc' = "stopLast"
            /\ UNCHANGED <<connector, aborted, pendingFunctors_, client, keeper>>
    /\ UNCHANGED <<functors, pc, active, life, wanted, done, history>>
DestroyStops ==
    /\ client = "dying" /\ upc = "idle" /\ stop
    /\ IF InLoop
       THEN /\ stopInLoop(FALSE) /\ client' = "gone"
            /\ keeper' = KeeperRounds + 1 /\ UNCHANGED upc
       ELSE /\ upc' = "stopLast"
            /\ UNCHANGED <<connector, aborted, pendingFunctors_, client, keeper>>
    /\ UNCHANGED <<functors, pc, active, life, wanted, done, history>>

KeeperFires ==
    /\ keeper = 1 /\ pc = "poll" /\ keeper' = 0
    /\ UNCHANGED <<connect_, connector, loop, aborted, life, wanted, client, done, upc,
                   history>>

-----------------------------------------------------------------------------
(* The connections.                                                        *)

(* newConnection(): the callback of the connector.                         *)
newConnection(s) ==
    /\ connection_' = s /\ conn' = [conn EXCEPT ![s] = "up"]
    /\ assert(client # "gone", "newConnection: use of TcpClient")

Connected(s) ==
    /\ AttemptSucceeds(s)
    /\ IF connect_ THEN newConnection(s)
       ELSE UNCHANGED <<connection_, conn, aborted>>
    /\ UNCHANGED <<functors, pc, closeCallback, callers>>

(* removeConnection(), up to the test before restart().                    *)
removeConnection(s) ==
    /\ assert(client # "gone" /\ connection_ = s, "removeConnection")
    /\ pc' = (IF retry_ /\ wanted THEN "restart" ELSE pc)
    /\ connection_' = None

(* The peer closes, while a socket is left for the next attempt.           *)
handleClose(s) ==
    /\ pc = "poll" /\ conn[s] = "up" /\ Fresh # {}
    /\ s \in active /\ active' = active \ {s}
    /\ conn' = [conn EXCEPT ![s] = "down"]
    /\ pendingFunctors_' = Append(pendingFunctors_,
                                  [op |-> "connectDestroyed", sock |-> s])
    /\ IF closeCallback[s] = "client" THEN removeConnection(s)
       ELSE UNCHANGED <<connection_, aborted, pc>>
    /\ UNCHANGED <<connect_, connector, functors, closeCallback, callers>>

Restart ==
    /\ pc = "restart" /\ restart /\ pc' = "restarted"
    /\ UNCHANGED <<pendingFunctors_, functors, active, aborted, callers, life>>

Restarted ==
    /\ pc = "restarted" /\ startInLoop(connect_, timers) /\ pc' = "poll"
    /\ UNCHANGED <<connect_, pendingFunctors_, functors, active, callers, life>>

-----------------------------------------------------------------------------
(* doPendingFunctors().                                                    *)
SwapFunctors ==
    /\ pc = "poll" /\ functors' = pendingFunctors_ /\ pendingFunctors_' = <<>>
    /\ pc' = "run" /\ active' = {} /\ young' = 0
    /\ keeper' = IF keeper > 1 THEN keeper - 1 ELSE keeper
    /\ UNCHANGED <<connect_, state_, channel_, watched, timers, retryDelayMs_, sock,
                   gaveUp, aborted, life, wanted, client, done, upc, history>>

RunFunctor ==
    /\ pc = "run" /\ functors # <<>> /\ functors' = Tail(functors)
    /\ LET f == Head(functors) IN
       \/ /\ f.op = "startInLoop" /\ startInLoop(connect_, timers)
          /\ UNCHANGED <<pendingFunctors_, life>>
       \/ f.op = "stopInLoop" /\ stopInLoop(connect_) /\ UNCHANGED life
       \/ /\ f.op = "resetChannel" /\ resetChannel
          /\ UNCHANGED <<state_, clock, sock, gaveUp, pendingFunctors_, aborted, life>>
       \/ /\ f.op = "setCloseCallback"
          /\ closeCallback' = [closeCallback EXCEPT ![f.sock] = "detail"]
          /\ UNCHANGED <<connector, pendingFunctors_, aborted, connection_, conn>>
       \/ /\ f.op = "connectDestroyed"
          /\ conn' = [conn EXCEPT ![f.sock] = "destroyed"]
          /\ UNCHANGED <<connector, pendingFunctors_, aborted, connection_,
                         closeCallback>>
    /\ UNCHANGED <<connect_, pc, active, callers>>

(* The poll that follows sleeps, as long as timers need, if no functor has *)
(* been queued meanwhile.                                                  *)
EndRound ==
    /\ pc = "run" /\ functors = <<>> /\ pc' = "poll"
    /\ active' = {s \in Socks : conn[s] = "up" \/ (watched /\ s = channel_)}
    /\ IF pendingFunctors_ = <<>> THEN young' = 0 /\ keeper' = One(keeper > 0)
       ELSE UNCHANGED <<young, keeper>>
    /\ UNCHANGED <<connect_, state_, channel_, watched, timers, retryDelayMs_, sock,
                   gaveUp, pendingFunctors_, functors, aborted, life, wanted, client,
                   done, upc, history>>

-----------------------------------------------------------------------------
UserContinues == UserQueues \/ DestroyStops
UserCalls == \/ UserConnect \/ UserStop \/ UserDisconnect
             \/ DestroyUnconnected \/ \E s \in Socks : DestroyConnected(s)
LoopSteps == SwapFunctors \/ RunFunctor \/ EndRound \/ Restart \/ Restarted
Timers == TimerFires /\ UNCHANGED <<callers, life>>
Peer == \/ AttemptFails /\ UNCHANGED <<callers, life>>
        \/ \E s \in Socks : Connected(s) \/ handleClose(s)

(* The loop waits for a destructor that it runs itself; nothing goes on    *)
(* when an assertion has failed.                                           *)
Loop(steps) == (InLoop => client # "dying") /\ steps
By(steps) == aborted = {} /\ steps /\ UNCHANGED user

Next == \/ By(UserContinues) \/ By(UserCalls)
        \/ By(Loop(LoopSteps)) \/ By(Loop(Timers)) \/ By(Loop(KeeperFires))
        \/ By(Loop(Peer))

(* The loop goes round, timers fire, and a call once begun continues.      *)
Spec == /\ Init /\ [][Next]_vars
        /\ WF_vars(By(Loop(LoopSteps))) /\ SF_vars(By(Loop(Timers)))
        /\ WF_vars(By(UserContinues))

-----------------------------------------------------------------------------
(* Connector.cc:30, 42, 125, TcpClient.cc:138: no assertion of Connector   *)
(* or TcpClient fails, and no callback reaches a client that is gone, if   *)
(* connect() is only called when all is at rest and no other thread than   *)
(* the loop's destroys the client: then a connection may close before      *)
(* setCloseCallback has run.                                               *)
NoAssertFails == early = 0 /\ (InLoop \/ client # "gone") => aborted = {}

(* Connector.cc:33-51, 112-119, 200-217: only connect() adds an attempt.   *)
(* If it is only called when all is at rest there is one at most, never    *)
(* two of a retry timer, a socket being connected and a connection; each   *)
(* other call of it adds one at most, however stop(), restart() and timers *)
(* follow.                                                                 *)
AtMostOne == aborted = {} => Attempts <= 1 + early

(* And as long as it is wanted the connection is there or attempted: no    *)
(* order of failures, timers and functors lets the connector fall asleep,  *)
(* unless connect(2) has failed with an error that is not retried, or the  *)
(* connection was lost and TcpClient does not want it again.               *)
Lost == state_ = "kConnected" /\ ~(retry_ /\ wanted /\ client = "alive")
KeepsTrying == aborted = {} /\ connect_ => Attempts > 0 \/ gaveUp \/ Lost
OneAttempt == AtMostOne /\ KeepsTrying

(* Connector.cc:70-188: no socket is leaked: the open one is that of the   *)
(* channel in the poller, and the others were closed or handed over, once, *)
(* to a connection.                                                        *)
SocketsOwned ==
    /\ {s \in Socks : sock[s] = "open"} = (IF watched THEN {channel_} ELSE {})
    /\ \A s \in Socks : (sock[s] = "handed") = (conn[s] # "none")
Owned == TypeOK /\ SocketsOwned

(* TcpClient.cc:54-74: when the destructor has run, and the timers that    *)
(* hold the connector have fired, it is deleted with no channel (the       *)
(* assertion of ~Connector) and with none of its functors, which hold the  *)
(* bare this, still queued: stopInLoop and its resetChannel run within the *)
(* second of the timer.  Not so if the destructor finds a connection when  *)
(* a functor is queued, or if another thread destroys a client that may    *)
(* restart() meanwhile.                                                    *)
ConnectorOutlives ==
    /\ ~dropped /\ (InLoop \/ ~retry_) /\ aborted = {}
    /\ client = "gone" /\ timers = 0 /\ keeper = 0
    => channel_ = None /\ ~ConnectorQueued

(* Connector.cc:53-68: after stop(), the user's last call, all attempts    *)
(* end, for ever.                                                          *)
Stopped == done = Len(Calls) /\ Calls[Len(Calls)] = "stop"
Quiet == timers = 0 /\ ~watched
StopStops == Stopped ~> aborted # {} \/ []Quiet
=============================================================================
