------------------------------ MODULE TcpServer ------------------------------
(***************************************************************************)
(* muduo::net::TcpServer with its EventLoopThreadPool: the base loop       *)
(* accepts, deals the connections out to the I/O loops in turn and keeps   *)
(* the map connections_; each I/O loop runs its connections.  The base     *)
(* loop and the I/O loops talk through their queues of functors.           *)
(*                                                                         *)
(* Grain.  A handler or a functor touches nothing of another thread but    *)
(* one queue of functors, so it is one step.  The destructor hands out one *)
(* functor at a time, and then quits and joins one thread at a time.  Of a *)
(* connection only its life is here; its traffic is TcpConnection's.       *)
(***************************************************************************)
EXTENDS Sequences, Functions, FiniteSetsExt, Naturals

CONSTANTS Conns,   \* the connections that clients may make
          Base,    \* loop_, the acceptor's
          Pools    \* what loops_ may be

ASSUME ServerAssumption ==
    /\ IsFiniteSet(Conns)
    /\ \A pool \in Pools : /\ pool \in Seq(Range(pool)) /\ IsInjective(pool)
                           /\ Base \notin Range(pool)

VARIABLES
    server,                \* "new", "started", "destroying": in the body of
                           \* the destructor, "stopping": in the pool's, "gone"
    loops_,                \* of the pool: the I/O loops, in order
    connections_, next_,   \* base loop only
    conn,                  \* the TcpConnections
    pendingFunctors_, functors, quit_, pc,   \* of the loops
    left,                  \* connections ~TcpServer has yet to hand out
    joined,                \* threads the pool's destructor is through with
    aborted                \* history: assertions failed, uses after destruction

Loops == {Base} \cup Range(loops_)

loop == <<pendingFunctors_, functors, quit_, pc>>
vars == <<server, connections_, next_, conn, loop, left, joined, aborted, loops_>>

Functors == [op : {"connectEstablished", "connectDestroyed", "removeConnectionInLoop"},
             conn : Conns]

(* "poll": in poll(2) or handling events; "run": in doPendingFunctors.     *)
TypeOK ==
    /\ server \in {"new", "started", "destroying", "stopping", "gone"}
    /\ connections_ \subseteq Conns /\ left \subseteq connections_
    /\ next_ \in 0..Len(loops_) /\ joined \in 0..Len(loops_)
    /\ conn \in [Conns -> [state : {"none", "kConnecting", "kConnected",
                                    "kDisconnected"},
                           channel : {"new", "on", "off", "removed"},
                           loop : Loops]]
    /\ pendingFunctors_ \in [Loops -> Seq(Functors)]
    /\ functors \in [Loops -> Seq(Functors)]
    /\ quit_ \in [Loops -> BOOLEAN]
    /\ pc \in [Loops -> {"poll", "run", "exited"}]
    /\ \A c \in connections_ : conn[c].state # "none"
    /\ \A l \in Loops : functors[l] # <<>> => pc[l] = "run"

Init ==
    /\ loops_ \in Pools /\ server = "new" /\ connections_ = {} /\ next_ = 0
    /\ conn = [c \in Conns |-> [state |-> "none", channel |-> "new", loop |-> Base]]
    /\ pendingFunctors_ = [l \in Loops |-> <<>>]
    /\ functors = [l \in Loops |-> <<>>]
    /\ quit_ = [l \in Loops |-> FALSE] /\ pc = [l \in Loops |-> "poll"]
    /\ left = {} /\ joined = 0 /\ aborted = {}

Functor(op, c) == [op |-> op, conn |-> c]

Queued(l, f) == [pendingFunctors_ EXCEPT ![l] = Append(@, f)]
queueInLoop(l, f) == pendingFunctors_' = Queued(l, f)

-----------------------------------------------------------------------------
(* What the functions of TcpConnection do to it; see that module.          *)

connectEstablished(c) ==
    /\ conn' = [conn EXCEPT ![c].state = "kConnected", ![c].channel = "on"]
    /\ aborted' = IF conn[c].state = "kConnecting" THEN aborted
                  ELSE aborted \cup {"assert connectEstablished"}

(* remove() needs a channel that was enabled, disabled, and not removed.   *)
connectDestroyed(c) ==
    /\ conn' = [conn EXCEPT ![c].channel = "removed",
                            ![c].state = IF @ = "kConnected" THEN "kDisconnected"
                                         ELSE @]
    /\ aborted' = IF conn[c].state \in {"kConnected", "kDisconnected"}
                     /\ conn[c].channel \in {"on", "off"}
                  THEN aborted ELSE aborted \cup {"assert connectDestroyed"}

(* The body of removeConnectionInLoop but for the queueing.                *)
Erase(c) ==
    /\ connections_' = connections_ \ {c}
    /\ aborted' = aborted \cup (CASE server = "gone" -> {"use of TcpServer"}
                                  [] c \in connections_ -> {}
                                  [] OTHER -> {"assert n == 1"})

(* loop_->queueInLoop() was tried before: see TcpServer.cc:120.            *)
DestroyedIn(c) == conn[c].loop

-----------------------------------------------------------------------------
(* The loops.                                                              *)

Running(l) ==
    /\ pc[l] \in {"poll", "run"}
    /\ l = Base => server \notin {"destroying", "stopping"}

SwapFunctors(l) ==
    /\ Running(l) /\ pc[l] = "poll"
    /\ functors' = [functors EXCEPT ![l] = pendingFunctors_[l]]
    /\ pendingFunctors_' = [pendingFunctors_ EXCEPT ![l] = <<>>]
    /\ pc' = [pc EXCEPT ![l] = "run"]
    /\ UNCHANGED <<server, connections_, next_, conn, quit_, left, joined, aborted>>

RunFunctor_Bug(l) ==
    /\ Running(l) /\ pc[l] = "run" /\ functors[l] # <<>>
    /\ functors' = [functors EXCEPT ![l] = SubSeq(@, 1, Len(@) - 1)]
    /\ LET f == functors[l][Len(functors[l])] IN
       \/ /\ f.op = "connectEstablished" /\ connectEstablished(f.conn)
          /\ UNCHANGED <<connections_, pendingFunctors_>>
       \/ /\ f.op = "connectDestroyed" /\ connectDestroyed(f.conn)
          /\ UNCHANGED <<connections_, pendingFunctors_>>
       \/ /\ f.op = "removeConnectionInLoop" /\ Erase(f.conn)
          /\ queueInLoop(DestroyedIn(f.conn), Functor("connectDestroyed", f.conn))
          /\ UNCHANGED conn
    /\ UNCHANGED <<server, next_, quit_, pc, left, joined>>
RunFunctor(l) ==
    /\ Running(l) /\ pc[l] = "run" /\ functors[l] # <<>>
    /\ functors' = [functors EXCEPT ![l] = Tail(@)]
    /\ LET f == Head(functors[l]) IN
       \/ /\ f.op = "connectEstablished" /\ connectEstablished(f.conn)
          /\ UNCHANGED <<connections_, pendingFunctors_>>
       \/ /\ f.op = "connectDestroyed" /\ connectDestroyed(f.conn)
          /\ UNCHANGED <<connections_, pendingFunctors_>>
       \/ /\ f.op = "removeConnectionInLoop" /\ Erase(f.conn)
          /\ queueInLoop(DestroyedIn(f.conn), Functor("connectDestroyed", f.conn))
          /\ UNCHANGED conn
    /\ UNCHANGED <<server, next_, quit_, pc, left, joined>>

(* A loop told to quit leaves what was queued behind this round.           *)
EndRound(l) ==
    /\ Running(l) /\ pc[l] = "run" /\ functors[l] = <<>>
    /\ pc' = [pc EXCEPT ![l] = IF quit_[l] THEN "exited" ELSE "poll"]
    /\ UNCHANGED <<server, connections_, next_, conn, pendingFunctors_, functors,
                   quit_, left, joined, aborted>>

(* The base loop's owner has it return.                                    *)
quit ==
    /\ pc[Base] = "run" /\ Running(Base) /\ quit_' = [quit_ EXCEPT ![Base] = TRUE]
    /\ UNCHANGED <<server, connections_, next_, conn, pendingFunctors_, functors,
                   pc, left, joined, aborted>>

-----------------------------------------------------------------------------
(* start() before the base loop runs: the threads, then listen().          *)
start ==
    /\ server = "new" /\ server' = "started"
    /\ UNCHANGED <<connections_, next_, conn, loop, left, joined, aborted>>

AfterNext == IF next_ + 1 >= Len(loops_) THEN 0 ELSE next_ + 1

(* getNextLoop(): in turn, or the base loop when the pool is empty.        *)
getNextLoop(l) ==
    IF loops_ = <<>> THEN l = Base /\ UNCHANGED next_
    ELSE l = loops_[next_ + 1] /\ next_' = AfterNext

(* Acceptor::handleRead() calls newConnection(): runInLoop() runs the      *)
(* functor on the spot when the connection is the base loop's own.         *)
newConnection(c, l) ==
    /\ server = "started" /\ pc[Base] = "poll" /\ conn[c].state = "none"
    /\ getNextLoop(l)
    /\ connections_' = connections_ \cup {c}
    /\ IF l = Base
       THEN /\ conn' = [conn EXCEPT ![c] = [state |-> "kConnected",
                                            channel |-> "on", loop |-> l]]
            /\ UNCHANGED pendingFunctors_
       ELSE /\ conn' = [conn EXCEPT ![c] = [state |-> "kConnecting",
                                            channel |-> "new", loop |-> l]]
            /\ queueInLoop(l, Functor("connectEstablished", c))
    /\ UNCHANGED <<server, functors, quit_, pc, left, joined, aborted>>

handleClose_Bug(c) ==
    LET l == conn[c].loop IN
    /\ Running(l) /\ pc[l] = "poll" /\ conn[c].channel = "on"
    /\ conn' = [conn EXCEPT ![c].state = "kDisconnected"]
    /\ IF l = Base
       THEN Erase(c) /\ queueInLoop(DestroyedIn(c), Functor("connectDestroyed", c))
       ELSE /\ queueInLoop(Base, Functor("removeConnectionInLoop", c))
            /\ UNCHANGED <<connections_, aborted>>
    /\ UNCHANGED <<server, next_, functors, quit_, pc, left, joined>>
handleClose_SilentBug(c) ==
    LET l == conn[c].loop IN
    /\ Running(l) /\ pc[l] = "poll" /\ conn[c].channel = "on"
    /\ conn' = [conn EXCEPT ![c].state = "kDisconnected", ![c].channel = "off"]
    /\ UNCHANGED <<server, connections_, next_, loop, left, joined, aborted>>
(* The other end has closed: TcpConnection::handleClose(), whose close     *)
(* callback is removeConnection().                                         *)
handleClose(c) ==
    LET l == conn[c].loop IN
    /\ Running(l) /\ pc[l] = "poll" /\ conn[c].channel = "on"
    /\ conn' = [conn EXCEPT ![c].state = "kDisconnected", ![c].channel = "off"]
    /\ IF l = Base
       THEN Erase(c) /\ queueInLoop(DestroyedIn(c), Functor("connectDestroyed", c))
       ELSE /\ queueInLoop(Base, Functor("removeConnectionInLoop", c))
            /\ UNCHANGED <<connections_, aborted>>
    /\ UNCHANGED <<server, next_, functors, quit_, pc, left, joined>>

-----------------------------------------------------------------------------
(* ~TcpServer: in the base loop's thread, after loop() has returned or in  *)
(* a callback of it.                                                       *)
BeginDestroy ==
    /\ server = "started"
    /\ server' = "destroying" /\ left' = connections_
    /\ UNCHANGED <<connections_, next_, conn, loop, joined, aborted>>

(* Each connection to its own loop, directly if that is the base loop.     *)
DestroyOne(c) ==
    /\ server = "destroying" /\ c \in left /\ left' = left \ {c}
    /\ IF conn[c].loop = Base
       THEN connectDestroyed(c) /\ UNCHANGED pendingFunctors_
       ELSE /\ queueInLoop(conn[c].loop, Functor("connectDestroyed", c))
            /\ UNCHANGED <<conn, aborted>>
    /\ UNCHANGED <<server, connections_, next_, functors, quit_, pc, joined>>

DestroyMembers ==
    /\ server = "destroying" /\ left = {}
    /\ server' = "stopping" /\ connections_' = {}
    /\ UNCHANGED <<next_, conn, loop, left, joined, aborted>>

(* ~EventLoopThread, for one thread of the pool after the other.           *)
QuitThread ==
    /\ server = "stopping" /\ joined < Len(loops_)
    /\ ~quit_[loops_[joined + 1]]
    /\ quit_' = [quit_ EXCEPT ![loops_[joined + 1]] = TRUE]
    /\ UNCHANGED <<server, connections_, next_, conn, pendingFunctors_, functors,
                   pc, left, joined, aborted>>

JoinThread ==
    /\ server = "stopping" /\ joined < Len(loops_)
    /\ pc[loops_[joined + 1]] = "exited"
    /\ joined' = joined + 1
    /\ UNCHANGED <<server, connections_, next_, conn, loop, left, aborted>>

EndDestroy ==
    /\ server = "stopping" /\ joined = Len(loops_) /\ server' = "gone"
    /\ UNCHANGED <<connections_, next_, conn, loop, left, joined, aborted>>

-----------------------------------------------------------------------------
LoopSteps(l) == SwapFunctors(l) \/ RunFunctor(l) \/ EndRound(l)
Destructor == \/ \E c \in Conns : DestroyOne(c)
              \/ DestroyMembers \/ QuitThread \/ JoinThread \/ EndDestroy

Kept(steps) == steps /\ UNCHANGED loops_

Next == Kept(\/ start \/ quit \/ BeginDestroy \/ Destructor
             \/ \E l \in Loops : LoopSteps(l) \/ \E c \in Conns : newConnection(c, l)
             \/ \E c \in Conns : handleClose(c))

(* Threads are scheduled, handlers and callbacks return.                   *)
Threads == {Base} \cup UNION {Range(pool) : pool \in Pools}
Thread(l) == l \in Loops /\ Kept(LoopSteps(l))

Spec == /\ Init /\ [][Next]_vars
        /\ WF_vars(Kept(Destructor)) /\ \A l \in Threads : WF_vars(Thread(l))

-----------------------------------------------------------------------------
(* No assertion fails, of this class or of the connections it sets up and  *)
(* takes apart: each connection is erased once, however its closing        *)
(* crosses the destructor.  What does happen is that a functor of the base *)
(* loop uses the server after one of its callbacks has destroyed it.       *)
NoAssertFails == aborted \subseteq {"use of TcpServer"}

(* A connection's functors run in the thread of its own loop.              *)
InOwnLoop ==
    \A l \in Loops : \A i \in DOMAIN functors[l] :
        functors[l][i].op \in {"connectEstablished", "connectDestroyed"} =>
            conn[functors[l][i].conn].loop = l

(* Round robin: of all connections ever made no loop of the pool has two   *)
(* more than another.                                                      *)
Load(l) == Quantify(Conns, LAMBDA c : conn[c].state # "none" /\ conn[c].loop = l)
Balanced ==
    \A l, k \in Range(loops_) : Load(l) <= Load(k) + 1

(* TcpServer.cc:32-123: all of these.                                      *)
ServerSafe == TypeOK /\ NoAssertFails /\ InOwnLoop /\ Balanced

(* Users see each connection come up and go down once, in that order.      *)
Phase(c) == CASE conn[c].channel = "on" -> "up"
              [] conn[c].channel = "off" -> "down"
              [] conn[c].channel = "removed" -> "destroyed"
              [] OTHER -> IF conn[c].state = "none" THEN "none" ELSE "connecting"
Life == INSTANCE ConnectionLife WITH phase <- [c \in Conns |-> Phase(c)]
ImplementsConnectionLife == Life!Spec

(* A connection that is down is taken out of its poller, unless the base   *)
(* loop, which has to erase it first, has been told to quit, or the server *)
(* is gone: ~TcpServer quits the threads behind what it has queued.        *)
ClosedIsDestroyed ==
    \A c \in Conns :
        Phase(c) = "down" ~> Phase(c) = "destroyed" \/ quit_[Base] \/ server = "gone"

(* The destructor gets through: each thread of the pool notices quit().    *)
DestructorReturns == server = "destroying" ~> server = "gone"
=============================================================================
