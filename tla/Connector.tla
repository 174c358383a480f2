------------------------------ MODULE Connector ------------------------------
(***************************************************************************)
(* muduo::net::Connector: attempts to connect, one after the other, until  *)
(* one succeeds.  start() and stop() set connect_ in the caller's thread   *)
(* and leave the rest to functors of the loop's thread, which hold the     *)
(* bare this; retry timers hold a shared pointer.  TcpClient has the       *)
(* next-state relation.                                                    *)
(*                                                                         *)
(* A round of the loop takes less than kInitRetryDelayMs: a timer that is  *)
(* young, set since the loop last slept in poll(2) or took over the queued *)
(* functors, does not fire.                                                *)
(***************************************************************************)
EXTENDS Sequences, FiniteSets, Naturals

CONSTANTS Socks,               \* sockets, numbers that close() frees again
          None,
          kInitRetryDelayMs, kMaxRetryDelayMs

ASSUME DelayAssumption ==
    /\ kInitRetryDelayMs \in Nat \ {0} /\ kMaxRetryDelayMs \in Nat
    /\ kInitRetryDelayMs <= kMaxRetryDelayMs

VARIABLES
    connect_,              \* written by any thread
    state_, retryDelayMs_,
    channel_, watched,     \* the channel's socket or None; is it in the poller
    timers, young,         \* the number of retry timers pending, of them young
    sock,                  \* per socket: "none", "open", "closed", "handed"
    gaveUp,                \* history: the last connect(2) failed for good
    pendingFunctors_, functors, pc,   \* of the loop: see TcpClient
    active,                \* sockets poll(2) was asked about in this round and
                           \* whose event is still to come
    aborted                \* the assertions that failed and ended the program

clock == <<timers, young, retryDelayMs_>>
connector == <<state_, channel_, watched, clock, sock, gaveUp>>

ConnectorInit ==
    /\ connect_ = FALSE /\ state_ = "kDisconnected" /\ gaveUp = FALSE
    /\ retryDelayMs_ = kInitRetryDelayMs
    /\ channel_ = None /\ watched = FALSE /\ timers = 0 /\ young = 0
    /\ sock = [s \in Socks |-> "none"]

Fresh == {s \in Socks : sock[s] \in {"none", "closed"}}

assert(cond, what) ==
    aborted' = IF cond THEN aborted ELSE aborted \cup {what}

(* retry() when connect_ is c and t timers are pending.                    *)
retryTimer(c, t) ==
    IF c THEN /\ timers' = t + 1 /\ young' = young + 1
              /\ retryDelayMs_' = (IF retryDelayMs_ * 2 < kMaxRetryDelayMs
                                   THEN retryDelayMs_ * 2 ELSE kMaxRetryDelayMs)
    ELSE timers' = t /\ UNCHANGED <<young, retryDelayMs_>>

retry_LeakBug(s, c, t) ==
    /\ state_' = "kDisconnected" /\ UNCHANGED sock
    /\ retryTimer(c, t)
retry(s, c, t) ==
    /\ sock' = [sock EXCEPT ![s] = "closed"] /\ state_' = "kDisconnected"
    /\ retryTimer(c, t)

connecting(s) ==
    /\ state_' = "kConnecting" /\ channel_' = s /\ watched' = TRUE
    /\ sock' = [sock EXCEPT ![s] = "open"]
    /\ assert(channel_ = None, "connecting: assert(!channel_)")

(* connect(): under way, refused for now, or refused for good.             *)
connect(s, t) ==
    \/ connecting(s) /\ retryTimer(FALSE, t) /\ gaveUp' = FALSE
    \/ /\ retry(s, TRUE, t) /\ gaveUp' = FALSE
       /\ UNCHANGED <<channel_, watched, aborted>>
    \/ /\ retry(s, FALSE, t) /\ gaveUp' = TRUE
       /\ UNCHANGED <<channel_, watched, aborted>>

(* startInLoop() when connect_ is c; the timer that runs it is not in t.   *)
startInLoop(c, t) ==
    \/ /\ state_ = "kDisconnected" /\ c
       /\ \E s \in Fresh : connect(s, t)
    \/ /\ state_ # "kDisconnected" \/ ~c
       /\ assert(state_ = "kDisconnected", "startInLoop: assert state_")
       /\ timers' = t
       /\ UNCHANGED <<state_, channel_, watched, young, retryDelayMs_, sock, gaveUp>>

(* restart(), up to the call of startInLoop().                             *)
restart ==
    /\ connect_' = TRUE /\ state_' = "kDisconnected"
    /\ retryDelayMs_' = kInitRetryDelayMs
    /\ UNCHANGED <<channel_, watched, timers, young, sock, gaveUp>>

-----------------------------------------------------------------------------
Functor(op) == [op |-> op, sock |-> None]
queueInLoop(op) == pendingFunctors_' = Append(pendingFunctors_, Functor(op))

(* removeAndResetChannel(): out of the poller now, reset by a functor.     *)
removeAndResetChannel ==
    /\ watched' = FALSE /\ UNCHANGED channel_
    /\ queueInLoop("resetChannel")

stopInLoop_Bug(c) == UNCHANGED <<connector, pendingFunctors_, aborted>>
stopInLoop(c) ==
    IF state_ = "kConnecting"
    THEN /\ removeAndResetChannel /\ retry(channel_, c, timers)
         /\ UNCHANGED <<gaveUp, aborted>>
    ELSE UNCHANGED <<connector, pendingFunctors_, aborted>>

resetChannel_Bug == watched' = FALSE /\ UNCHANGED channel_
resetChannel == channel_' = None /\ watched' = FALSE

(* The channel is writable: handleWrite(), with an error or a connection   *)
(* to itself; or an error: handleError(), after which handleWrite() finds  *)
(* kDisconnected and does nothing.                                         *)
AttemptFails ==
    /\ pc = "poll" /\ watched /\ channel_ \in active
    /\ removeAndResetChannel /\ retry(channel_, connect_, timers)
    /\ assert(state_ = "kConnecting", "handleError: assert state_")
    /\ active' = active \ {channel_}
    /\ UNCHANGED <<connect_, gaveUp, functors, pc>>

(* handleWrite() without an error: the socket is handed over or closed.    *)
AttemptSucceeds(s) ==
    /\ pc = "poll" /\ watched /\ s = channel_ /\ s \in active /\ state_ = "kConnecting"
    /\ removeAndResetChannel /\ state_' = "kConnected"
    /\ sock' = [sock EXCEPT ![s] = IF connect_ THEN "handed" ELSE "closed"]
    /\ active' = active \ {s}
    /\ UNCHANGED <<connect_, clock, gaveUp>>

(* Functors that hold the bare this of the connector, among those queued.  *)
Has(q, op) == \E i \in DOMAIN q : q[i].op = op
Queued(op) == Has(pendingFunctors_, op) \/ Has(functors, op)
ConnectorQueued == \E op \in {"startInLoop", "stopInLoop", "resetChannel"} : Queued(op)

TimerFires_Bug ==
    /\ pc = "poll" /\ timers > young
    /\ startInLoop(connect_, timers)
    /\ UNCHANGED <<connect_, pendingFunctors_, functors, pc, active>>
TimerFires ==
    /\ pc = "poll" /\ timers > young
    /\ startInLoop(connect_, timers - 1)
    /\ UNCHANGED <<connect_, pendingFunctors_, functors, pc, active>>

start == connect_' = TRUE
stop == connect_' = FALSE
=============================================================================
