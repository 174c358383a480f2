----------------------------- MODULE TimerQueue -----------------------------
(***************************************************************************)
(* muduo::net::TimerQueue: the timers of one loop, kept in two sets (by    *)
(* time, and by identity) and driven by one timerfd.  Timers may be added  *)
(* and cancelled from any thread, from the loop's callbacks, and from the  *)
(* callback of a timer, its own included.                                  *)
(*                                                                         *)
(* Time.  One tick stands for the 100 microseconds that are the least      *)
(* timerfd_settime is asked for.  All times are kept relative to the       *)
(* present, as the number of ticks still to go, and 0 is "now or earlier": *)
(* time then passes for ever in a finite state space.  What is lost is the *)
(* order among timers that are due together, so a batch runs in any order. *)
(* Expirations are read off gettimeofday and the timerfd runs on           *)
(* CLOCK_MONOTONIC: the former may be set (SetBack, SetForward), not the   *)
(* latter.                                                                 *)
(*                                                                         *)
(* Memory.  A Timer is allocated at an address that was free and may be    *)
(* allocated again once deleted, which is why a TimerId carries a sequence *)
(* number next to the pointer.                                             *)
(***************************************************************************)
EXTENDS Integers, Sequences, FiniteSetsExt, Functions

CONSTANTS Addresses,        \* where Timers can be allocated
          MaxSequence,      \* bound: Timers created in a behaviour
          Delays,           \* of addTimer's `when', from the call
          Intervals,        \* 0 for a timer that does not repeat
          MaxAdjusts,       \* bound: how often the clock is set, by a tick
          Workers           \* the threads other than the loop's

ASSUME TimeAssumption == /\ MaxSequence \in Nat /\ MaxAdjusts \in Nat
                         /\ Delays \subseteq Nat /\ IsFiniteSet(Delays)
                         /\ Intervals \subseteq Nat /\ IsFiniteSet(Intervals)

Free == [sequence |-> 0]
None == << >>
Disarmed == 0                \* an it_value of 0 disarms a timerfd

VARIABLES
    heap,                    \* address -> Timer, or Free
    numCreated_,             \* Timer::s_numCreated_
    timers_, activeTimers_,  \* the two sets
    callingExpiredTimers_, cancelingTimers_,
    expired,                 \* handleRead's batch, and the part not yet run
    toRun,
    elapsed,                 \* since handleRead took its `now'
    pc,                      \* of the loop: "idle", "run", "callback"
    alarm,                   \* ticks until the timerfd expires, or Disarmed
    readable,                \* the timerfd has expired and was not read
    ahead,                   \* history: ticks the clock was set forward since
                             \* the timerfd was armed
    reported,                \* poll(2) returned with timerfdChannel_
    pendingFunctors_,        \* of the EventLoop: additions, cancellations
    returning,               \* per worker: addTimer before its return
    ids,                     \* the TimerIds that addTimer has returned
    (***********************************************************************)
    (* History: the sequence numbers of timers that ran, and of timers     *)
    (* cancelled by a cancelInLoop() that found them, active or running.   *)
    (***********************************************************************)
    ran, cancelled,
    adjusts                  \* how often the clock was set

sets == <<timers_, activeTimers_>>
batch == <<callingExpiredTimers_, expired, toRun, elapsed, pc>>
timerfd == <<alarm, readable, ahead>>
vars == <<heap, numCreated_, sets, batch, cancelingTimers_, timerfd, reported,
          pendingFunctors_, returning, ids, ran, cancelled, adjusts>>

Sequence == 1 .. MaxSequence
Horizon == Max(Delays \cup Intervals \cup {1}) + MaxAdjusts
Ticks == 0 .. Horizon
TimerIds == Addresses \X (0 .. MaxSequence)
Timer == [sequence : Sequence, expiration : Ticks, interval : Intervals]

Functors == [op : {"add"}, timer : Addresses] \cup [op : {"cancel"}, id : TimerIds]

TypeOK ==
    /\ heap \in [Addresses -> Timer \cup {Free}]
    /\ numCreated_ \in 0 .. MaxSequence
    /\ timers_ \subseteq (Ticks \X Addresses)
    /\ activeTimers_ \subseteq TimerIds
    /\ callingExpiredTimers_ \in BOOLEAN
    /\ cancelingTimers_ \subseteq TimerIds
    /\ expired \subseteq Addresses /\ toRun \subseteq expired
    /\ elapsed \in -MaxAdjusts .. Horizon
    /\ pc \in {"idle", "run", "callback"}
    /\ alarm \in Ticks /\ readable \in BOOLEAN /\ ahead \in 0 .. MaxAdjusts
    /\ reported \in BOOLEAN
    /\ pendingFunctors_ \in Seq(Functors)
    /\ returning \in [Workers -> TimerIds \cup {None}]
    /\ ids \subseteq TimerIds
    /\ ran \subseteq Sequence /\ cancelled \subseteq Sequence
    /\ adjusts \in 0 .. MaxAdjusts

Init ==
    /\ heap = [a \in Addresses |-> Free]
    /\ numCreated_ = 0
    /\ timers_ = {} /\ activeTimers_ = {}
    /\ callingExpiredTimers_ = FALSE /\ cancelingTimers_ = {}
    /\ expired = {} /\ toRun = {} /\ elapsed = 0
    /\ pc = "idle"
    /\ alarm = Disarmed /\ readable = FALSE /\ ahead = 0 /\ reported = FALSE
    /\ pendingFunctors_ = << >>
    /\ returning = [w \in Workers |-> None]
    /\ ids = {} /\ ran = {} /\ cancelled = {} /\ adjusts = 0

-----------------------------------------------------------------------------

(* Ticks still to go, d ticks later.                                       *)
Minus(n, d) == IF n <= d THEN 0 ELSE n - d

Earliest(entries) == Min({entry[1] : entry \in entries})

(* resetTimerFd: not earlier than one tick from now; expirations not yet   *)
(* read are forgotten.                                                     *)
resetTimerFd(when) ==
    /\ alarm' = Max({when, 1})
    /\ readable' = FALSE /\ ahead' = 0

(* insert, for the Timer at a with the sequence and expiration given.      *)
EarliestChanged(when) == timers_ = {} \/ when < Earliest(timers_)

insert(a, seq, when) ==
    /\ timers_' = timers_ \cup {<<when, a>>}
    /\ activeTimers_' = activeTimers_ \cup {<<a, seq>>}

(* new Timer(cb, when, interval).                                          *)
NewTimer(a, delay, interval) ==
    /\ heap[a] = Free /\ numCreated_ < MaxSequence
    /\ numCreated_' = numCreated_ + 1
    /\ heap' = [heap EXCEPT ![a] = [sequence |-> numCreated_ + 1,
                                    expiration |-> delay,
                                    interval |-> interval]]

addTimerInLoop(a, seq, when) ==
    /\ insert(a, seq, when)
    /\ IF EarliestChanged(when) THEN resetTimerFd(when) ELSE UNCHANGED timerfd

Found(id) == id \in activeTimers_

(* Names that end in _Bug are the definitions after them with one mistake  *)
(* put in; nothing uses them, they show that the properties notice.        *)
erase_Bug(id) == /\ activeTimers_' = activeTimers_ \ {id}
                 /\ UNCHANGED timers_

erase(id) == /\ timers_' = timers_ \ {<<heap[id[1]].expiration, id[1]>>}
             /\ activeTimers_' = activeTimers_ \ {id}

(* A timer that is in the sets is deleted at once; one being run is kept   *)
(* from being inserted again; any other is not known.                      *)
cancelInLoop(id) ==
    LET a == id[1]
    IN  /\ IF Found(id)
             THEN /\ erase(id)
                  /\ heap' = [heap EXCEPT ![a] = Free]
                  /\ UNCHANGED cancelingTimers_
             ELSE /\ cancelingTimers_' = IF callingExpiredTimers_
                                           THEN cancelingTimers_ \cup {id}
                                           ELSE cancelingTimers_
                  /\ UNCHANGED <<sets, heap>>
        /\ cancelled' = IF \/ id \in activeTimers_
                           \/ a \in expired /\ heap[a].sequence = id[2]
                         THEN cancelled \cup {id[2]} ELSE cancelled

-----------------------------------------------------------------------------
(* Calls.  In the loop's thread they come from the callbacks of timers and *)
(* from everything else it runs, and take effect at once.                  *)

InUserCode == pc \in {"idle", "callback"}

addTimer(a, delay, interval) ==
    /\ InUserCode
    /\ NewTimer(a, delay, interval)
    /\ addTimerInLoop(a, numCreated_ + 1, delay)
    /\ ids' = ids \cup {<<a, numCreated_ + 1>>}
    /\ UNCHANGED <<batch, cancelingTimers_, reported, pendingFunctors_,
                   returning, ran, cancelled>>

(* In another thread addTimerInLoop is queued, ...                         *)
addTimerFrom(w, a, delay, interval) ==
    /\ returning[w] = None
    /\ NewTimer(a, delay, interval)
    /\ pendingFunctors_' = Append(pendingFunctors_, [op |-> "add", timer |-> a])
    /\ returning' = [returning EXCEPT ![w] = <<a, numCreated_ + 1>>]
    /\ UNCHANGED <<sets, batch, cancelingTimers_, timerfd, reported, ids,
                   ran, cancelled>>

(* ... and only then is the sequence number read from the Timer.  By then  *)
(* the loop may have run and deleted it: what is read is whatever the      *)
(* memory holds.                                                           *)
ReturnTimerId(w) ==
    /\ returning[w] # None
    /\ LET a == returning[w][1]
       IN  \E seq \in IF heap[a] = Free THEN 0 .. MaxSequence ELSE {heap[a].sequence} :
              ids' = ids \cup {<<a, seq>>}
    /\ returning' = [returning EXCEPT ![w] = None]
    /\ UNCHANGED <<heap, numCreated_, sets, batch, cancelingTimers_, timerfd,
                   reported, pendingFunctors_, ran, cancelled>>

cancel(id) ==
    /\ InUserCode
    /\ cancelInLoop(id)
    /\ UNCHANGED <<numCreated_, batch, timerfd, reported, pendingFunctors_,
                   returning, ids, ran>>

(* MaxPending bounds the queue: cancellations can be asked for again and   *)
(* again.                                                                  *)
MaxPending == 2

cancelFrom(w, id) ==
    /\ returning[w] = None
    /\ Len(pendingFunctors_) < MaxPending
    /\ pendingFunctors_' = Append(pendingFunctors_, [op |-> "cancel", id |-> id])
    /\ UNCHANGED <<heap, numCreated_, sets, batch, cancelingTimers_, timerfd,
                   reported, returning, ids, ran, cancelled>>

(* doPendingFunctors, one functor at a time.                               *)
RunFunctor ==
    /\ pc = "idle" /\ pendingFunctors_ # << >>
    /\ LET functor == Head(pendingFunctors_)
       IN  \/ /\ functor.op = "add"
              /\ LET timer == heap[functor.timer]
                 IN  addTimerInLoop(functor.timer, timer.sequence, timer.expiration)
              /\ UNCHANGED <<heap, cancelingTimers_, cancelled>>
           \/ /\ functor.op = "cancel"
              /\ cancelInLoop(functor.id)
              /\ UNCHANGED timerfd
    /\ pendingFunctors_' = Tail(pendingFunctors_)
    /\ UNCHANGED <<numCreated_, batch, reported, returning, ids, ran>>

-----------------------------------------------------------------------------
(* Time, poll(2) and handleRead().                                         *)

(* A tick of gettimeofday.                                                 *)
Later ==
    /\ heap' = [a \in Addresses |->
                  IF heap[a] = Free THEN Free
                  ELSE [heap[a] EXCEPT !.expiration = Minus(@, 1)]]
    /\ timers_' = {<<Minus(entry[1], 1), entry[2]>> : entry \in timers_}
    /\ elapsed' = IF pc = "idle" THEN 0 ELSE Min({elapsed + 1, Horizon})
    /\ UNCHANGED <<numCreated_, activeTimers_, callingExpiredTimers_, expired,
                   toRun, pc, cancelingTimers_, reported, pendingFunctors_,
                   returning, ids, ran, cancelled>>

(* Time passes on both clocks.                                             *)
Tick ==
    /\ Later
    /\ readable' = (readable \/ alarm = 1)
    /\ alarm' = Minus(alarm, 1)
    /\ UNCHANGED ahead

(* gettimeofday goes forward by a tick, the timerfd's clock does not.      *)
SetForward ==
    /\ adjusts < MaxAdjusts /\ adjusts' = adjusts + 1
    /\ Later
    /\ ahead' = ahead + 1
    /\ UNCHANGED <<alarm, readable>>

(* gettimeofday goes back by a tick, and the expirations, the ones of the  *)
(* batch included, are that much further away: all but those of timers     *)
(* overdue already.                                                        *)
SetBack(overdue) ==
    LET back(a) == IF a \in overdue THEN 0 ELSE heap[a].expiration + 1
    IN  /\ adjusts < MaxAdjusts /\ adjusts' = adjusts + 1
        /\ \A a \in overdue : heap[a] # Free /\ heap[a].expiration = 0
        /\ heap' = [a \in Addresses |-> IF heap[a] = Free THEN Free
                                        ELSE [heap[a] EXCEPT !.expiration = back(a)]]
        /\ timers_' = {<<back(entry[2]), entry[2]>> : entry \in timers_}
        /\ elapsed' = IF pc = "idle" THEN 0 ELSE elapsed - 1
        /\ UNCHANGED <<numCreated_, activeTimers_, callingExpiredTimers_, expired,
                       toRun, pc, cancelingTimers_, timerfd, reported,
                       pendingFunctors_, returning, ids, ran, cancelled>>

Poll ==
    /\ pc = "idle" /\ readable /\ ~reported
    /\ reported' = TRUE
    /\ UNCHANGED <<heap, numCreated_, sets, batch, cancelingTimers_, timerfd,
                   pendingFunctors_, returning, ids, ran, cancelled>>

(* Up to the loop over the batch.  Other handlers may have re-armed the    *)
(* timerfd since poll(2) returned: then the read fails, and the rest goes  *)
(* on all the same.                                                        *)
handleRead ==
    /\ pc = "idle" /\ reported
    /\ reported' = FALSE /\ readable' = FALSE
    /\ LET due == {entry \in timers_ : entry[1] = 0}
           batch_ == {entry[2] : entry \in due}
       IN  /\ expired' = batch_ /\ toRun' = batch_
           /\ timers_' = timers_ \ due
           /\ activeTimers_' = activeTimers_ \ {<<a, heap[a].sequence>> : a \in batch_}
    /\ callingExpiredTimers_' = TRUE /\ cancelingTimers_' = {}
    /\ elapsed' = 0
    /\ pc' = "run"
    /\ UNCHANGED <<heap, numCreated_, alarm, ahead, pendingFunctors_, returning,
                   ids, ran, cancelled>>

RunTimer(a) ==
    /\ pc = "run" /\ a \in toRun
    /\ toRun' = toRun \ {a}
    /\ ran' = ran \cup {heap[a].sequence}
    /\ pc' = "callback"
    /\ UNCHANGED <<heap, numCreated_, sets, callingExpiredTimers_, expired,
                   elapsed, cancelingTimers_, timerfd, reported,
                   pendingFunctors_, returning, ids, cancelled>>

CallbackReturns ==
    /\ pc = "callback"
    /\ pc' = "run"
    /\ UNCHANGED <<heap, numCreated_, sets, callingExpiredTimers_, expired,
                   toRun, elapsed, cancelingTimers_, timerfd, reported,
                   pendingFunctors_, returning, ids, ran, cancelled>>

(* The timers of the batch that repeat and were not cancelled meanwhile    *)
(* are restarted, from the time handleRead began; the others are deleted.  *)
Again_Bug == {a \in expired : heap[a].interval > 0}

Again == {a \in expired : /\ heap[a].interval > 0
                          /\ <<a, heap[a].sequence>> \notin cancelingTimers_}

Deleted_Bug == {}
Deleted == expired \ Again

Rearm_Bug(entries) == UNCHANGED timerfd
Rearm_EmptyBug(entries) == IF entries # {} /\ expired # {}
                           THEN resetTimerFd(Earliest(entries)) ELSE UNCHANGED timerfd
Rearm(entries) == IF entries # {} THEN resetTimerFd(Earliest(entries))
                  ELSE UNCHANGED timerfd

reset ==
    /\ pc = "run" /\ toRun = {}
    /\ LET next(a) == Minus(heap[a].interval, elapsed)
       IN  /\ heap' = [a \in Addresses |->
                         CASE a \in Again -> [heap[a] EXCEPT !.expiration = next(a)]
                           [] a \in Deleted -> Free
                           [] OTHER -> heap[a]]
           /\ timers_' = timers_ \cup {<<next(a), a>> : a \in Again}
           /\ activeTimers_' = activeTimers_ \cup {<<a, heap[a].sequence>> : a \in Again}
    /\ Rearm(timers_')
    /\ callingExpiredTimers_' = FALSE
    /\ expired' = {} /\ elapsed' = 0
    /\ pc' = "idle"
    /\ UNCHANGED <<numCreated_, toRun, cancelingTimers_, reported,
                   pendingFunctors_, returning, ids, ran, cancelled>>

-----------------------------------------------------------------------------

Calls ==
    \/ \E a \in Addresses, delay \in Delays, interval \in Intervals :
          \/ addTimer(a, delay, interval)
          \/ \E w \in Workers : addTimerFrom(w, a, delay, interval)
    \/ \E id \in ids : cancel(id) \/ \E w \in Workers : cancelFrom(w, id)
    \/ \E w \in Workers : ReturnTimerId(w)

Loop == \/ RunFunctor \/ Poll \/ handleRead
        \/ \E a \in Addresses : RunTimer(a)
        \/ CallbackReturns \/ reset

Steady(step) == step /\ UNCHANGED adjusts

Next == \/ Steady(Calls \/ Loop \/ Tick)
        \/ SetForward
        \/ \E overdue \in SUBSET Addresses : SetBack(overdue)

Spec == Init /\ [][Next]_vars

(* Fairness: time passes, callbacks return, and each round of the loop     *)
(* both handles what poll(2) reported and runs the functors queued: neither*)
(* keeps the other waiting.                                                *)
Handling == \/ handleRead \/ (\E a \in Addresses : RunTimer(a))
            \/ CallbackReturns \/ reset

FairSpec == /\ Spec
            /\ WF_vars(Steady(Tick)) /\ WF_vars(Steady(Poll))
            /\ WF_vars(Steady(Handling)) /\ WF_vars(Steady(RunFunctor))

-----------------------------------------------------------------------------
(* Properties.                                                             *)

Active == {id[1] : id \in activeTimers_}

QueuedToAdd == {functor.timer : functor \in
                   {f \in Range(pendingFunctors_) : f.op = "add"}}

(* timers_ and activeTimers_ name the same timers, each where its Timer    *)
(* says it is: insert, cancelInLoop, getExpired and reset touch both, the  *)
(* assertions compare only their sizes.                                    *)
SetsAgree ==
    /\ \A id \in activeTimers_ : heap[id[1]] # Free /\ heap[id[1]].sequence = id[2]
    /\ timers_ = {<<heap[a].expiration, a>> : a \in Active}

(* Every Timer allocated is in exactly one place: waiting to be added, in  *)
(* the sets, or in the batch being run.  So none leaks, and handleRead     *)
(* never runs or restarts one that a callback of the batch deleted.        *)
OneOwner ==
    /\ {a \in Addresses : heap[a] # Free} = Active \cup expired \cup QueuedToAdd
    /\ Active \cap expired = {}
    /\ QueuedToAdd \cap (Active \cup expired) = {}

(* Whenever timers wait and the loop is not handling the timerfd, an alarm *)
(* is due no later than the earliest of them (or in one tick, the least    *)
(* that can be asked for), or has gone off: no addition, cancellation or   *)
(* batch leaves the queue without one, nor does a batch that is empty      *)
(* because the clock was set back.  A clock that was set forward since the *)
(* timerfd was armed makes the alarm late, by no more than that.           *)
AlarmSet ==
    pc = "idle" /\ timers_ # {} /\ ~readable /\ ~reported
       => alarm # Disarmed /\ alarm <= Max({Earliest(timers_) + ahead, 1})

(* A timer whose cancellation found it, even from its own callback, is not *)
(* put back: reset honours cancelingTimers_.                               *)
CancelledStaysOut == \A id \in activeTimers_ : id[2] \notin cancelled

(* A timer in the queue, repeating ones included, comes up in a batch,     *)
(* unless it is cancelled.                                                 *)
Fires ==
    \A s \in Sequence :
       (\E id \in activeTimers_ : id[2] = s)
          ~> (s \in cancelled \/ \E a \in expired : heap[a].sequence = s)

=============================================================================
