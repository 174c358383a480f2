------------------------------ MODULE EventLoop ------------------------------
(***************************************************************************)
(* muduo::net::EventLoop: one thread that polls, dispatches and runs the   *)
(* functors other threads (or its own callbacks) hand it, and the two      *)
(* things by which the others reach it: the vector pendingFunctors_ behind *)
(* mutex_, and the eventfd wakeupFd_ that poll(2) watches.                 *)
(*                                                                         *)
(* Grain.  Each critical section of the code touches pendingFunctors_ with *)
(* one statement, so it is one action.  The test and the wakeup() that     *)
(* follow it in queueInLoop(), and the wakeup() after quit_ = true in      *)
(* quit(), are steps of their own: other threads run in between.  The      *)
(* eventfd is abstracted to "its counter is not zero", all that poll(2)    *)
(* reports and a read resets.                                              *)
(*                                                                         *)
(* The bodies of callbacks and functors are user code: while one runs, the *)
(* loop thread may call queueInLoop(), runInLoop() and quit() in any order,*)
(* as often as it likes.  A functor that runInLoop() runs on the spot is   *)
(* part of the body it was called from.                                    *)
(***************************************************************************)
EXTENDS Sequences, Functions

CONSTANTS Jobs,             \* the functors, each handed over at most once
          Workers,          \* the threads other than the loop's
          Loop,             \* the thread that owns the loop
          Channels          \* the channels other than wakeupChannel_

ASSUME LoopAssumption == Loop \notin Workers

Threads == Workers \cup {Loop}

VARIABLES
    pc,                      \* where the loop thread is
    looping_, quit_, callingPendingFunctors_,
    activeChannels_,         \* the channels of this iteration still to handle
    pendingFunctors_,        \* guarded by mutex_
    functors,                \* doPendingFunctors's local vector, from i on
    wakeupFd_,               \* the eventfd counter is not zero
    call,                    \* per thread: inside a call, before wakeup()
    (***********************************************************************)
    (* History: where each functor was queued from, and what has run.      *)
    (***********************************************************************)
    origin,
    ran

vars == <<pc, looping_, quit_, callingPendingFunctors_, activeChannels_,
          pendingFunctors_, functors, wakeupFd_, call, origin, ran>>

wakeupChannel_ == "wakeupChannel"

(* "outside": the owner's code, before loop() or after it returned;        *)
(* "test": at while(!quit_); "poll": blocked in poll(2); "handle": between *)
(* two channels; "callback": in a handler; "flag", "swap", "functors": in  *)
(* doPendingFunctors, before the flag, before the swap, between two        *)
(* functors; "functor": in a functor.                                      *)
PCs == {"outside", "test", "poll", "handle", "callback",
        "flag", "swap", "functors", "functor"}

Origins == {"none", "outside", "callback", "functor", "direct", "worker"}

TypeOK ==
    /\ pc \in PCs
    /\ looping_ \in BOOLEAN /\ quit_ \in BOOLEAN
    /\ callingPendingFunctors_ \in BOOLEAN
    /\ activeChannels_ \subseteq (Channels \cup {wakeupChannel_})
    /\ pendingFunctors_ \in Seq(Jobs)
    /\ functors \in Seq(Jobs)
    /\ wakeupFd_ \in BOOLEAN
    /\ call \in [Threads -> {"none", "wakeup"}]
    /\ origin \in [Jobs -> Origins]
    /\ ran \in Seq(Jobs)

(* The constructor leaves callingPendingFunctors_ out of its initialiser   *)
(* list: until the first doPendingFunctors() it holds either value.        *)
Init ==
    /\ pc = "outside"
    /\ looping_ = FALSE /\ quit_ = FALSE
    /\ callingPendingFunctors_ \in BOOLEAN
    /\ activeChannels_ = {}
    /\ pendingFunctors_ = << >>
    /\ functors = << >>
    /\ wakeupFd_ = FALSE
    /\ call = [t \in Threads |-> "none"]
    /\ origin = [j \in Jobs |-> "none"]
    /\ ran = << >>

-----------------------------------------------------------------------------
(* Calls.  A worker is always free to make one; the loop thread makes them *)
(* from user code.                                                         *)

InUserCode == pc \in {"outside", "callback", "functor"}

isInLoopThread(t) == t = Loop

MayCall(t) == call[t] = "none" /\ (isInLoopThread(t) => InUserCode)

Where(t) == IF isInLoopThread(t) THEN pc ELSE "worker"

(* Names that end in _Bug are the definitions after them with one mistake  *)
(* put in; nothing uses them, they show that the properties notice.        *)
NeedsWakeup_Bug(t) == ~isInLoopThread(t)

(* Only the loop thread writes callingPendingFunctors_, and only the loop  *)
(* thread reads it here, so reading it with the push_back is sound.        *)
NeedsWakeup(t) == ~isInLoopThread(t) \/ callingPendingFunctors_

queueInLoop(t, j) ==
    /\ MayCall(t)
    /\ origin[j] = "none"
    /\ pendingFunctors_' = Append(pendingFunctors_, j)
    /\ origin' = [origin EXCEPT ![j] = Where(t)]
    /\ call' = [call EXCEPT ![t] = IF NeedsWakeup(t) THEN "wakeup" ELSE "none"]
    /\ UNCHANGED <<pc, looping_, quit_, callingPendingFunctors_,
                   activeChannels_, functors, wakeupFd_, ran>>

(* In a worker runInLoop(cb) is queueInLoop(cb); in the loop thread it is  *)
(* cb().                                                                   *)
runInLoop(j) ==
    /\ MayCall(Loop)
    /\ origin[j] = "none"
    /\ origin' = [origin EXCEPT ![j] = "direct"]
    /\ ran' = Append(ran, j)
    /\ UNCHANGED <<pc, looping_, quit_, callingPendingFunctors_, call,
                   activeChannels_, pendingFunctors_, functors, wakeupFd_>>

quit_Bug(t) ==
    /\ MayCall(t)
    /\ quit_' = TRUE
    /\ UNCHANGED <<pc, looping_, callingPendingFunctors_, activeChannels_, call,
                   pendingFunctors_, functors, wakeupFd_, origin, ran>>

quit(t) ==
    /\ MayCall(t)
    /\ quit_' = TRUE
    /\ call' = [call EXCEPT ![t] = IF isInLoopThread(t) THEN "none" ELSE "wakeup"]
    /\ UNCHANGED <<pc, looping_, callingPendingFunctors_, activeChannels_,
                   pendingFunctors_, functors, wakeupFd_, origin, ran>>

wakeup(t) ==
    /\ call[t] = "wakeup"
    /\ wakeupFd_' = TRUE
    /\ call' = [call EXCEPT ![t] = "none"]
    /\ UNCHANGED <<pc, looping_, quit_, callingPendingFunctors_,
                   activeChannels_, pendingFunctors_, functors, origin, ran>>

-----------------------------------------------------------------------------
(* loop().                                                                 *)

(* Calling loop(): also again after it returned, when quit_ is still TRUE. *)
EnterLoop ==
    /\ pc = "outside" /\ call[Loop] = "none"
    /\ pc' = "test"
    /\ looping_' = TRUE
    /\ UNCHANGED <<quit_, callingPendingFunctors_, activeChannels_, call,
                   pendingFunctors_, functors, wakeupFd_, origin, ran>>

TestQuit ==
    /\ pc = "test"
    /\ IF quit_
         THEN pc' = "outside" /\ looping_' = FALSE /\ UNCHANGED activeChannels_
         ELSE pc' = "poll" /\ activeChannels_' = {} /\ UNCHANGED looping_
    /\ UNCHANGED <<quit_, callingPendingFunctors_, pendingFunctors_,
                   functors, wakeupFd_, call, origin, ran>>

(* poll(2) returns with the channels that are ready.  The order in which   *)
(* the handlers run (that of pollfds_) is left open.                       *)
PollReturns(active) ==
    /\ pc = "poll"
    /\ pc' = "handle"
    /\ activeChannels_' = active
    /\ UNCHANGED <<looping_, quit_, callingPendingFunctors_, pendingFunctors_,
                   functors, wakeupFd_, call, origin, ran>>

Wakeable == IF wakeupFd_ THEN {wakeupChannel_} ELSE {}

PollWakeup == wakeupFd_ /\ \E io \in SUBSET Channels : PollReturns(io \cup Wakeable)

PollEvents == \E io \in SUBSET Channels \ {{}} : PollReturns(io \cup Wakeable)

(* kPollTimeMs passed, or a signal interrupted the call.                   *)
PollTimeout == ~wakeupFd_ /\ PollReturns({})

(* handleRead: the read resets the counter.                                *)
handleRead ==
    /\ pc = "handle" /\ wakeupChannel_ \in activeChannels_
    /\ wakeupFd_' = FALSE
    /\ activeChannels_' = activeChannels_ \ {wakeupChannel_}
    /\ UNCHANGED <<pc, looping_, quit_, callingPendingFunctors_,
                   pendingFunctors_, functors, call, origin, ran>>

HandleEvent(ch) ==
    /\ pc = "handle" /\ ch \in activeChannels_
    /\ pc' = "callback"
    /\ activeChannels_' = activeChannels_ \ {ch}
    /\ UNCHANGED <<looping_, quit_, callingPendingFunctors_, pendingFunctors_,
                   functors, wakeupFd_, call, origin, ran>>

(* User code returns, to the loop over activeChannels_ or over functors.   *)
Return ==
    /\ call[Loop] = "none"
    /\ \/ pc = "callback" /\ pc' = "handle"
       \/ pc = "functor" /\ pc' = "functors"
    /\ UNCHANGED <<looping_, quit_, callingPendingFunctors_, activeChannels_,
                   pendingFunctors_, functors, wakeupFd_, call, origin, ran>>

HandledAll ==
    /\ pc = "handle" /\ activeChannels_ = {}
    /\ pc' = "flag"
    /\ UNCHANGED <<looping_, quit_, callingPendingFunctors_, activeChannels_,
                   pendingFunctors_, functors, wakeupFd_, call, origin, ran>>

-----------------------------------------------------------------------------
(* doPendingFunctors().                                                    *)

SetCalling_Bug ==
    /\ pc = "flag"
    /\ pc' = "swap"
    /\ UNCHANGED <<looping_, quit_, callingPendingFunctors_, activeChannels_,
                   pendingFunctors_, functors, wakeupFd_, call, origin, ran>>

SetCalling ==
    /\ pc = "flag"
    /\ pc' = "swap"
    /\ callingPendingFunctors_' = TRUE
    /\ UNCHANGED <<looping_, quit_, activeChannels_, pendingFunctors_,
                   functors, wakeupFd_, call, origin, ran>>

SwapFunctors_CopyBug ==
    /\ pc = "swap"
    /\ pc' = "functors"
    /\ functors' = pendingFunctors_
    /\ UNCHANGED <<looping_, quit_, callingPendingFunctors_, activeChannels_,
                   pendingFunctors_, wakeupFd_, call, origin, ran>>

SwapFunctors ==
    /\ pc = "swap"
    /\ pc' = "functors"
    /\ functors' = pendingFunctors_
    /\ pendingFunctors_' = << >>
    /\ UNCHANGED <<looping_, quit_, callingPendingFunctors_, activeChannels_,
                   wakeupFd_, call, origin, ran>>

RunFunctor_Bug ==
    /\ pc = "functors" /\ functors # << >>
    /\ pc' = "functor"
    /\ ran' = Append(ran, functors[Len(functors)])
    /\ functors' = SubSeq(functors, 1, Len(functors) - 1)
    /\ UNCHANGED <<looping_, quit_, callingPendingFunctors_, activeChannels_,
                   pendingFunctors_, wakeupFd_, call, origin>>

RunFunctor ==
    /\ pc = "functors" /\ functors # << >>
    /\ pc' = "functor"
    /\ ran' = Append(ran, Head(functors))
    /\ functors' = Tail(functors)
    /\ UNCHANGED <<looping_, quit_, callingPendingFunctors_, activeChannels_,
                   pendingFunctors_, wakeupFd_, call, origin>>

ClearCalling ==
    /\ pc = "functors" /\ functors = << >>
    /\ pc' = "test"
    /\ callingPendingFunctors_' = FALSE
    /\ UNCHANGED <<looping_, quit_, activeChannels_, pendingFunctors_,
                   functors, wakeupFd_, call, origin, ran>>

-----------------------------------------------------------------------------

loop == \/ EnterLoop \/ TestQuit
        \/ PollWakeup \/ PollEvents \/ PollTimeout
        \/ handleRead
        \/ \E ch \in Channels : HandleEvent(ch)
        \/ Return \/ HandledAll

doPendingFunctors == SetCalling \/ SwapFunctors \/ RunFunctor \/ ClearCalling

Calls == \/ \E t \in Threads, j \in Jobs : queueInLoop(t, j)
         \/ \E j \in Jobs : runInLoop(j)
         \/ \E t \in Threads : quit(t)

Next == loop \/ doPendingFunctors \/ Calls \/ \E t \in Threads : wakeup(t)

Spec == Init /\ [][Next]_vars


(* Fairness: a thread that can take a step of its own is scheduled, and    *)
(* user code returns.  PollEvents and PollTimeout are not among the fair   *)
(* steps: I/O may never come, and what is promised below must not rest on  *)
(* the ten seconds after which poll(2) gives up.                           *)
Scheduled == \/ EnterLoop \/ TestQuit \/ PollWakeup \/ handleRead
             \/ \E ch \in Channels : HandleEvent(ch)
             \/ Return \/ HandledAll \/ doPendingFunctors

Fairness == /\ WF_vars(Scheduled)
            /\ \A t \in Threads : WF_vars(wakeup(t))

FairSpec == Spec /\ Fairness

-----------------------------------------------------------------------------
(* Properties.                                                             *)

WakeupOnItsWay == wakeupFd_ \/ \E t \in Threads : call[t] = "wakeup"

(* No lost wakeup (queueInLoop, quit, handleRead, doPendingFunctors): the  *)
(* loop blocks in poll(2) with neither the eventfd readable nor a thread   *)
(* about to write it only when quit() was not called and every functor in  *)
(* pendingFunctors_ was put there by the owner outside loop().  Those get  *)
(* no wakeup, the thread being the loop's and the flag not set: they wait  *)
(* for some other event, or for the timeout.                               *)
SleepsOnlyIfIdle ==
    pc = "poll" /\ ~WakeupOnItsWay
       => /\ ~quit_
          /\ \A i \in DOMAIN pendingFunctors_ :
                origin[pendingFunctors_[i]] = "outside"

(* The loop behaves as the abstract executor: the batch being run followed *)
(* by pendingFunctors_ is one first-in first-out queue, functors run one   *)
(* at a time and at most once (queueInLoop, runInLoop, doPendingFunctors). *)
TE == INSTANCE TaskExecutor WITH queue <- functors \o pendingFunctors_,
                                 stopped <- quit_
ImplementsTaskExecutor == TE!Spec

(* Hence no functor is run twice or lost between the two vectors: what has *)
(* run and what is queued never name the same functor twice.               *)
RunsAtMostOnce == TE!AtMostOnce

(* Without any timeout or I/O: a functor queued by another thread, or by a *)
(* callback or functor of the loop, is run unless quit() is called.        *)
RunsPromptly ==
    \A j \in Jobs :
       origin[j] \notin {"none", "outside"}
          ~> (quit_ \/ \E i \in DOMAIN ran : ran[i] = j)

(* If kPollTimeMs does pass, those queued before loop() are run too.       *)
RunsEventually == WF_vars(PollTimeout) => TE!RunsEventually
FunctorsRun == RunsPromptly /\ RunsEventually

(* quit() from any thread ends loop(), again without timeout or I/O.       *)
QuitEndsLoop == quit_ ~> ~looping_

=============================================================================
