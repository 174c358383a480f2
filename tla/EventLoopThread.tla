--------------------------- MODULE EventLoopThread ---------------------------
(***************************************************************************)
(* muduo::net::EventLoopThread: an EventLoop that lives on the stack of a  *)
(* thread of its own.  The thread publishes the address in loop_; its      *)
(* owner waits for that in startLoop(), and quits the loop and joins the   *)
(* thread in the destructor.  In between the owner, other threads and user *)
(* code in the loop use the pointer that startLoop() returned.             *)
(*                                                                         *)
(* The loop itself is that of the module EventLoop, kept to what decides   *)
(* when it returns: quit_, the eventfd and the functors queued.  The owner *)
(* is taken to keep other threads away from the loop before it destroys    *)
(* it, so that what is left is EventLoopThread's own business.             *)
(***************************************************************************)
EXTENDS Naturals

CONSTANTS Workers,   \* threads that the owner gives the loop to
          Owner,     \* the thread that has the EventLoopThread
          Quitters,  \* those who call loop->quit(): threads, or "callback"
          MaxJobs    \* bound on the functors waiting

LoopThreadAssumption == MaxJobs \in Nat

VARIABLES
    started_,     \* of thread_
    loop_,        \* guarded by mutex_: "NULL" or "loop"
    object,       \* the EventLoop: not yet constructed, alive, or gone
    quit_, wakeupFd_, pendingFunctors_,   \* of the EventLoop
    thread,       \* where threadFunc() is
    owner,        \* where the owner is
    call,         \* per user: inside a call, before wakeup()
    late,         \* history: uses of an EventLoop that does not exist;
    asked         \* somebody but the destructor has called quit()

quitting == <<quit_, asked>>
vars == <<started_, loop_, object, quitting, wakeupFd_, pendingFunctors_,
          thread, owner, call, late>>
eventLoop == <<object, quitting, wakeupFd_, pendingFunctors_>>

Users == Workers \cup {Owner}

TypeOK ==
    /\ loop_ \in {"NULL", "loop"}
    /\ object \in {"unborn", "alive", "gone"}
    /\ {quit_, asked, wakeupFd_} \subseteq BOOLEAN
    /\ pendingFunctors_ \in 0..MaxJobs
    /\ thread \in {"none", "construct", "callback", "publish", "enter", "test",
                   "poll", "functors", "returned"}
    /\ started_ = (thread # "none")
    /\ owner \in {"created", "starting", "waiting", "started", "quitting",
                  "joining", "done", "crashed"}
    /\ call \in [Users -> {"none", "wakeup"}]
    /\ late \subseteq {"quit", "queueInLoop", "wakeup", "~EventLoopThread"}

Init ==
    /\ started_ = FALSE /\ loop_ = "NULL" /\ object = "unborn"
    /\ quit_ = FALSE /\ wakeupFd_ = FALSE /\ pendingFunctors_ = 0
    /\ thread = "none" /\ owner = "created"
    /\ call = [u \in Users |-> "none"]
    /\ late = {} /\ asked = FALSE

(* A use of the EventLoop from outside its own thread.                     *)
Touch(use) == late' = IF object = "alive" THEN late ELSE late \cup {use}

-----------------------------------------------------------------------------
(* The thread.                                                             *)

Construct ==
    /\ thread = "construct"
    /\ thread' = "callback" /\ object' = "alive"
    /\ UNCHANGED <<started_, loop_, quitting, wakeupFd_, pendingFunctors_, owner,
                   call, late>>

(* User code in the loop's thread may call quit().                         *)
MayQuit == \/ UNCHANGED quitting
           \/ "callback" \in Quitters /\ quit_' = TRUE /\ asked' = TRUE

(* callback_(&loop): user code, which may use the loop it is given.        *)
Callback ==
    /\ thread = "callback" /\ thread' = "publish"
    /\ MayQuit
    /\ pendingFunctors_' \in pendingFunctors_..MaxJobs
    /\ UNCHANGED <<started_, loop_, object, wakeupFd_, owner, call, late>>

(* cond_.notify() under the lock: the waiting owner becomes ready to test. *)
notify == owner' = IF owner = "waiting" THEN "starting" ELSE owner

Publish ==
    /\ thread = "publish" /\ thread' = "enter"
    /\ loop_' = "loop" /\ notify
    /\ UNCHANGED <<started_, eventLoop, call, late>>

(* EventLoop::loop() does not reset quit_, so a quit() that came before it *)
(* counts.                                                                 *)
EnterLoop ==
    /\ thread = "enter" /\ thread' = "test"
    /\ UNCHANGED <<started_, loop_, eventLoop, owner, call, late>>

(* When loop() returns, threadFunc() does, and the EventLoop is gone.      *)
TestQuit ==
    /\ thread = "test"
    /\ IF quit_ THEN thread' = "returned" /\ object' = "gone"
                ELSE thread' = "poll" /\ UNCHANGED object
    /\ UNCHANGED <<started_, loop_, quitting, wakeupFd_, pendingFunctors_, owner,
                   call, late>>

Poll ==
    /\ thread = "poll" /\ thread' = "functors" /\ wakeupFd_' = FALSE
    /\ UNCHANGED <<started_, loop_, object, quitting, pendingFunctors_, owner,
                   call, late>>
PollWakeup == wakeupFd_ /\ Poll
PollTimeout == ~wakeupFd_ /\ Poll

(* The functors of a round; as user code they may call quit().             *)
DoPendingFunctors ==
    /\ thread = "functors" /\ thread' = "test" /\ pendingFunctors_' = 0
    /\ IF pendingFunctors_ > 0 THEN MayQuit ELSE UNCHANGED quitting
    /\ UNCHANGED <<started_, loop_, object, wakeupFd_, owner, call, late>>

-----------------------------------------------------------------------------
(* The owner, and those it lends the loop to.                              *)

startLoop ==
    /\ owner = "created" /\ ~started_
    /\ started_' = TRUE /\ thread' = "construct" /\ owner' = "starting"
    /\ UNCHANGED <<loop_, eventLoop, call, late>>

AwaitLoop_Bug ==
    /\ owner = "starting" /\ owner' = "started"
    /\ UNCHANGED <<started_, loop_, eventLoop, thread, call, late>>
(* while(loop_ == NULL) cond_.wait(), each time round under the lock.      *)
AwaitLoop ==
    /\ owner = "starting"
    /\ owner' = IF loop_ = "NULL" THEN "waiting" ELSE "started"
    /\ UNCHANGED <<started_, loop_, eventLoop, thread, call, late>>

(* wait() may return for no reason: the condition is tested again.         *)
SpuriousWakeup ==
    /\ owner = "waiting" /\ owner' = "starting"
    /\ UNCHANGED <<started_, loop_, eventLoop, thread, call, late>>

MayCall(u) == owner = "started" /\ call[u] = "none"

queueInLoop(u) ==
    /\ MayCall(u) /\ pendingFunctors_ < MaxJobs
    /\ pendingFunctors_' = pendingFunctors_ + 1
    /\ call' = [call EXCEPT ![u] = "wakeup"]
    /\ Touch("queueInLoop")
    /\ UNCHANGED <<started_, loop_, object, quitting, wakeupFd_, thread, owner>>

quit(u) ==
    /\ MayCall(u) /\ u \in Quitters
    /\ quit_' = TRUE /\ asked' = TRUE /\ call' = [call EXCEPT ![u] = "wakeup"]
    /\ Touch("quit")
    /\ UNCHANGED <<started_, loop_, object, wakeupFd_, pendingFunctors_, thread,
                   owner>>

wakeup(u) ==
    /\ call[u] = "wakeup" /\ call' = [call EXCEPT ![u] = "none"]
    /\ wakeupFd_' = TRUE
    /\ Touch("wakeup")
    /\ UNCHANGED <<started_, loop_, object, quitting, pendingFunctors_, thread,
                   owner>>

(* The owner destroys the object when nobody else uses the loop any more.  *)
MayDestroy == /\ owner \in {"created", "started"}
              /\ \A u \in Users : call[u] = "none"

(* ~EventLoopThread: loop_->quit(), whatever loop_ points to ...           *)
Destroy ==
    /\ MayDestroy
    /\ Touch("~EventLoopThread")
    /\ IF loop_ = "NULL" THEN owner' = "crashed" /\ UNCHANGED quitting
                         ELSE owner' = "quitting" /\ quit_' = TRUE /\ UNCHANGED asked
    /\ UNCHANGED <<started_, loop_, object, wakeupFd_, pendingFunctors_, thread,
                   call>>

(* ... which ends with a wakeup() ...                                      *)
DestroyWakeup ==
    /\ owner = "quitting" /\ owner' = "joining"
    /\ wakeupFd_' = TRUE
    /\ Touch("wakeup")
    /\ UNCHANGED <<started_, loop_, object, quitting, pendingFunctors_, thread, call>>

(* ... and thread_.join().                                                 *)
Join ==
    /\ owner = "joining" /\ thread = "returned" /\ owner' = "done"
    /\ UNCHANGED <<started_, loop_, eventLoop, thread, call, late>>

-----------------------------------------------------------------------------
threadFunc == \/ Construct \/ Callback \/ Publish \/ EnterLoop \/ TestQuit
              \/ PollWakeup \/ DoPendingFunctors

OwnerSteps == AwaitLoop \/ DestroyWakeup \/ Join

Next == \/ threadFunc \/ PollTimeout
        \/ startLoop \/ SpuriousWakeup \/ Destroy \/ OwnerSteps
        \/ \E u \in Users : queueInLoop(u) \/ quit(u) \/ wakeup(u)

(* Both threads are scheduled; poll(2) is never assumed to time out, and   *)
(* nobody has to call anything.                                            *)
Fairness == /\ WF_vars(threadFunc) /\ WF_vars(OwnerSteps)
            /\ \A u \in Users : WF_vars(wakeup(u))

Spec == Init /\ [][Next]_vars /\ Fairness

-----------------------------------------------------------------------------
(* startLoop() returns a loop that is there to be used, until someone has  *)
(* told it to quit: the owner never gets a loop that is not constructed or *)
(* not published.                                                          *)
StartFindsLoop ==
    owner = "started" => loop_ = "loop" /\ (object = "alive" \/ quit_)

(* When only the destructor calls quit(), the one use of the EventLoop     *)
(* that can come too late is that quit()'s own wakeup(): quit_ is already  *)
(* set, and a poll(2) that returns by itself lets the loop end first.      *)
OnlyWakeupIsLate ==
    ~asked /\ owner # "crashed" => late \subseteq {"wakeup"}

(* startLoop() returns: the notification of threadFunc() is not lost,      *)
(* whichever of the two threads gets to the mutex first.                   *)
StartReturns == owner = "starting" ~> owner = "started"

(* The destructor gets through its join() without an event or poll's       *)
(* timeout, however early it comes, even before the thread enters loop().  *)
DestructorReturns == owner = "quitting" ~> owner = "done"

(* Once quit() has been called, by whoever and however early, the thread   *)
(* ends without waiting for an event or for poll's timeout.                *)
QuitEndsThread == quit_ ~> thread = "returned"
=============================================================================
