------------------------------ MODULE MCThreads ------------------------------
(***************************************************************************)
(* The classes with which threads wait for one another, each by itself: a  *)
(* behaviour is one of the subject's, and the state of the others does not *)
(* change.  All of them run on the same threads and the same monitor.      *)
(***************************************************************************)
EXTENDS Naturals, FiniteSets

CONSTANTS Left, Right,       \* threads on either side; all but Owner
          Owner,             \* of the pool and of the loop's thread
          Items, Stops,      \* of the bounded queue
          Capacity,
          Elements,          \* of the queue without a bound
          Count, MaxCalls,   \* of the latch
          Tasks,             \* of the pool
          Quitters, MaxJobs  \* of the loop's thread

Threads == Left \cup Right \cup {Owner}
Conditions == {"notEmpty_", "notFull_", "condition_", "cond_"}

VARIABLES subject, mutex_, holder_, waiters, woken,
          pc, arg,                                     \* of the queues and the latch
          queue_, got, came, ring_, unput, taken, put,
          count_, calls,
          tasks_, running_, poolPc, task, given, ran,
          started_, loop_, object, quit_, wakeupFd_, pendingFunctors_, thread,
          owner, call, late, asked

monitor == <<mutex_, holder_, waiters, woken>>
queues == <<arg, queue_, got, came, ring_, unput, taken, put>>
latch == <<count_, calls>>
pool == <<tasks_, running_, poolPc, task, given, ran>>
loopThread == <<started_, loop_, object, quit_, wakeupFd_, pendingFunctors_, thread,
                owner, call, late, asked>>
vars == <<subject, monitor, pc, queues, latch, pool, loopThread>>

Bounded == INSTANCE BoundedBlockingQueue
           WITH Producers <- Left, Consumers <- Right, queue_ <- ring_, got <- taken, came <- put
Blocking == INSTANCE BlockingQueue
            WITH Producers <- Left, Consumers <- Right, Items <- Elements
Latch == INSTANCE CountDownLatch
         WITH Waiters <- Left, Counters <- Right
Pool == INSTANCE ThreadPool
        WITH Workers <- Left, Callers <- Right, queue_ <- tasks_, pc <- poolPc
LoopThread == INSTANCE EventLoopThread WITH Workers <- Left

(* The threads are as the theorems take them to be: on one side each.      *)
ASSUME ThreadsAssumption ==
    /\ Bounded!QueueAssumption /\ Blocking!QueueAssumption
    /\ Latch!LatchAssumption /\ Pool!PoolAssumption /\ LoopThread!LoopThreadAssumption

Init ==
    /\ subject \in {"BoundedBlockingQueue", "BlockingQueue", "CountDownLatch",
                    "ThreadPool", "EventLoopThread"}
    /\ Bounded!Init /\ Blocking!Init /\ Latch!Init /\ Pool!Init /\ LoopThread!Init

(* What is left alone by a step of each subject.                           *)
BoundedOnly == /\ subject = "BoundedBlockingQueue"
               /\ UNCHANGED <<subject, queue_, got, came, latch, pool, loopThread>>
BlockingOnly == /\ subject = "BlockingQueue"
                /\ UNCHANGED <<subject, ring_, unput, taken, put, latch, pool, loopThread>>
LatchOnly == /\ subject = "CountDownLatch"
             /\ UNCHANGED <<subject, queues, pool, loopThread>>
PoolOnly == /\ subject = "ThreadPool"
            /\ UNCHANGED <<subject, pc, queues, latch, loopThread>>
LoopThreadOnly == /\ subject = "EventLoopThread"
                  /\ UNCHANGED <<subject, monitor, pc, queues, latch, pool>>

(* The steps of a thread that has to be scheduled.                         *)
Step(t) ==
    \/ BoundedOnly /\ Bounded!Step(t)
    \/ BlockingOnly /\ Blocking!Step(t)
    \/ LatchOnly /\ Latch!Step(t)
    \/ PoolOnly /\ t \in Left /\ Pool!WorkerStep(t)

Next ==
    \/ BoundedOnly /\ Bounded!Next
    \/ BlockingOnly /\ Blocking!Next
    \/ LatchOnly /\ Latch!Next
    \/ PoolOnly /\ Pool!Next
    \/ LoopThreadOnly /\ LoopThread!Next

(* The fairness of the modules.                                            *)
Spec ==
    /\ Init /\ [][Next]_vars
    /\ \A t \in Left \cup Right : SF_vars(Step(t))
    /\ WF_vars(PoolOnly /\ Pool!StopSteps)
    /\ \A c \in Right : WF_vars(PoolOnly /\ Pool!RunReturns(c))
    /\ WF_vars(LoopThreadOnly /\ LoopThread!threadFunc)
    /\ WF_vars(LoopThreadOnly /\ LoopThread!OwnerSteps)
    /\ \A u \in Left \cup {Owner} : WF_vars(LoopThreadOnly /\ LoopThread!wakeup(u))

-----------------------------------------------------------------------------
(* The types of each.                                                      *)
TypeOK ==
    /\ subject = "BoundedBlockingQueue" => Bounded!TypeOK
    /\ subject = "BlockingQueue" => Blocking!TypeOK
    /\ subject = "CountDownLatch" => Latch!TypeOK
    /\ subject = "ThreadPool" => Pool!TypeOK
    /\ LoopThread!TypeOK

(* BlockingQueue.h:22-38, BoundedBlockingQueue.h:21-45: no notification is *)
(* lost, to consumers of either queue and to producers of the bounded one. *)
NoLostNotification ==
    /\ Bounded!NoSleepingConsumer /\ Bounded!NoSleepingProducer
    /\ Blocking!NoSleepingConsumer

(* CountDownLatch.cc:11-28, ThreadPool.cc:33-90, EventLoopThread.cc:20-54: *)
(* a thread goes on when what it waits for is there, and not before: the   *)
(* count is down, the loop constructed; a task runs once, though never in  *)
(* the pool's threads, and only a wakeup() can come late to a loop.        *)
GoesOnWhenDue ==
    /\ TypeOK /\ Bounded!Destroyable
    /\ Latch!NoEarlyPass
    /\ Pool!TaskOnce /\ Pool!QueueStaysEmpty
    /\ LoopThread!StartFindsLoop /\ LoopThread!OnlyWakeupIsLate

(* Both queues are first-in first-out queues, the one never over capacity. *)
QueuesAreFifo == Bounded!ImplementsFifoQueue /\ Blocking!ImplementsFifoQueue

(* What is put is taken and its producers and consumers get through, the   *)
(* latch opens for all, each task runs and the pool stops, and the loop's  *)
(* thread starts, ends when it is told to and is joined.                   *)
NobodyWaitsForEver ==
    /\ subject = "BoundedBlockingQueue" => Bounded!AllFinish
    /\ subject = "BlockingQueue" => Blocking!AllTaken
    /\ Latch!OpensForAll
    /\ Pool!EachTaskRuns /\ Pool!StopReturns
    /\ LoopThread!StartReturns /\ LoopThread!DestructorReturns
    /\ LoopThread!QuitEndsThread
=============================================================================
