----------------------------- MODULE ThreadPool -----------------------------
(***************************************************************************)
(* muduo::ThreadPool: threads that take tasks from a queue behind a mutex, *)
(* the callers of run(), and the owner, who starts and stops the pool.     *)
(*                                                                         *)
(* run() looks at queue_ without the mutex and runs the task itself when   *)
(* it finds it empty.  In the branch that queues, the look and the push    *)
(* are one step here: what is pushed does not depend on what was seen.     *)
(***************************************************************************)
EXTENDS Monitor, Sequences, Naturals, FiniteSets

CONSTANTS Workers,   \* the pool's threads_, numThreads of them
          Callers,   \* the threads that call run()
          Owner,     \* the thread that starts and stops the pool
          Tasks      \* each passed to run() once

(* The owner, the pool's threads and its users are different threads.      *)
PoolAssumption ==
    /\ Workers \subseteq Threads /\ Callers \subseteq Threads /\ Owner \in Threads
    /\ Workers \cap Callers = {} /\ Owner \notin Workers \cup Callers
    /\ None \notin Threads
    /\ "cond_" \in Conditions

VARIABLES
    queue_, running_,
    pc,       \* per thread
    task,     \* per worker and caller: the task it is running, or None
    given,    \* tasks passed to run()
    ran       \* history: who ran which task, in order

vars == <<monitor, queue_, running_, pc, task, given, ran>>

WorkerPCs == {"unborn", "loop", "take", "test", "wait", "leave", "task", "ended"}
OwnerPCs == {"starting", "started", "notifying", "joining", "done"}

TypeOK ==
    /\ MonitorTypeOK
    /\ queue_ \in Seq(Tasks) /\ running_ \in BOOLEAN /\ given \subseteq Tasks
    /\ pc \in [Threads -> WorkerPCs \cup OwnerPCs \cup {"out", "task"}]
    /\ task \in [Workers \cup Callers -> Tasks \cup {None}]
    /\ ran \in Seq([task : Tasks, by : Threads])
    /\ \A w \in Workers : pc[w] = "wait" <=> w \in Blocked
    /\ pc[Owner] \in OwnerPCs
    /\ running_ => pc[Owner] \in {"starting", "started", "notifying"}

Init ==
    /\ MonitorInit
    /\ queue_ = <<>> /\ running_ = FALSE /\ given = {} /\ ran = <<>>
    /\ pc = [t \in Threads |-> IF t = Owner THEN "starting"
                               ELSE IF t \in Workers THEN "unborn" ELSE "out"]
    /\ task = [t \in Workers \cup Callers |-> None]

Goto(t, where) == pc' = [pc EXCEPT ![t] = where]
Ran(t, x) == Append(ran, [task |-> x, by |-> t])

-----------------------------------------------------------------------------
(* start(): running_ first, then one thread after the other.               *)
StartThread(w) ==
    /\ pc[Owner] = "starting" /\ pc[w] = "unborn"
    /\ running_' = TRUE /\ Goto(w, "loop")
    /\ UNCHANGED <<monitor, queue_, task, given, ran>>

Started ==
    /\ pc[Owner] = "starting" /\ \A w \in Workers : pc[w] # "unborn"
    /\ Goto(Owner, "started")
    /\ UNCHANGED <<monitor, queue_, running_, task, given, ran>>

(* stop(), or the destructor: running_ = false and notifyAll() under the   *)
(* mutex ...                                                               *)
StopLock ==
    /\ pc[Owner] = "started" /\ lock(Owner) /\ Goto(Owner, "notifying")
    /\ UNCHANGED <<queue_, running_, task, given, ran>>

Stop_Bug ==
    /\ pc[Owner] = "notifying"
    /\ running_' = FALSE /\ notify("cond_")
    /\ Goto(Owner, "joining")
    /\ UNCHANGED <<queue_, task, given, ran>>
Stop ==
    /\ pc[Owner] = "notifying"
    /\ running_' = FALSE /\ notifyAll("cond_")
    /\ Goto(Owner, "joining")
    /\ UNCHANGED <<queue_, task, given, ran>>

StopUnlock ==
    /\ pc[Owner] = "joining" /\ unlock(Owner)
    /\ UNCHANGED <<queue_, running_, pc, task, given, ran>>

(* ... then a join() of every thread, outside the mutex.                   *)
Join ==
    /\ pc[Owner] = "joining" /\ mutex_ # Owner
    /\ \A w \in Workers : pc[w] = "ended"
    /\ Goto(Owner, "done")
    /\ UNCHANGED <<monitor, queue_, running_, task, given, ran>>

-----------------------------------------------------------------------------
(* runInThread(): while(running_), read without the mutex ...              *)
LoopTest(w) ==
    /\ pc[w] = "loop"
    /\ Goto(w, IF running_ THEN "take" ELSE "ended")
    /\ UNCHANGED <<monitor, queue_, running_, task, given, ran>>

TakeLock(w) ==
    /\ pc[w] = "take" /\ lock(w) /\ Goto(w, "test")
    /\ UNCHANGED <<queue_, running_, task, given, ran>>

(* ... take(): while(queue_.empty() && running_) wait, then the front task *)
(* or, if there is none, an empty one.                                     *)
TakeTest(w) ==
    /\ pc[w] = "test"
    /\ IF queue_ = <<>> /\ running_
       THEN wait(w, "cond_") /\ Goto(w, "wait") /\ UNCHANGED <<queue_, task>>
       ELSE /\ Goto(w, "leave") /\ UNCHANGED monitor
            /\ IF queue_ = <<>> THEN UNCHANGED <<queue_, task>>
               ELSE /\ task' = [task EXCEPT ![w] = Head(queue_)]
                    /\ queue_' = Tail(queue_)
    /\ UNCHANGED <<running_, given, ran>>

WakeUp(w) ==
    /\ Reacquire(w) /\ Goto(w, "test")
    /\ UNCHANGED <<queue_, running_, task, given, ran>>

SpuriousWakeup(w) ==
    Spurious(w) /\ UNCHANGED <<queue_, running_, pc, task, given, ran>>

TakeUnlock(w) ==
    /\ pc[w] = "leave" /\ unlock(w) /\ Goto(w, "task")
    /\ UNCHANGED <<queue_, running_, task, given, ran>>

(* if(task) task();                                                        *)
RunTask(w) ==
    /\ w \in Workers /\ pc[w] = "task" /\ Goto(w, "loop")
    /\ ran' = IF task[w] = None THEN ran ELSE Ran(w, task[w])
    /\ task' = [task EXCEPT ![w] = None]
    /\ UNCHANGED <<monitor, queue_, running_, given>>

-----------------------------------------------------------------------------
Push(x) == mutex_ = None /\ queue_' = Append(queue_, x) /\ notify("cond_")

(* if(queue_.empty()), outside the mutex.                                  *)
RunsDirectly == queue_ = <<>>

run(c, x) ==
    /\ pc[c] = "out" /\ x \notin given /\ given' = given \cup {x}
    /\ IF RunsDirectly
       THEN /\ Goto(c, "task") /\ task' = [task EXCEPT ![c] = x]
            /\ UNCHANGED <<monitor, queue_>>
       ELSE Push(x) /\ UNCHANGED <<pc, task>>
    /\ UNCHANGED <<running_, ran>>

RunReturns(c) ==
    /\ c \in Callers /\ pc[c] = "task" /\ Goto(c, "out")
    /\ ran' = Ran(c, task[c]) /\ task' = [task EXCEPT ![c] = None]
    /\ UNCHANGED <<monitor, queue_, running_, given>>

-----------------------------------------------------------------------------
WorkerStep(w) == \/ LoopTest(w) \/ TakeLock(w) \/ TakeTest(w) \/ WakeUp(w)
                 \/ TakeUnlock(w) \/ RunTask(w)
StopSteps == Stop \/ StopUnlock \/ Join

Next == \/ \E w \in Workers : StartThread(w) \/ WorkerStep(w) \/ SpuriousWakeup(w)
        \/ Started \/ StopLock \/ StopSteps
        \/ \E c \in Callers : RunReturns(c) \/ \E x \in Tasks : run(c, x)

(* Threads are scheduled, tasks return; nobody has to call run() or stop().*)
Spec == /\ Init /\ [][Next]_vars
        /\ WF_vars(StopSteps)
        /\ \A w \in Workers : SF_vars(WorkerStep(w))
        /\ \A c \in Callers : WF_vars(RunReturns(c))

-----------------------------------------------------------------------------
(* No task is run twice, by whichever threads.                             *)
TaskOnce ==
    \A i, j \in 1..Len(ran) : ran[i].task = ran[j].task => i = j

(* Every task passed to run() is run, even if the pool is stopped while    *)
(* run() is under way, before or after.                                    *)
EachTaskRuns ==
    \A x \in Tasks : x \in given ~> \E i \in 1..Len(ran) : ran[i].task = x

(* stop() returns: every worker notices, whether it waits, is about to     *)
(* wait, or is between two rounds, where it reads running_ without a lock. *)
StopReturns == pc[Owner] = "notifying" ~> pc[Owner] = "done"

(* Since run() queues only behind other tasks, nothing is ever queued and  *)
(* the pool's threads have nothing to do.                                  *)
QueueStaysEmpty == queue_ = <<>> /\ \A w \in Workers : task[w] = None
=============================================================================
