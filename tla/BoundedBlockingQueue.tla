------------------------ MODULE BoundedBlockingQueue ------------------------
(***************************************************************************)
(* muduo::BoundedBlockingQueue: a circular buffer, a mutex and two         *)
(* conditions.  A call is a sequence of steps between which other threads  *)
(* run: lock, the tests of the loop (each a wait() or a way out), the      *)
(* change with its notify(), unlock.                                       *)
(*                                                                         *)
(* The clients are those of the tests: producers put items, consumers take *)
(* until they get a stop, and one stop per consumer is put at the end.     *)
(***************************************************************************)
EXTENDS Monitor, Sequences, Naturals, FiniteSets

CONSTANTS Producers, Consumers,
          Items,       \* what producers put, each once
          Stops,       \* those of Items that send a consumer home
          Capacity     \* maxSize

(* A thread of the models is on one side only.                             *)
QueueAssumption ==
    /\ Producers \subseteq Threads /\ Consumers \subseteq Threads
    /\ Producers \cap Consumers = {} /\ None \notin Threads
    /\ IsFiniteSet(Producers) /\ IsFiniteSet(Consumers)
    /\ {"notEmpty_", "notFull_"} \subseteq Conditions
    /\ Capacity \in Nat

VARIABLES
    queue_,
    pc,         \* per thread: where in put() or take()
    arg,        \* per producer: the x of put(x)
    unput,      \* items not passed to put() yet
    got,        \* per consumer: what take() returned, in turn
    came        \* history: the items that were pushed

vars == <<monitor, queue_, pc, arg, unput, got, came>>

TypeOK ==
    /\ MonitorTypeOK
    /\ queue_ \in Seq(Items) /\ Len(queue_) <= Capacity
    /\ pc \in [Threads -> {"out", "test", "wait", "leave"}]
    /\ arg \in [Producers -> Items \cup {None}]
    /\ unput \subseteq Items /\ came \subseteq Items
    /\ got \in [Consumers -> Seq(Items)]
    /\ \A t \in Threads : /\ pc[t] \in {"test", "leave"} <=> mutex_ = t
                          /\ pc[t] = "wait" <=> t \in Blocked

Init ==
    /\ MonitorInit
    /\ queue_ = <<>>
    /\ pc = [t \in Threads |-> "out"]
    /\ arg = [p \in Producers |-> None]
    /\ unput = Items /\ came = {} /\ got = [c \in Consumers |-> <<>>]

full == Len(queue_) = Capacity

(* boost::circular_buffer::push_back overwrites the front of a full one.   *)
push_back(x) == IF full THEN Append(Tail(queue_), x) ELSE Append(queue_, x)

Goto(t, where) == pc' = [pc EXCEPT ![t] = where]

(* The stops are put when all else has been, as the tests do.              *)
NextItems ==
    IF Items \ Stops \subseteq came THEN unput ELSE unput \ Stops

gone == {c \in Consumers : got[c] # <<>> /\ got[c][Len(got[c])] \in Stops}

CallPut(p, x) ==
    /\ pc[p] = "out" /\ x \in NextItems
    /\ lock(p) /\ Goto(p, "test")
    /\ arg' = [arg EXCEPT ![p] = x] /\ unput' = unput \ {x}
    /\ UNCHANGED <<queue_, got, came>>

CallTake(c) ==
    /\ pc[c] = "out" /\ c \notin gone
    /\ lock(c) /\ Goto(c, "test")
    /\ UNCHANGED <<queue_, arg, unput, got, came>>

(* while(queue_.full()) notFull_.wait()                                    *)
PutWait(p) ==
    /\ pc[p] = "test" /\ full
    /\ wait(p, "notFull_") /\ Goto(p, "wait")
    /\ UNCHANGED <<queue_, arg, unput, got, came>>

TakeWait(c) ==
    /\ pc[c] = "test" /\ queue_ = <<>>
    /\ wait(c, "notEmpty_") /\ Goto(c, "wait")
    /\ UNCHANGED <<queue_, arg, unput, got, came>>

WakeUp_Bug(t) ==
    /\ Reacquire(t)
    /\ IF t \in Producers
       THEN /\ queue_' = push_back(arg[t]) /\ came' = came \cup {arg[t]}
            /\ Goto(t, "leave")
       ELSE UNCHANGED <<queue_, came>> /\ Goto(t, "test")
    /\ UNCHANGED <<arg, unput, got>>
(* wait() returns with the mutex and the loop tests again.                 *)
WakeUp(t) ==
    /\ Reacquire(t) /\ Goto(t, "test")
    /\ UNCHANGED <<queue_, arg, unput, got, came>>

(* Every put() notifies, not only the first into an empty queue.           *)
Put(p) ==
    /\ pc[p] = "test" /\ ~full
    /\ queue_' = push_back(arg[p]) /\ came' = came \cup {arg[p]}
    /\ notify("notEmpty_")
    /\ Goto(p, "leave")
    /\ UNCHANGED <<arg, unput, got>>

Take(c) ==
    /\ pc[c] = "test" /\ queue_ # <<>>
    /\ queue_' = Tail(queue_) /\ got' = [got EXCEPT ![c] = Append(@, Head(queue_))]
    /\ notify("notFull_")
    /\ Goto(c, "leave")
    /\ UNCHANGED <<arg, unput, came>>

Leave(t) ==
    /\ pc[t] = "leave" /\ unlock(t) /\ Goto(t, "out")
    /\ UNCHANGED <<queue_, arg, unput, got, came>>

SpuriousWakeup(t) ==
    /\ Spurious(t)
    /\ UNCHANGED <<queue_, pc, arg, unput, got, came>>

-----------------------------------------------------------------------------
Step(t) ==
    \/ t \in Producers /\ (PutWait(t) \/ Put(t) \/ \E x \in Items : CallPut(t, x))
    \/ t \in Consumers /\ (CallTake(t) \/ TakeWait(t) \/ Take(t))
    \/ WakeUp(t) \/ Leave(t)

Finished == gone = Consumers /\ \A t \in Threads : pc[t] = "out"

Next == \/ \E t \in Threads : Step(t) \/ SpuriousWakeup(t)
        \/ Finished /\ UNCHANGED vars

(* Every thread is scheduled; the mutex is fair in that no thread tries    *)
(* for ever while others lock and unlock it for ever.                      *)
Spec == Init /\ [][Next]_vars /\ \A t \in Threads : SF_vars(Step(t))

-----------------------------------------------------------------------------
(* Threads that were woken, or are at their test.                          *)
Roused(group) == {t \in group : t \in woken \/ pc[t] = "test"}

(* No notification is lost: while a consumer sleeps there is, for every    *)
(* item in the queue, another consumer on its way to it, though put() and  *)
(* take() notify one thread only and a woken thread may be overtaken.      *)
NoSleepingConsumer ==
    waiters["notEmpty_"] # {} => Len(queue_) <= Cardinality(Roused(Consumers))

(* And likewise for free places and producers.                             *)
NoSleepingProducer ==
    waiters["notFull_"] # {} =>
        Capacity - Len(queue_) <= Cardinality(Roused(Producers))

(* put() and take() act as if they were one step each on a queue that is   *)
(* first-in first-out and never over its capacity: nothing is lost,        *)
(* overwritten, duplicated or reordered.                                   *)
Fifo == INSTANCE FifoQueue WITH queue <- queue_
ImplementsFifoQueue == Fifo!Spec

(* Every item is taken and every consumer gets its stop, as the join() of  *)
(* BoundedBlockingQueue_test.cc relies on: nobody waits for ever.          *)
AllFinish == <>(gone = Consumers /\ came = Items /\ queue_ = <<>>)
=============================================================================
