---------------------------- MODULE BlockingQueue ----------------------------
(***************************************************************************)
(* muduo::BlockingQueue: a deque, a mutex and one condition; put() never   *)
(* waits.  Clients as in BlockingQueue_test.cc: see BoundedBlockingQueue.  *)
(***************************************************************************)
EXTENDS Monitor, Sequences, Naturals, FiniteSets

CONSTANTS Producers, Consumers,
          Items   \* what producers put, each once

(* A thread of the models is on one side only.                             *)
QueueAssumption ==
    /\ Producers \subseteq Threads /\ Consumers \subseteq Threads
    /\ Producers \cap Consumers = {} /\ None \notin Threads
    /\ IsFiniteSet(Consumers) /\ IsFiniteSet(Items)
    /\ "notEmpty_" \in Conditions

VARIABLES queue_,
          pc,      \* per thread: where in put() or take()
          arg,     \* per producer: the x of put(x)
          got,     \* per consumer: what take() returned, in turn
          came     \* history: the items that were pushed

vars == <<monitor, queue_, pc, arg, got, came>>

TypeOK ==
    /\ MonitorTypeOK
    /\ queue_ \in Seq(Items) /\ came \subseteq Items
    /\ arg \in [Producers -> Items \cup {None}]
    /\ pc \in [Threads -> {"out", "test", "wait", "leave"}]
    /\ got \in [Consumers -> Seq(Items)]
    /\ \A t \in Threads : /\ pc[t] \in {"test", "leave"} <=> mutex_ = t
                          /\ pc[t] = "wait" <=> t \in Blocked

Init ==
    /\ MonitorInit
    /\ queue_ = <<>> /\ came = {} /\ arg = [p \in Producers |-> None]
    /\ pc = [t \in Threads |-> "out"] /\ got = [c \in Consumers |-> <<>>]

Goto(t, where) == pc' = [pc EXCEPT ![t] = where]

CallPut(p, x) ==
    /\ pc[p] = "out" /\ x \notin came \cup {arg[q] : q \in Producers}
    /\ lock(p) /\ Goto(p, "test")
    /\ arg' = [arg EXCEPT ![p] = x]
    /\ UNCHANGED <<queue_, got, came>>

CallTake(c) ==
    /\ pc[c] = "out" /\ lock(c) /\ Goto(c, "test")
    /\ UNCHANGED <<queue_, arg, got, came>>

Put_Bug(p) ==
    /\ pc[p] = "test"
    /\ queue_' = Append(queue_, arg[p]) /\ came' = came \cup {arg[p]}
    /\ IF queue_ = <<>> THEN notify("notEmpty_") ELSE UNCHANGED monitor
    /\ Goto(p, "leave") /\ UNCHANGED <<arg, got>>
Put(p) ==
    /\ pc[p] = "test"
    /\ queue_' = Append(queue_, arg[p]) /\ came' = came \cup {arg[p]}
    /\ notify("notEmpty_")
    /\ Goto(p, "leave") /\ UNCHANGED <<arg, got>>

TakeWait(c) ==
    /\ pc[c] = "test" /\ queue_ = <<>>
    /\ wait(c, "notEmpty_") /\ Goto(c, "wait")
    /\ UNCHANGED <<queue_, arg, got, came>>

WakeUp(c) ==
    /\ Reacquire(c) /\ Goto(c, "test")
    /\ UNCHANGED <<queue_, arg, got, came>>

SpuriousWakeup(c) == Spurious(c) /\ UNCHANGED <<queue_, pc, arg, got, came>>

Take(c) ==
    /\ pc[c] = "test" /\ queue_ # <<>>
    /\ queue_' = Tail(queue_)
    /\ got' = [got EXCEPT ![c] = Append(@, Head(queue_))]
    /\ Goto(c, "leave")
    /\ UNCHANGED <<monitor, arg, came>>

Leave(t) ==
    /\ pc[t] = "leave" /\ unlock(t) /\ Goto(t, "out")
    /\ UNCHANGED <<queue_, arg, got, came>>

-----------------------------------------------------------------------------
Step(t) ==
    \/ t \in Producers /\ (Put(t) \/ \E x \in Items : CallPut(t, x))
    \/ t \in Consumers /\ (CallTake(t) \/ TakeWait(t) \/ Take(t) \/ WakeUp(t))
    \/ Leave(t)

Next == \E t \in Threads : Step(t) \/ SpuriousWakeup(t)

Spec == Init /\ [][Next]_vars /\ \A t \in Threads : SF_vars(Step(t))

-----------------------------------------------------------------------------
(* While a consumer sleeps there is another on its way for every item.     *)
NoSleepingConsumer ==
    waiters["notEmpty_"] # {} =>
        Len(queue_) <= Cardinality({c \in Consumers : c \in woken \/ pc[c] = "test"})

(* The queue acts as if put() and take() were one step each.               *)
Fifo == INSTANCE FifoQueue WITH queue <- queue_, Capacity <- Cardinality(Items)
ImplementsFifoQueue == Fifo!Spec

(* Every item is put and, although one put() notifies one thread, taken.   *)
AllTaken == <>(came = Items /\ queue_ = <<>>)
=============================================================================
