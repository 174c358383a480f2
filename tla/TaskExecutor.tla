---------------------------- MODULE TaskExecutor ----------------------------
(***************************************************************************)
(* What EventLoop promises the code that hands it functors, with threads,  *)
(* locks, descriptors and batches left out.  queueInLoop() appends to one  *)
(* queue; the loop runs the head of the queue, one functor at a time;      *)
(* runInLoop() called in the loop's own thread runs the functor on the     *)
(* spot, ahead of whatever is queued.  Stop is the effect of quit(): from  *)
(* then on the functors left in the queue may stay there for ever.         *)
(***************************************************************************)
EXTENDS Sequences

CONSTANT Jobs               \* the functors, each handed over at most once

VARIABLES queue,            \* handed over, not yet run, oldest first
          ran,              \* run, in the order they were started
          stopped           \* quit() was called

vars == <<queue, ran, stopped>>

Fresh(j) == /\ \A i \in DOMAIN queue : queue[i] # j
            /\ \A i \in DOMAIN ran : ran[i] # j

Init == /\ queue = << >>
        /\ ran = << >>
        /\ stopped = FALSE

Submit(j) == /\ Fresh(j)
             /\ queue' = Append(queue, j)
             /\ UNCHANGED <<ran, stopped>>

RunHead == /\ queue # << >>
           /\ ran' = Append(ran, Head(queue))
           /\ queue' = Tail(queue)
           /\ UNCHANGED stopped

RunNow(j) == /\ Fresh(j)
             /\ ran' = Append(ran, j)
             /\ UNCHANGED <<queue, stopped>>

Stop == /\ stopped' = TRUE
        /\ UNCHANGED <<queue, ran>>

Next == \/ \E j \in Jobs : Submit(j) \/ RunNow(j)
        \/ RunHead
        \/ Stop

Spec == Init /\ [][Next]_vars

-----------------------------------------------------------------------------

(* A functor handed to the loop is run at most once, and is never both run *)
(* and still queued: the swap in doPendingFunctors neither duplicates nor  *)
(* brings back a functor.                                                  *)
AtMostOnce ==
    LET all == ran \o queue
    IN  \A a, b \in DOMAIN all : all[a] = all[b] => a = b

(* Unless the loop is told to quit, a functor handed over is run.          *)
RunsEventually ==
    \A j \in Jobs :
       (\E i \in DOMAIN queue : queue[i] = j)
          ~> (stopped \/ \E i \in DOMAIN ran : ran[i] = j)

=============================================================================
