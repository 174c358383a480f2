--------------------------- MODULE CountDownLatch ---------------------------
(***************************************************************************)
(* muduo::CountDownLatch with the threads that count it down and those     *)
(* that wait for it.  A thread that counts down may do so when the count   *)
(* is already zero: nothing in the code prevents it, and the count goes    *)
(* negative.                                                               *)
(***************************************************************************)
EXTENDS Monitor, Integers

CONSTANTS Waiters, Counters,   \* threads that call wait(), and countDown()
          Count,               \* the constructor's argument
          MaxCalls             \* bound on each Counter's calls

LatchAssumption ==
    /\ Waiters \cup Counters \subseteq Threads /\ None \notin Threads
    /\ "condition_" \in Conditions
    /\ Count \in Int /\ MaxCalls \in Nat

VARIABLES count_,
          pc,     \* per thread: where in wait() or countDown()
          calls   \* per Counter: calls of countDown() made

vars == <<monitor, count_, pc, calls>>

TypeOK ==
    /\ MonitorTypeOK
    /\ count_ \in Int /\ calls \in [Counters -> 0..MaxCalls]
    /\ pc \in [Threads -> {"out", "test", "wait", "leave", "passed"}]
    /\ \A t \in Threads : pc[t] \in {"test", "leave"} <=> mutex_ = t

Init ==
    /\ MonitorInit
    /\ count_ = Count
    /\ pc = [t \in Threads |-> "out"] /\ calls = [c \in Counters |-> 0]

Goto(t, where) == pc' = [pc EXCEPT ![t] = where]

Call(t) ==
    /\ pc[t] = "out"
    /\ t \in Counters => calls[t] < MaxCalls
    /\ lock(t) /\ Goto(t, "test")
    /\ UNCHANGED <<count_, calls>>

(* while(count_ > 0): a negative count lets waiters pass, too.             *)
WaitTest(w) ==
    /\ pc[w] = "test"
    /\ IF count_ > 0
       THEN wait(w, "condition_") /\ Goto(w, "wait")
       ELSE unlock(w) /\ Goto(w, "passed")
    /\ UNCHANGED <<count_, calls>>

(* wait() comes back to the test: a spurious return does not pass.         *)
WakeUp(w) ==
    /\ Reacquire(w) /\ Goto(w, "test")
    /\ UNCHANGED <<count_, calls>>

SpuriousWakeup(w) == Spurious(w) /\ UNCHANGED <<count_, pc, calls>>

(* notifyAll() at zero exactly, under the lock.                            *)
CountDown(c) ==
    /\ pc[c] = "test"
    /\ count_' = count_ - 1 /\ calls' = [calls EXCEPT ![c] = @ + 1]
    /\ IF count_ = 1 THEN notifyAll("condition_") ELSE UNCHANGED monitor
    /\ Goto(c, "leave")

Leave(c) ==
    /\ pc[c] = "leave" /\ unlock(c) /\ Goto(c, "out")
    /\ UNCHANGED <<count_, calls>>

-----------------------------------------------------------------------------
Step(t) == \/ Call(t)
           \/ t \in Waiters /\ (WaitTest(t) \/ WakeUp(t))
           \/ t \in Counters /\ (CountDown(t) \/ Leave(t))

Next == \E t \in Waiters \cup Counters : Step(t) \/ SpuriousWakeup(t)

Spec == Init /\ [][Next]_vars /\ \A t \in Waiters \cup Counters : SF_vars(Step(t))

-----------------------------------------------------------------------------
(* No thread returns from wait() before the count has come down.           *)
NoEarlyPass == \A w \in Waiters : pc[w] = "passed" => count_ <= 0

(* The one notifyAll() at zero is enough: every thread that waits or comes *)
(* to wait gets through, also when the count has gone below zero since.    *)
OpensForAll ==
    \A w \in Waiters : count_ <= 0 ~> pc[w] = "passed"
=============================================================================
