------------------------------- MODULE Monitor -------------------------------
(***************************************************************************)
(* muduo::MutexLock and muduo::Condition: a mutex that notes the thread    *)
(* which locked it, and condition variables on that mutex.  The operators  *)
(* are the effects of the calls, to be conjoined with what a class does    *)
(* between them; each says what happens to all four variables.             *)
(***************************************************************************)
CONSTANTS Threads, Conditions

VARIABLES mutex_,    \* the pthread mutex: the thread inside, or None
          holder_,   \* what MutexLock notes
          waiters,   \* per condition: the threads blocked in wait()
          woken      \* threads notified, on their way back to the mutex

monitor == <<mutex_, holder_, waiters, woken>>

None == "none"

MonitorTypeOK ==
    /\ mutex_ \in Threads \cup {None} /\ holder_ \in Threads \cup {None}
    /\ waiters \in [Conditions -> SUBSET Threads]
    /\ woken \subseteq Threads

MonitorInit ==
    /\ mutex_ = None /\ holder_ = None
    /\ waiters = [c \in Conditions |-> {}] /\ woken = {}

lock(t) ==
    /\ mutex_ = None
    /\ mutex_' = t /\ holder_' = t
    /\ UNCHANGED <<waiters, woken>>

unlock(t) ==
    /\ mutex_ = t
    /\ holder_' = None /\ mutex_' = None
    /\ UNCHANGED <<waiters, woken>>

(* pthread_cond_wait gives the mutex up and takes it again behind the back *)
(* of MutexLock: holder_ is not written.                                   *)
wait(t, c) ==
    /\ mutex_ = t /\ mutex_' = None
    /\ waiters' = [waiters EXCEPT ![c] = @ \cup {t}]
    /\ UNCHANGED <<holder_, woken>>

Reacquire(t) ==
    /\ t \in woken /\ mutex_ = None
    /\ mutex_' = t /\ woken' = woken \ {t}
    /\ UNCHANGED <<holder_, waiters>>

(* Some waiting thread is woken, if there is one.                          *)
notify(c) ==
    /\ IF waiters[c] = {}
       THEN UNCHANGED <<waiters, woken>>
       ELSE \E t \in waiters[c] : /\ waiters' = [waiters EXCEPT ![c] = @ \ {t}]
                                  /\ woken' = woken \cup {t}
    /\ UNCHANGED <<mutex_, holder_>>

notifyAll(c) ==
    /\ waiters' = [waiters EXCEPT ![c] = {}]
    /\ woken' = woken \cup waiters[c]
    /\ UNCHANGED <<mutex_, holder_>>

(* pthread_cond_wait may return without a notification.                    *)
Spurious(t) ==
    /\ \E c \in Conditions : t \in waiters[c]
    /\ waiters' = [c \in Conditions |-> waiters[c] \ {t}]
    /\ woken' = woken \cup {t}
    /\ UNCHANGED <<mutex_, holder_>>

-----------------------------------------------------------------------------
Blocked == woken \cup UNION {waiters[c] : c \in Conditions}

(* ~MutexLock asserts holder_ == 0: that must hold whenever nobody is      *)
(* inside or waiting, however waits have left holder_ behind.              *)
Destroyable == mutex_ = None /\ Blocked = {} => holder_ = None
=============================================================================
