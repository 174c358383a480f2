----------------------------- MODULE QueueProofs -----------------------------
(***************************************************************************)
(* Theorems about the classes with which threads wait for one another.     *)
(***************************************************************************)
EXTENDS MCThreads, SequenceTheorems, FiniteSetTheorems, TLAPS

(* Who waits where: consumers for notEmpty_, producers for notFull_, and a *)
(* thread that was notified waits no more.                                 *)
WaitInv ==
    /\ waiters["notEmpty_"] \subseteq Right /\ waiters["notFull_"] \subseteq Left
    /\ \A c \in Conditions : c \notin {"notEmpty_", "notFull_"} => waiters[c] = {}
    /\ \A c \in Conditions : waiters[c] \cap woken = {}

(* What a put() under way carries is new, and no other one carries it.     *)
Putting(p) == pc[p] \in {"test", "wait"}
ArgInv ==
    /\ \A p \in Left : Putting(p) =>
          arg[p] \in Items /\ arg[p] \notin put /\ arg[p] \notin unput
    /\ \A p, q \in Left : Putting(p) /\ Putting(q) /\ arg[p] = arg[q] => p = q
    /\ put \cap unput = {}

BoundedInv ==
    /\ Bounded!TypeOK /\ WaitInv /\ ArgInv
    /\ Bounded!NoSleepingConsumer /\ Bounded!NoSleepingProducer

(* The instance has Cardinality and IsFiniteSet under names of its own.     *)
LEMMA SameCardinality ==
    /\ \A S : Bounded!Cardinality(S) = Cardinality(S)
    /\ \A S : Blocking!Cardinality(S) = Cardinality(S)
BY DEF Bounded!Cardinality, Blocking!Cardinality, Cardinality

LEMMA SameFinite ==
    /\ \A S : Bounded!IsFiniteSet(S) <=> IsFiniteSet(S)
    /\ \A S : Blocking!IsFiniteSet(S) <=> IsFiniteSet(S)
BY DEF Bounded!IsFiniteSet, Blocking!IsFiniteSet, IsFiniteSet

LEMMA RousedFacts ==
    ASSUME Bounded!QueueAssumption
    PROVE  /\ IsFiniteSet(Bounded!Roused(Left))
           /\ Cardinality(Bounded!Roused(Left)) \in Nat
           /\ IsFiniteSet(Bounded!Roused(Right))
           /\ Cardinality(Bounded!Roused(Right)) \in Nat
BY SameFinite, FS_Subset, FS_CardinalityType DEF Bounded!QueueAssumption, Bounded!Roused

LEMMA RousedNext ==
    ASSUME Bounded!QueueAssumption
    PROVE  /\ IsFiniteSet(Bounded!Roused(Left)')
           /\ Cardinality(Bounded!Roused(Left))' \in Nat
           /\ IsFiniteSet(Bounded!Roused(Right)')
           /\ Cardinality(Bounded!Roused(Right))' \in Nat
BY SameFinite, FS_Subset, FS_CardinalityType DEF Bounded!QueueAssumption, Bounded!Roused

LEMMA BlockedFacts ==
    ASSUME NEW t
    PROVE  /\ t \in Bounded!Blocked <=> t \in woken \/ \E c \in Conditions : t \in waiters[c]
           /\ t \in Bounded!Blocked' <=> t \in woken' \/ \E c \in Conditions : t \in waiters'[c]
BY DEF Bounded!Blocked

(* A thread that locks the mutex, or takes it back, is at its test.        *)
LEMMA CallPutStep ==
    ASSUME Bounded!QueueAssumption, BoundedInv, NEW p \in Left, NEW x \in Items,
           Bounded!CallPut(p, x)
    PROVE  BoundedInv'
<1>1. p \in Threads /\ p \notin Right
  BY DEF Bounded!QueueAssumption
<1>2. Bounded!TypeOK'
  <2>1. \A t \in Threads : /\ pc'[t] \in {"test", "leave"} <=> mutex_' = t
                           /\ pc'[t] = "wait" <=> t \in Bounded!Blocked'
    BY <1>1, BlockedFacts DEF BoundedInv, Bounded!TypeOK, Bounded!CallPut, Bounded!lock,
       Bounded!Goto, Bounded!QueueAssumption
  <2> QED BY <1>1, <2>1 DEF BoundedInv, Bounded!TypeOK, Bounded!MonitorTypeOK,
             Bounded!CallPut, Bounded!lock, Bounded!Goto
<1>3. WaitInv'
  BY DEF BoundedInv, WaitInv, Bounded!CallPut, Bounded!lock
<1>4. ArgInv'
  BY <1>1 DEF BoundedInv, Bounded!TypeOK, ArgInv, Putting, Bounded!CallPut, Bounded!Goto,
     Bounded!NextItems, Bounded!QueueAssumption
<1>5. Bounded!NoSleepingConsumer'
  <2>1. Bounded!Roused(Right)' = Bounded!Roused(Right)
    BY <1>1 DEF BoundedInv, Bounded!TypeOK, Bounded!Roused, Bounded!CallPut, Bounded!lock,
       Bounded!Goto, Bounded!QueueAssumption
  <2> QED BY SameCardinality, <2>1 DEF BoundedInv, Bounded!NoSleepingConsumer,
             Bounded!CallPut, Bounded!lock
<1>6. Bounded!NoSleepingProducer'
  <2>1. Bounded!Roused(Left) \subseteq Bounded!Roused(Left)'
    BY <1>1 DEF BoundedInv, Bounded!TypeOK, Bounded!Roused, Bounded!CallPut, Bounded!lock,
       Bounded!Goto, Bounded!QueueAssumption
  <2>2. Cardinality(Bounded!Roused(Left)) <= Cardinality(Bounded!Roused(Left))'
    BY <2>1, RousedNext, FS_Subset
  <2>3. Capacity \in Nat /\ Len(ring_) \in Nat
    BY LenProperties DEF BoundedInv, Bounded!TypeOK, Bounded!QueueAssumption
  <2> QED BY SameCardinality, <2>2, <2>3, RousedFacts, RousedNext DEF BoundedInv,
             Bounded!NoSleepingProducer, Bounded!CallPut, Bounded!lock
<1> QED BY <1>2, <1>3, <1>4, <1>5, <1>6 DEF BoundedInv

(* How many there are in a group that grew, grew by someone, lost someone. *)
LEMMA Counting ==
    ASSUME NEW S, NEW T, IsFiniteSet(S), IsFiniteSet(T), NEW t
    PROVE  /\ Cardinality(S) \in Nat /\ Cardinality(T) \in Nat
           /\ S \subseteq T => Cardinality(S) <= Cardinality(T)
           /\ S \subseteq T /\ t \in T /\ t \notin S => Cardinality(S) + 1 <= Cardinality(T)
           /\ S \ {t} \subseteq T => Cardinality(S) <= Cardinality(T) + 1
<1>1. Cardinality(S) \in Nat /\ Cardinality(T) \in Nat
  BY FS_CardinalityType
<1>2. S \subseteq T => Cardinality(S) <= Cardinality(T)
  BY FS_Subset
<1>3. ASSUME S \subseteq T, t \in T, t \notin S
      PROVE  Cardinality(S) + 1 <= Cardinality(T)
  <2>1. IsFiniteSet(S \cup {t}) /\ Cardinality(S \cup {t}) = Cardinality(S) + 1
    BY <1>3, FS_AddElement
  <2>2. S \cup {t} \subseteq T
    BY <1>3
  <2> QED BY <2>1, <2>2, FS_Subset
<1>4. ASSUME S \ {t} \subseteq T
      PROVE  Cardinality(S) <= Cardinality(T) + 1
  <2>1. IsFiniteSet(T \cup {t}) /\ Cardinality(T \cup {t}) <= Cardinality(T) + 1
    <3>1. CASE t \in T
      <4>1. T \cup {t} = T
        BY <3>1
      <4> QED BY <1>1, <4>1
    <3>2. CASE t \notin T
      BY <1>1, <3>2, FS_AddElement
    <3> QED BY <3>1, <3>2
  <2>2. S \subseteq T \cup {t}
    BY <1>4
  <2>3. Cardinality(T \cup {t}) \in Nat
    BY <2>1, FS_CardinalityType
  <2> QED BY <1>1, <2>1, <2>2, <2>3, FS_Subset
<1> QED BY <1>1, <1>2, <1>3, <1>4

LEMMA CallTakeStep ==
    ASSUME Bounded!QueueAssumption, BoundedInv, NEW c \in Right, Bounded!CallTake(c)
    PROVE  BoundedInv'
<1>1. c \in Threads /\ c \notin Left
  BY DEF Bounded!QueueAssumption
<1>2. Bounded!TypeOK'
  <2>1. \A t \in Threads : /\ pc'[t] \in {"test", "leave"} <=> mutex_' = t
                           /\ pc'[t] = "wait" <=> t \in Bounded!Blocked'
    BY <1>1, BlockedFacts DEF BoundedInv, Bounded!TypeOK, Bounded!CallTake, Bounded!lock,
       Bounded!Goto, Bounded!QueueAssumption
  <2> QED BY <1>1, <2>1 DEF BoundedInv, Bounded!TypeOK, Bounded!MonitorTypeOK,
             Bounded!CallTake, Bounded!lock, Bounded!Goto
<1>3. WaitInv'
  BY DEF BoundedInv, WaitInv, Bounded!CallTake, Bounded!lock
<1>4. ArgInv'
  BY <1>1 DEF BoundedInv, Bounded!TypeOK, ArgInv, Putting, Bounded!CallTake, Bounded!Goto,
     Bounded!QueueAssumption
<1>5. Bounded!NoSleepingConsumer'
  <2>1. Bounded!Roused(Right) \subseteq Bounded!Roused(Right)'
    BY <1>1 DEF BoundedInv, Bounded!TypeOK, Bounded!Roused, Bounded!CallTake, Bounded!lock,
       Bounded!Goto, Bounded!QueueAssumption
  <2>2. Cardinality(Bounded!Roused(Right)) <= Cardinality(Bounded!Roused(Right))'
    BY <2>1, RousedFacts, RousedNext, Counting
  <2>3. Len(ring_) \in Nat
    BY LenProperties DEF BoundedInv, Bounded!TypeOK
  <2> QED BY SameCardinality, <2>2, <2>3, RousedFacts, RousedNext DEF BoundedInv,
             Bounded!NoSleepingConsumer, Bounded!CallTake, Bounded!lock
<1>6. Bounded!NoSleepingProducer'
  <2>1. Bounded!Roused(Left)' = Bounded!Roused(Left)
    BY <1>1 DEF BoundedInv, Bounded!TypeOK, Bounded!Roused, Bounded!CallTake, Bounded!lock,
       Bounded!Goto, Bounded!QueueAssumption
  <2> QED BY SameCardinality, <2>1 DEF BoundedInv, Bounded!NoSleepingProducer,
             Bounded!CallTake, Bounded!lock
<1> QED BY <1>2, <1>3, <1>4, <1>5, <1>6 DEF BoundedInv

(* A thread that waits found the queue full, or empty: the others are not  *)
(* short of anybody.                                                       *)
LEMMA PutWaitStep ==
    ASSUME Bounded!QueueAssumption, BoundedInv, NEW p \in Left, Bounded!PutWait(p)
    PROVE  BoundedInv'
<1>1. p \in Threads /\ p \notin Right /\ "notFull_" \in Conditions
  BY DEF Bounded!QueueAssumption
<1>2. waiters' = [waiters EXCEPT !["notFull_"] = @ \cup {p}] /\ woken' = woken
      /\ p \notin woken /\ mutex_ = p /\ mutex_' = Bounded!None /\ holder_' = holder_
  BY <1>1 DEF BoundedInv, Bounded!TypeOK, Bounded!PutWait, Bounded!wait, Bounded!Blocked
<1>3. \A c \in Conditions : c # "notFull_" => waiters'[c] = waiters[c]
  BY <1>2 DEF BoundedInv, Bounded!TypeOK, Bounded!MonitorTypeOK
<1>4. waiters'["notFull_"] = waiters["notFull_"] \cup {p}
  BY <1>1, <1>2 DEF BoundedInv, Bounded!TypeOK, Bounded!MonitorTypeOK
<1>5. Bounded!TypeOK'
  <2>1. \A t \in Threads : t \in Bounded!Blocked' <=> (t \in Bounded!Blocked \/ t = p)
    <3> SUFFICES ASSUME NEW t \in Threads
                 PROVE  t \in Bounded!Blocked' <=> (t \in Bounded!Blocked \/ t = p)
      OBVIOUS
    <3> QED BY <1>1, <1>2, <1>3, <1>4, BlockedFacts
  <2>2. \A t \in Threads : /\ pc'[t] \in {"test", "leave"} <=> mutex_' = t
                           /\ pc'[t] = "wait" <=> t \in Bounded!Blocked'
    BY <1>1, <1>2, <2>1 DEF BoundedInv, Bounded!TypeOK, Bounded!PutWait, Bounded!Goto,
       Bounded!QueueAssumption
  <2> QED BY <1>1, <1>2, <2>2 DEF BoundedInv, Bounded!TypeOK, Bounded!MonitorTypeOK,
             Bounded!PutWait, Bounded!Goto
<1>6. WaitInv'
  BY <1>1, <1>2, <1>3, <1>4 DEF BoundedInv, WaitInv, Bounded!QueueAssumption
<1>7. ArgInv'
  BY <1>1 DEF BoundedInv, Bounded!TypeOK, ArgInv, Putting, Bounded!PutWait, Bounded!Goto,
     Bounded!QueueAssumption
<1>8. Bounded!NoSleepingConsumer'
  <2>1. Bounded!Roused(Right)' = Bounded!Roused(Right)
    BY <1>1, <1>2 DEF BoundedInv, Bounded!TypeOK, Bounded!Roused, Bounded!PutWait,
       Bounded!Goto, Bounded!QueueAssumption
  <2> QED BY SameCardinality, <1>3, <2>1 DEF BoundedInv, Bounded!NoSleepingConsumer,
             Bounded!PutWait, Bounded!QueueAssumption
<1>9. Bounded!NoSleepingProducer'
  <2>1. Capacity - Len(ring_') = 0
    BY LenProperties DEF BoundedInv, Bounded!TypeOK, Bounded!PutWait, Bounded!full,
       Bounded!QueueAssumption
  <2> QED BY SameCardinality, <2>1, RousedNext DEF Bounded!NoSleepingProducer
<1> QED BY <1>5, <1>6, <1>7, <1>8, <1>9 DEF BoundedInv

LEMMA TakeWaitStep ==
    ASSUME Bounded!QueueAssumption, BoundedInv, NEW p \in Right, Bounded!TakeWait(p)
    PROVE  BoundedInv'
<1>1. p \in Threads /\ p \notin Left /\ "notEmpty_" \in Conditions
  BY DEF Bounded!QueueAssumption
<1>2. waiters' = [waiters EXCEPT !["notEmpty_"] = @ \cup {p}] /\ woken' = woken
      /\ p \notin woken /\ mutex_ = p /\ mutex_' = Bounded!None /\ holder_' = holder_
  BY <1>1 DEF BoundedInv, Bounded!TypeOK, Bounded!TakeWait, Bounded!wait, Bounded!Blocked
<1>3. \A c \in Conditions : c # "notEmpty_" => waiters'[c] = waiters[c]
  BY <1>2 DEF BoundedInv, Bounded!TypeOK, Bounded!MonitorTypeOK
<1>4. waiters'["notEmpty_"] = waiters["notEmpty_"] \cup {p}
  BY <1>1, <1>2 DEF BoundedInv, Bounded!TypeOK, Bounded!MonitorTypeOK
<1>5. Bounded!TypeOK'
  <2>1. \A t \in Threads : t \in Bounded!Blocked' <=> (t \in Bounded!Blocked \/ t = p)
    <3> SUFFICES ASSUME NEW t \in Threads
                 PROVE  t \in Bounded!Blocked' <=> (t \in Bounded!Blocked \/ t = p)
      OBVIOUS
    <3> QED BY <1>1, <1>2, <1>3, <1>4, BlockedFacts
  <2>2. \A t \in Threads : /\ pc'[t] \in {"test", "leave"} <=> mutex_' = t
                           /\ pc'[t] = "wait" <=> t \in Bounded!Blocked'
    BY <1>1, <1>2, <2>1 DEF BoundedInv, Bounded!TypeOK, Bounded!TakeWait, Bounded!Goto,
       Bounded!QueueAssumption
  <2> QED BY <1>1, <1>2, <2>2 DEF BoundedInv, Bounded!TypeOK, Bounded!MonitorTypeOK,
             Bounded!TakeWait, Bounded!Goto
<1>6. WaitInv'
  BY <1>1, <1>2, <1>3, <1>4 DEF BoundedInv, WaitInv, Bounded!QueueAssumption
<1>7. ArgInv'
  BY <1>1 DEF BoundedInv, Bounded!TypeOK, ArgInv, Putting, Bounded!TakeWait, Bounded!Goto,
     Bounded!QueueAssumption
<1>8. Bounded!NoSleepingConsumer'
  <2>1. Len(ring_') = 0
    BY DEF Bounded!TakeWait
  <2> QED BY SameCardinality, <2>1, RousedNext DEF Bounded!NoSleepingConsumer
<1>9. Bounded!NoSleepingProducer'
  <2>1. Bounded!Roused(Left)' = Bounded!Roused(Left)
    BY <1>1, <1>2 DEF BoundedInv, Bounded!TypeOK, Bounded!Roused, Bounded!TakeWait,
       Bounded!Goto, Bounded!QueueAssumption
  <2> QED BY SameCardinality, <1>3, <2>1 DEF BoundedInv, Bounded!NoSleepingProducer,
             Bounded!TakeWait, Bounded!QueueAssumption
<1> QED BY <1>5, <1>6, <1>7, <1>8, <1>9 DEF BoundedInv

(* Who is woken takes the mutex back and tests again: still on its way.    *)
LEMMA WakeUpStep ==
    ASSUME Bounded!QueueAssumption, BoundedInv, NEW t \in Threads, Bounded!WakeUp(t)
    PROVE  BoundedInv'
<1>1. mutex_ = Bounded!None /\ mutex_' = t /\ woken' = woken \ {t} /\ t \in woken
      /\ waiters' = waiters /\ holder_' = holder_ /\ pc[t] = "wait"
      /\ pc' = [pc EXCEPT ![t] = "test"]
  BY DEF BoundedInv, Bounded!TypeOK, Bounded!WakeUp, Bounded!Reacquire, Bounded!Goto,
     Bounded!Blocked
<1>2. \A c \in Conditions : t \notin waiters[c]
  BY <1>1 DEF BoundedInv, WaitInv
<1>3. Bounded!TypeOK'
  <2>1. \A r \in Threads : r \in Bounded!Blocked' <=> (r \in Bounded!Blocked /\ r # t)
    <3> SUFFICES ASSUME NEW r \in Threads
                 PROVE  r \in Bounded!Blocked' <=> (r \in Bounded!Blocked /\ r # t)
      OBVIOUS
    <3> QED BY <1>1, <1>2, BlockedFacts
  <2>2. \A r \in Threads : /\ pc'[r] \in {"test", "leave"} <=> mutex_' = r
                           /\ pc'[r] = "wait" <=> r \in Bounded!Blocked'
    BY <1>1, <2>1 DEF BoundedInv, Bounded!TypeOK, Bounded!QueueAssumption
  <2>3. Bounded!MonitorTypeOK'
    BY <1>1 DEF BoundedInv, Bounded!TypeOK, Bounded!MonitorTypeOK
  <2>4. pc' \in [Threads -> {"out", "test", "wait", "leave"}]
    BY <1>1 DEF BoundedInv, Bounded!TypeOK
  <2> QED BY <2>2, <2>3, <2>4 DEF BoundedInv, Bounded!TypeOK, Bounded!WakeUp
<1>4. WaitInv'
  BY <1>1 DEF BoundedInv, WaitInv
<1>5. ArgInv'
  <2>1. \A p \in Left : Putting(p)' <=> Putting(p)
    BY <1>1 DEF BoundedInv, Bounded!TypeOK, Putting, Bounded!QueueAssumption
  <2> QED BY <2>1 DEF BoundedInv, ArgInv, Bounded!WakeUp
<1>6. /\ Bounded!Roused(Right)' = Bounded!Roused(Right)
      /\ Bounded!Roused(Left)' = Bounded!Roused(Left)
  BY <1>1 DEF BoundedInv, Bounded!TypeOK, Bounded!Roused, Bounded!QueueAssumption
<1>7. Bounded!NoSleepingConsumer' /\ Bounded!NoSleepingProducer'
  BY SameCardinality, <1>1, <1>6 DEF BoundedInv, Bounded!NoSleepingConsumer,
     Bounded!NoSleepingProducer, Bounded!WakeUp
<1> QED BY <1>3, <1>4, <1>5, <1>7 DEF BoundedInv

LEMMA LeaveStep ==
    ASSUME Bounded!QueueAssumption, BoundedInv, NEW t \in Threads, Bounded!Leave(t)
    PROVE  BoundedInv'
<1>1. mutex_' = Bounded!None /\ holder_' = Bounded!None
      /\ waiters' = waiters /\ woken' = woken
      /\ mutex_ = t /\ pc[t] = "leave" /\ pc' = [pc EXCEPT ![t] = "out"]
  BY DEF Bounded!Leave, Bounded!unlock, Bounded!Goto
<1>2. Bounded!TypeOK'
  <2>1. \A r \in Threads : /\ pc'[r] \in {"test", "leave"} <=> mutex_' = r
                           /\ pc'[r] = "wait" <=> r \in Bounded!Blocked'
    BY <1>1, BlockedFacts DEF BoundedInv, Bounded!TypeOK, Bounded!QueueAssumption
  <2> QED BY <1>1, <2>1 DEF BoundedInv, Bounded!TypeOK, Bounded!MonitorTypeOK, Bounded!Leave
<1>3. WaitInv'
  BY <1>1 DEF BoundedInv, WaitInv
<1>4. ArgInv'
  <2>1. \A p \in Left : Putting(p)' <=> Putting(p)
    BY <1>1 DEF BoundedInv, Bounded!TypeOK, Putting, Bounded!QueueAssumption
  <2> QED BY <2>1 DEF BoundedInv, ArgInv, Bounded!Leave
<1>5. /\ Bounded!Roused(Right)' = Bounded!Roused(Right)
      /\ Bounded!Roused(Left)' = Bounded!Roused(Left)
  BY <1>1 DEF BoundedInv, Bounded!TypeOK, Bounded!Roused, Bounded!QueueAssumption
<1>6. Bounded!NoSleepingConsumer' /\ Bounded!NoSleepingProducer'
  BY SameCardinality, <1>1, <1>5 DEF BoundedInv, Bounded!NoSleepingConsumer,
     Bounded!NoSleepingProducer, Bounded!Leave
<1> QED BY <1>2, <1>3, <1>4, <1>6 DEF BoundedInv

LEMMA SpuriousStep ==
    ASSUME Bounded!QueueAssumption, BoundedInv, NEW t \in Threads, Bounded!SpuriousWakeup(t)
    PROVE  BoundedInv'
<1>1. mutex_' = mutex_ /\ holder_' = holder_ /\ woken' = woken \cup {t}
      /\ waiters' = [c \in Conditions |-> waiters[c] \ {t}]
      /\ \E c \in Conditions : t \in waiters[c]
  BY DEF Bounded!SpuriousWakeup, Bounded!Spurious
<1>2. Bounded!TypeOK'
  <2>1. \A r \in Threads : r \in Bounded!Blocked' <=> r \in Bounded!Blocked
    <3> SUFFICES ASSUME NEW r \in Threads
                 PROVE  r \in Bounded!Blocked' <=> r \in Bounded!Blocked
      OBVIOUS
    <3> QED BY <1>1, BlockedFacts
  <2>2. Bounded!MonitorTypeOK'
    BY <1>1 DEF BoundedInv, Bounded!TypeOK, Bounded!MonitorTypeOK
  <2> QED BY <1>1, <2>1, <2>2 DEF BoundedInv, Bounded!TypeOK, Bounded!SpuriousWakeup
<1>3. WaitInv'
  BY <1>1 DEF BoundedInv, WaitInv, Bounded!QueueAssumption
<1>4. ArgInv'
  BY DEF BoundedInv, ArgInv, Putting, Bounded!SpuriousWakeup
<1>5. Bounded!Roused(Right) \subseteq Bounded!Roused(Right)'
      /\ Bounded!Roused(Left) \subseteq Bounded!Roused(Left)'
  BY <1>1 DEF Bounded!Roused, Bounded!SpuriousWakeup
<1>6. Cardinality(Bounded!Roused(Right)) <= Cardinality(Bounded!Roused(Right))'
      /\ Cardinality(Bounded!Roused(Left)) <= Cardinality(Bounded!Roused(Left))'
  BY <1>5, RousedFacts, RousedNext, Counting
<1>7. waiters'["notEmpty_"] \subseteq waiters["notEmpty_"]
      /\ waiters'["notFull_"] \subseteq waiters["notFull_"]
  BY <1>1 DEF Bounded!QueueAssumption
<1>8. Len(ring_) \in Nat /\ Capacity \in Nat
  BY LenProperties DEF BoundedInv, Bounded!TypeOK, Bounded!QueueAssumption
<1>9. Bounded!NoSleepingConsumer'
  BY SameCardinality, <1>6, <1>7, <1>8, RousedFacts, RousedNext DEF BoundedInv,
     Bounded!NoSleepingConsumer, Bounded!SpuriousWakeup
<1>10. Bounded!NoSleepingProducer'
  BY SameCardinality, <1>6, <1>7, <1>8, RousedFacts, RousedNext DEF BoundedInv,
     Bounded!NoSleepingProducer, Bounded!SpuriousWakeup
<1> QED BY <1>2, <1>3, <1>4, <1>9, <1>10 DEF BoundedInv

(* notify() wakes one thread that waits on the condition, if one does.     *)
LEMMA NotifyFacts ==
    ASSUME Bounded!QueueAssumption, Bounded!TypeOK, WaitInv,
           NEW c \in Conditions, Bounded!notify(c)
    PROVE  /\ Bounded!MonitorTypeOK' /\ WaitInv'
           /\ \A t \in Threads : t \in Bounded!Blocked' <=> t \in Bounded!Blocked
           /\ waiters'[c] \subseteq waiters[c] /\ woken \subseteq woken'
           /\ \A d \in Conditions : d # c => waiters'[d] = waiters[d]
           /\ waiters[c] # {} => \E t \in waiters[c] : t \in woken' /\ t \notin woken
<1>1. CASE waiters[c] = {}
  <2>1. UNCHANGED <<waiters, woken, mutex_, holder_>>
    BY <1>1 DEF Bounded!notify
  <2> QED BY <1>1, <2>1 DEF Bounded!TypeOK, Bounded!MonitorTypeOK, WaitInv, Bounded!Blocked
<1>2. CASE waiters[c] # {}
  <2>1. PICK t \in waiters[c] : /\ waiters' = [waiters EXCEPT ![c] = @ \ {t}]
                                /\ woken' = woken \cup {t}
    BY <1>2 DEF Bounded!notify
  <2>2. t \notin woken /\ t \in Threads /\ mutex_' = mutex_ /\ holder_' = holder_
    BY DEF Bounded!notify, Bounded!TypeOK, Bounded!MonitorTypeOK, WaitInv
  <2>3. waiters'[c] = waiters[c] \ {t} /\ waiters' \in [Conditions -> SUBSET Threads]
        /\ \A d \in Conditions : d # c => waiters'[d] = waiters[d]
    BY <2>1 DEF Bounded!TypeOK, Bounded!MonitorTypeOK
  <2>4. Bounded!MonitorTypeOK'
    BY <2>1, <2>2, <2>3 DEF Bounded!TypeOK, Bounded!MonitorTypeOK
  <2>5. \A d \in Conditions : d # c => t \notin waiters[d]
    BY <2>2 DEF WaitInv, Bounded!QueueAssumption
  <2>6. WaitInv'
    BY <2>1, <2>3, <2>5 DEF WaitInv, Bounded!QueueAssumption
  <2>7. \A r \in Threads : r \in Bounded!Blocked' <=> r \in Bounded!Blocked
    <3> SUFFICES ASSUME NEW r \in Threads
                 PROVE  r \in Bounded!Blocked' <=> r \in Bounded!Blocked
      OBVIOUS
    <3> QED BY <2>1, <2>3, BlockedFacts
  <2> QED BY <2>1, <2>2, <2>3, <2>4, <2>6, <2>7
<1> QED BY <1>1, <1>2

(* An item more, and for it a consumer that was asleep.                    *)
LEMMA PutStep ==
    ASSUME Bounded!QueueAssumption, BoundedInv, NEW p \in Left, Bounded!Put(p)
    PROVE  /\ BoundedInv'
           /\ arg[p] \in Items /\ arg[p] \notin put /\ Len(ring_) < Capacity
           /\ ring_' = Append(ring_, arg[p]) /\ put' = put \cup {arg[p]}
<1>1. p \in Threads /\ p \notin Right /\ "notEmpty_" \in Conditions
      /\ "notFull_" \in Conditions /\ Capacity \in Nat
  BY DEF Bounded!QueueAssumption
<1>2. pc[p] = "test" /\ pc' = [pc EXCEPT ![p] = "leave"] /\ mutex_' = mutex_
  BY DEF Bounded!Put, Bounded!notify, Bounded!Goto
<1>3. arg[p] \in Items /\ arg[p] \notin put /\ arg[p] \notin unput
  BY <1>2 DEF BoundedInv, ArgInv, Putting
<1>4. ring_' = Append(ring_, arg[p]) /\ put' = put \cup {arg[p]}
      /\ ring_ \in Seq(Items) /\ Len(ring_) \in Nat /\ Len(ring_) < Capacity
  BY <1>1, LenProperties DEF BoundedInv, Bounded!TypeOK, Bounded!Put, Bounded!push_back,
     Bounded!full
<1>5. ring_' \in Seq(Items) /\ Len(ring_') = Len(ring_) + 1
  BY <1>3, <1>4, AppendProperties
<1>6. Bounded!MonitorTypeOK' /\ WaitInv'
      /\ (\A t \in Threads : t \in Bounded!Blocked' <=> t \in Bounded!Blocked)
      /\ waiters'["notEmpty_"] \subseteq waiters["notEmpty_"] /\ woken \subseteq woken'
      /\ waiters'["notFull_"] = waiters["notFull_"]
      /\ (waiters["notEmpty_"] # {} =>
            \E t \in waiters["notEmpty_"] : t \in woken' /\ t \notin woken)
  BY <1>1, NotifyFacts DEF BoundedInv, Bounded!Put
<1>7. Bounded!TypeOK'
  <2>1. \A t \in Threads : /\ pc'[t] \in {"test", "leave"} <=> mutex_' = t
                           /\ pc'[t] = "wait" <=> t \in Bounded!Blocked'
    BY <1>1, <1>2, <1>6 DEF BoundedInv, Bounded!TypeOK
  <2>2. Len(ring_') <= Capacity /\ put' \subseteq Items
    BY <1>1, <1>3, <1>4, <1>5 DEF BoundedInv, Bounded!TypeOK
  <2> QED BY <1>1, <1>2, <1>5, <1>6, <2>1, <2>2 DEF BoundedInv, Bounded!TypeOK, Bounded!Put
<1>8. ArgInv'
  <2>1. \A q \in Left : Putting(q)' <=> (Putting(q) /\ q # p)
    BY <1>1, <1>2 DEF BoundedInv, Bounded!TypeOK, Putting, Bounded!QueueAssumption
  <2> QED BY <1>2, <1>3, <1>4, <2>1 DEF BoundedInv, ArgInv, Putting, Bounded!Put
<1>9. Bounded!NoSleepingConsumer'
  <2> SUFFICES ASSUME waiters'["notEmpty_"] # {}
               PROVE  Len(ring_') <= Cardinality(Bounded!Roused(Right)')
    BY SameCardinality DEF Bounded!NoSleepingConsumer
  <2>1. PICK t \in waiters["notEmpty_"] : t \in woken' /\ t \notin woken
    BY <1>6
  <2>2. t \in Right /\ t \in Threads /\ pc[t] = "wait"
    BY <2>1, BlockedFacts, <1>1 DEF BoundedInv, Bounded!TypeOK, WaitInv,
       Bounded!QueueAssumption
  <2>3. Bounded!Roused(Right) \subseteq Bounded!Roused(Right)'
    BY <1>1, <1>2, <1>6 DEF BoundedInv, Bounded!TypeOK, Bounded!Roused,
       Bounded!QueueAssumption
  <2>4. t \in Bounded!Roused(Right)' /\ t \notin Bounded!Roused(Right)
    BY <2>1, <2>2 DEF Bounded!Roused
  <2>5. Cardinality(Bounded!Roused(Right)) + 1 <= Cardinality(Bounded!Roused(Right)')
    BY <2>3, <2>4, RousedFacts, RousedNext, Counting
  <2>6. Len(ring_) <= Cardinality(Bounded!Roused(Right))
    BY SameCardinality, <2>1 DEF BoundedInv, Bounded!NoSleepingConsumer
  <2> QED BY <1>4, <1>5, <2>5, <2>6, RousedFacts, RousedNext
<1>10. Bounded!NoSleepingProducer'
  <2>1. Bounded!Roused(Left) \ {p} \subseteq Bounded!Roused(Left)'
    BY <1>1, <1>2, <1>6 DEF BoundedInv, Bounded!TypeOK, Bounded!Roused,
       Bounded!QueueAssumption
  <2>2. Cardinality(Bounded!Roused(Left)) <= Cardinality(Bounded!Roused(Left)') + 1
    BY <2>1, RousedFacts, RousedNext, Counting
  <2> QED BY SameCardinality, <1>1, <1>4, <1>5, <1>6, <2>2, RousedFacts, RousedNext
          DEF BoundedInv, Bounded!NoSleepingProducer
<1> QED BY <1>3, <1>4, <1>6, <1>7, <1>8, <1>9, <1>10 DEF BoundedInv

LEMMA TakeStep ==
    ASSUME Bounded!QueueAssumption, BoundedInv, NEW c \in Right, Bounded!Take(c)
    PROVE  BoundedInv'
<1>1. c \in Threads /\ c \notin Left /\ "notEmpty_" \in Conditions
      /\ "notFull_" \in Conditions /\ Capacity \in Nat
  BY DEF Bounded!QueueAssumption
<1>2. pc[c] = "test" /\ pc' = [pc EXCEPT ![c] = "leave"] /\ mutex_' = mutex_
  BY DEF Bounded!Take, Bounded!notify, Bounded!Goto
<1>3. ring_' = Tail(ring_) /\ ring_ \in Seq(Items) /\ ring_ # <<>>
      /\ Len(ring_) \in Nat
  BY LenProperties DEF BoundedInv, Bounded!TypeOK, Bounded!Take
<1>4. ring_' \in Seq(Items) /\ Len(ring_') = Len(ring_) - 1 /\ Head(ring_) \in Items
      /\ Len(ring_') \in Nat
  BY <1>3, HeadTailProperties, LenProperties, EmptySeq
<1>5. taken' \in [Right -> Seq(Items)]
  <2>1. taken \in [Right -> Seq(Items)] /\ taken[c] \in Seq(Items)
    BY DEF BoundedInv, Bounded!TypeOK
  <2>2. Append(taken[c], Head(ring_)) \in Seq(Items)
    BY <1>4, <2>1, AppendProperties
  <2> QED BY <2>1, <2>2 DEF Bounded!Take
<1>6. Bounded!MonitorTypeOK' /\ WaitInv'
      /\ (\A t \in Threads : t \in Bounded!Blocked' <=> t \in Bounded!Blocked)
      /\ waiters'["notFull_"] \subseteq waiters["notFull_"] /\ woken \subseteq woken'
      /\ waiters'["notEmpty_"] = waiters["notEmpty_"]
      /\ (waiters["notFull_"] # {} =>
            \E t \in waiters["notFull_"] : t \in woken' /\ t \notin woken)
  BY <1>1, NotifyFacts DEF BoundedInv, Bounded!Take
<1>7. Bounded!TypeOK'
  <2>1. \A t \in Threads : /\ pc'[t] \in {"test", "leave"} <=> mutex_' = t
                           /\ pc'[t] = "wait" <=> t \in Bounded!Blocked'
    BY <1>1, <1>2, <1>6 DEF BoundedInv, Bounded!TypeOK
  <2>2. Len(ring_') <= Capacity
    BY <1>1, <1>3, <1>4 DEF BoundedInv, Bounded!TypeOK
  <2> QED BY <1>1, <1>2, <1>4, <1>5, <1>6, <2>1, <2>2 DEF BoundedInv, Bounded!TypeOK,
             Bounded!Take
<1>8. ArgInv'
  <2>1. \A q \in Left : Putting(q)' <=> Putting(q)
    BY <1>1, <1>2 DEF BoundedInv, Bounded!TypeOK, Putting, Bounded!QueueAssumption
  <2> QED BY <2>1 DEF BoundedInv, ArgInv, Bounded!Take
<1>9. Bounded!NoSleepingConsumer'
  <2>1. Bounded!Roused(Right) \ {c} \subseteq Bounded!Roused(Right)'
    BY <1>1, <1>2, <1>6 DEF BoundedInv, Bounded!TypeOK, Bounded!Roused,
       Bounded!QueueAssumption
  <2>2. Cardinality(Bounded!Roused(Right)) <= Cardinality(Bounded!Roused(Right)') + 1
    BY <2>1, RousedFacts, RousedNext, Counting
  <2> QED BY SameCardinality, <1>3, <1>4, <1>6, <2>2, RousedFacts, RousedNext
             DEF BoundedInv, Bounded!NoSleepingConsumer
<1>10. Bounded!NoSleepingProducer'
  <2> SUFFICES ASSUME waiters'["notFull_"] # {}
               PROVE  Capacity - Len(ring_') <= Cardinality(Bounded!Roused(Left)')
    BY SameCardinality DEF Bounded!NoSleepingProducer
  <2>1. PICK t \in waiters["notFull_"] : t \in woken' /\ t \notin woken
    BY <1>6
  <2>2. t \in Left /\ t \in Threads /\ pc[t] = "wait"
    BY <2>1, BlockedFacts, <1>1 DEF BoundedInv, Bounded!TypeOK, WaitInv,
       Bounded!QueueAssumption
  <2>3. Bounded!Roused(Left) \subseteq Bounded!Roused(Left)'
    BY <1>1, <1>2, <1>6 DEF BoundedInv, Bounded!TypeOK, Bounded!Roused,
       Bounded!QueueAssumption
  <2>4. t \in Bounded!Roused(Left)' /\ t \notin Bounded!Roused(Left)
    BY <2>1, <2>2 DEF Bounded!Roused
  <2>5. Cardinality(Bounded!Roused(Left)) + 1 <= Cardinality(Bounded!Roused(Left)')
    BY <2>3, <2>4, RousedFacts, RousedNext, Counting
  <2>6. Capacity - Len(ring_) <= Cardinality(Bounded!Roused(Left))
    BY SameCardinality, <2>1 DEF BoundedInv, Bounded!NoSleepingProducer
  <2> QED BY <1>1, <1>3, <1>4, <2>5, <2>6, RousedFacts, RousedNext
<1> QED BY <1>6, <1>7, <1>8, <1>9, <1>10 DEF BoundedInv

LEMMA Initial ==
    ASSUME Bounded!QueueAssumption, Bounded!Init
    PROVE  BoundedInv
<1>1. Bounded!TypeOK
  BY EmptySeq DEF Bounded!QueueAssumption, Bounded!Init, Bounded!MonitorInit,
     Bounded!TypeOK, Bounded!MonitorTypeOK, Bounded!Blocked
<1> QED
  BY SameCardinality, <1>1 DEF Bounded!QueueAssumption, Bounded!Init, Bounded!MonitorInit,
     BoundedInv, WaitInv, ArgInv, Putting,
     Bounded!NoSleepingConsumer, Bounded!NoSleepingProducer

(* Every step of a thread keeps the invariant.                             *)
LEMMA NextStep ==
    ASSUME Bounded!QueueAssumption, BoundedInv, [Bounded!Next]_(Bounded!vars)
    PROVE  BoundedInv'
<1>1. ASSUME NEW t \in Threads, Bounded!Step(t)
      PROVE  BoundedInv'
  BY <1>1, CallPutStep, CallTakeStep, PutWaitStep, TakeWaitStep, WakeUpStep, PutStep,
     TakeStep, LeaveStep DEF Bounded!Step
<1>2. ASSUME NEW t \in Threads, Bounded!SpuriousWakeup(t)
      PROVE  BoundedInv'
  BY <1>2, SpuriousStep
<1>3. ASSUME UNCHANGED Bounded!vars
      PROVE  BoundedInv'
  <2>1. /\ Bounded!TypeOK' /\ WaitInv'
    BY <1>3 DEF BoundedInv, Bounded!vars, Bounded!monitor, Bounded!TypeOK,
       Bounded!MonitorTypeOK, WaitInv, Bounded!Blocked
  <2>2. ArgInv' /\ Bounded!NoSleepingConsumer' /\ Bounded!NoSleepingProducer'
    BY SameCardinality, <1>3 DEF BoundedInv, Bounded!vars, Bounded!monitor, ArgInv,
       Putting, Bounded!NoSleepingConsumer,
       Bounded!NoSleepingProducer, Bounded!Roused
  <2> QED BY <2>1, <2>2 DEF BoundedInv
<1> QED BY <1>1, <1>2, <1>3 DEF Bounded!Next

(* Every state of the queue has the invariant, so no notification is lost: *)
(* a thread sleeps only while enough of its side are on their way for what *)
(* put() left, or take() made room for.                                    *)
THEOREM QueueInvariant == Bounded!QueueAssumption => (Bounded!Spec => []BoundedInv)
<1> SUFFICES ASSUME Bounded!QueueAssumption
             PROVE  Bounded!Spec => []BoundedInv
  OBVIOUS
<1>1. Bounded!Init => BoundedInv
  BY Initial
<1>2. BoundedInv /\ [Bounded!Next]_(Bounded!vars) => BoundedInv'
  BY NextStep
<1> QED BY <1>1, <1>2, PTL DEF Bounded!Spec

THEOREM NoLostWakeup ==
    Bounded!QueueAssumption => 
        (Bounded!Spec => [](Bounded!NoSleepingConsumer /\ Bounded!NoSleepingProducer))
<1>1. BoundedInv => Bounded!NoSleepingConsumer /\ Bounded!NoSleepingProducer
  BY DEF BoundedInv
<1> QED BY <1>1, QueueInvariant, PTL

(* The calls of put() and take(), with all that happens inside, are single *)
(* steps of a first-in first-out queue that never exceeds its capacity.    *)
LEMMA BoundedIsFifo ==
    ASSUME Bounded!QueueAssumption, BoundedInv, [Bounded!Next]_(Bounded!vars)
    PROVE  Bounded!Fifo!Next \/ UNCHANGED Bounded!Fifo!vars
<1>1. ASSUME NEW p \in Left, Bounded!Put(p)
      PROVE  Bounded!Fifo!Next
  <2>1. Bounded!Fifo!Put(arg[p])
    BY <1>1, PutStep DEF Bounded!Fifo!Put, Bounded!Put
  <2> QED BY <1>1, <2>1, PutStep DEF Bounded!Fifo!Next
<1>2. ASSUME NEW c \in Right, Bounded!Take(c)
      PROVE  Bounded!Fifo!Next
  BY <1>2 DEF Bounded!Take, Bounded!Fifo!Next, Bounded!Fifo!Take
<1>3. ASSUME NEW t \in Threads, Bounded!Step(t)
      PROVE  Bounded!Fifo!Next \/ UNCHANGED Bounded!Fifo!vars
  BY <1>1, <1>2, <1>3 DEF Bounded!Step, Bounded!PutWait, Bounded!CallPut, Bounded!CallTake,
     Bounded!TakeWait, Bounded!WakeUp, Bounded!Leave, Bounded!Fifo!vars
<1>4. ASSUME NEW t \in Threads, Bounded!SpuriousWakeup(t)
      PROVE  UNCHANGED Bounded!Fifo!vars
  BY <1>4 DEF Bounded!SpuriousWakeup, Bounded!Fifo!vars
<1>5. ASSUME UNCHANGED Bounded!vars
      PROVE  UNCHANGED Bounded!Fifo!vars
  BY <1>5 DEF Bounded!vars, Bounded!Fifo!vars
<1> QED BY <1>3, <1>4, <1>5 DEF Bounded!Next

THEOREM Queue == Bounded!QueueAssumption => (Bounded!Spec => Bounded!ImplementsFifoQueue)
<1> SUFFICES ASSUME Bounded!QueueAssumption
             PROVE  Bounded!Spec => Bounded!ImplementsFifoQueue
  OBVIOUS
<1>1. Bounded!Init => Bounded!Fifo!Init
  BY DEF Bounded!Init, Bounded!Fifo!Init
<1>2. BoundedInv /\ [Bounded!Next]_(Bounded!vars) => [Bounded!Fifo!Next]_(Bounded!Fifo!vars)
  BY BoundedIsFifo
<1> QED BY <1>1, <1>2, QueueInvariant, PTL DEF Bounded!Spec, Bounded!ImplementsFifoQueue,
           Bounded!Fifo!Spec

-----------------------------------------------------------------------------
(* A thread waits for one condition at most, and no more when it was       *)
(* notified; a mutex that nobody uses may be destroyed, whatever the class.*)
Monitored ==
    /\ Bounded!MonitorTypeOK /\ Bounded!Destroyable
    /\ \A c \in Conditions : waiters[c] \cap woken = {}
    /\ \A c, d \in Conditions : c # d => waiters[c] \cap waiters[d] = {}

(* BlockingQueue: only consumers wait, what put() brings is new, and the   *)
(* queue holds no more than came.                                          *)
BlockingInv ==
    /\ Blocking!TypeOK /\ Blocking!NoSleepingConsumer
    /\ waiters["notEmpty_"] \subseteq Right
    /\ \A c \in Conditions : c # "notEmpty_" => waiters[c] = {}
    /\ \A p \in Left : pc[p] = "test" => arg[p] \in Elements /\ arg[p] \notin came
    /\ Len(queue_) <= Cardinality(came)

(* CountDownLatch: whoever counts down has a call left.                    *)
LatchInv ==
    /\ Latch!TypeOK /\ Latch!NoEarlyPass
    /\ \A t \in Threads : t \in Latch!Blocked => pc[t] = "wait"
    /\ \A c \in Right : pc[c] \in {"test", "wait"} => calls[c] < MaxCalls
    /\ waiters["notFull_"] = {}

(* ThreadPool: a task that runs is one that was given, that nobody else    *)
(* runs or has run.                                                        *)
HasRun(x) == \E i \in 1..Len(ran) : ran[i].task = x
PoolInv ==
    /\ Pool!TypeOK /\ Pool!TaskOnce /\ Pool!QueueStaysEmpty
    /\ \A x \in Tasks : HasRun(x) => x \in given
    /\ \A c \in Right : poolPc[c] = "task" =>
          task[c] \in Tasks /\ task[c] \in given /\ ~HasRun(task[c])
    /\ \A c, d \in Right :
          poolPc[c] = "task" /\ poolPc[d] = "task" /\ task[c] = task[d] => c = d
    /\ waiters["notFull_"] = {}

(* EventLoopThread: loop_ is published after the object is there and the   *)
(* thread ends after quit(); only ~EventLoopThread calls quit() unasked.   *)
LoopInv ==
    /\ LoopThread!TypeOK
    /\ LoopThread!StartFindsLoop /\ LoopThread!OnlyWakeupIsLate
    /\ object = "unborn" <=> thread \in {"none", "construct"}
    /\ object = "gone" <=> thread = "returned"
    /\ loop_ = "NULL" <=> thread \in {"none", "construct", "callback", "publish"}
    /\ thread = "returned" => quit_
    /\ owner = "created" => thread = "none"
    /\ owner = "started" => loop_ = "loop"
    /\ quit_ => asked \/ owner \in {"quitting", "joining", "done"}

(* The state of a class that is not the subject is as it was made.         *)
Resting ==
    /\ subject # "BoundedBlockingQueue" => ring_ = <<>>
    /\ subject # "BlockingQueue" => queue_ = <<>>
    /\ subject \in {"ThreadPool", "EventLoopThread"} => pc = [t \in Threads |-> "out"]
    /\ subject # "ThreadPool" =>
          /\ tasks_ = <<>> /\ ran = <<>>
          /\ task = [t \in Left \cup Right |-> Pool!None]
    /\ subject = "EventLoopThread" => waiters["notFull_"] = {}

IInv ==
    /\ Monitored /\ Resting /\ LoopInv
    /\ subject \in {"BoundedBlockingQueue", "BlockingQueue", "CountDownLatch",
                    "ThreadPool", "EventLoopThread"}
    /\ subject = "BoundedBlockingQueue" => BoundedInv
    /\ subject = "BlockingQueue" => BlockingInv
    /\ subject = "CountDownLatch" => LatchInv
    /\ subject = "ThreadPool" => PoolInv

(* The classes have one monitor, under names of their own.                 *)
LEMMA SameMonitor ==
    /\ Blocking!Blocked = Bounded!Blocked /\ Latch!Blocked = Bounded!Blocked
    /\ Pool!Blocked = Bounded!Blocked
    /\ Blocking!MonitorTypeOK <=> Bounded!MonitorTypeOK
    /\ Latch!MonitorTypeOK <=> Bounded!MonitorTypeOK
    /\ Pool!MonitorTypeOK <=> Bounded!MonitorTypeOK
    /\ Bounded!None \notin Threads
    /\ Blocking!None = Bounded!None /\ Latch!None = Bounded!None /\ Pool!None = Bounded!None
<1>1. /\ Blocking!None = Bounded!None /\ Latch!None = Bounded!None
      /\ Pool!None = Bounded!None
  BY DEF Bounded!None, Blocking!None, Latch!None, Pool!None
<1>2. /\ Blocking!Blocked = Bounded!Blocked /\ Latch!Blocked = Bounded!Blocked
      /\ Pool!Blocked = Bounded!Blocked
  BY DEF Bounded!Blocked, Blocking!Blocked, Latch!Blocked, Pool!Blocked
<1>3. /\ Blocking!MonitorTypeOK <=> Bounded!MonitorTypeOK
      /\ Latch!MonitorTypeOK <=> Bounded!MonitorTypeOK
      /\ Pool!MonitorTypeOK <=> Bounded!MonitorTypeOK
  BY <1>1 DEF Bounded!MonitorTypeOK, Blocking!MonitorTypeOK, Latch!MonitorTypeOK,
     Pool!MonitorTypeOK
<1>4. Bounded!None \notin Threads
  BY ThreadsAssumption DEF Bounded!QueueAssumption
<1> QED BY <1>1, <1>2, <1>3, <1>4

(* What the calls of MutexLock and Condition do to those who wait.         *)
LEMMA LockKeeps ==
    ASSUME Monitored, NEW t \in Threads, Bounded!lock(t)
    PROVE  Monitored' /\ Bounded!Blocked' = Bounded!Blocked /\ UNCHANGED <<waiters, woken>>
<1>1. t # Bounded!None
  BY SameMonitor
<1> QED BY <1>1 DEF Monitored, Bounded!MonitorTypeOK, Bounded!lock, Bounded!Blocked,
        Bounded!Destroyable

LEMMA UnlockKeeps ==
    ASSUME Monitored, NEW t \in Threads, Bounded!unlock(t)
    PROVE  Monitored' /\ Bounded!Blocked' = Bounded!Blocked /\ UNCHANGED <<waiters, woken>>
BY DEF Monitored, Bounded!MonitorTypeOK, Bounded!unlock, Bounded!Blocked, Bounded!Destroyable

LEMMA WaitKeeps ==
    ASSUME Monitored, NEW t \in Threads, t \notin Bounded!Blocked, NEW c \in Conditions,
           Bounded!wait(t, c)
    PROVE  /\ Monitored' /\ Bounded!Blocked' = Bounded!Blocked \cup {t}
           /\ \A d \in Conditions : d # c => waiters'[d] = waiters[d]
           /\ waiters'[c] = waiters[c] \cup {t} /\ woken' = woken
<1>1. /\ waiters \in [Conditions -> SUBSET Threads]
      /\ waiters' = [waiters EXCEPT ![c] = @ \cup {t}]
      /\ mutex_' = Bounded!None /\ holder_' = holder_ /\ woken' = woken
  BY DEF Monitored, Bounded!MonitorTypeOK, Bounded!wait
<1>2. /\ \A d \in Conditions : d # c => waiters'[d] = waiters[d]
      /\ waiters'[c] = waiters[c] \cup {t}
  BY <1>1
<1>3. Bounded!Blocked' = Bounded!Blocked \cup {t}
  <2>1. \A r : r \in Bounded!Blocked' <=> (r \in Bounded!Blocked \/ r = t)
    <3> SUFFICES ASSUME NEW r
                 PROVE  r \in Bounded!Blocked' <=> (r \in Bounded!Blocked \/ r = t)
      OBVIOUS
    <3> QED BY <1>1, <1>2, BlockedFacts
  <2> QED BY <2>1
<1>4. Bounded!MonitorTypeOK'
  BY <1>1 DEF Monitored, Bounded!MonitorTypeOK
<1>5. /\ \A d \in Conditions : waiters'[d] \cap woken' = {}
      /\ \A d, e \in Conditions : d # e => waiters'[d] \cap waiters'[e] = {}
  <2>1. t \notin woken /\ \A d \in Conditions : t \notin waiters[d]
    BY BlockedFacts
  <2> QED BY <1>1, <1>2, <2>1 DEF Monitored
<1>6. Bounded!Destroyable'
  BY <1>3 DEF Bounded!Destroyable
<1> QED BY <1>1, <1>2, <1>3, <1>4, <1>5, <1>6 DEF Monitored

LEMMA ReacquireKeeps ==
    ASSUME Monitored, NEW t \in Threads, Bounded!Reacquire(t)
    PROVE  /\ Monitored' /\ Bounded!Blocked' = Bounded!Blocked \ {t}
           /\ waiters' = waiters /\ woken' = woken \ {t}
<1>1. t \in woken /\ mutex_' = t /\ holder_' = holder_ /\ waiters' = waiters
      /\ woken' = woken \ {t} /\ t # Bounded!None
  BY SameMonitor DEF Bounded!Reacquire
<1>2. Bounded!Blocked' = Bounded!Blocked \ {t}
  BY <1>1 DEF Monitored, Bounded!Blocked
<1> QED BY <1>1, <1>2 DEF Monitored, Bounded!MonitorTypeOK, Bounded!Destroyable

LEMMA SpuriousKeeps ==
    ASSUME Monitored, NEW t \in Threads, Bounded!Spurious(t)
    PROVE  /\ Monitored' /\ Bounded!Blocked' = Bounded!Blocked
           /\ \A c \in Conditions : waiters'[c] \subseteq waiters[c]
           /\ mutex_' = mutex_ /\ woken \subseteq woken'
<1>1. mutex_' = mutex_ /\ holder_' = holder_ /\ woken' = woken \cup {t}
      /\ waiters' = [c \in Conditions |-> waiters[c] \ {t}]
      /\ \E c \in Conditions : t \in waiters[c]
  BY DEF Bounded!Spurious
<1>2. Bounded!Blocked' = Bounded!Blocked
  <2>1. \A r : r \in Bounded!Blocked' <=> r \in Bounded!Blocked
    <3> SUFFICES ASSUME NEW r
                 PROVE  r \in Bounded!Blocked' <=> r \in Bounded!Blocked
      OBVIOUS
    <3> QED BY <1>1, BlockedFacts
  <2> QED BY <2>1
<1> QED BY <1>1, <1>2 DEF Monitored, Bounded!MonitorTypeOK, Bounded!Destroyable

LEMMA NotifyAllKeeps ==
    ASSUME Monitored, NEW c \in Conditions, Bounded!notifyAll(c)
    PROVE  /\ Monitored' /\ Bounded!Blocked' = Bounded!Blocked
           /\ \A d \in Conditions : waiters'[d] \subseteq waiters[d]
           /\ mutex_' = mutex_
<1>1. mutex_' = mutex_ /\ holder_' = holder_ /\ woken' = woken \cup waiters[c]
      /\ waiters' = [waiters EXCEPT ![c] = {}] /\ waiters \in [Conditions -> SUBSET Threads]
  BY DEF Monitored, Bounded!MonitorTypeOK, Bounded!notifyAll
<1>2. waiters'[c] = {} /\ \A d \in Conditions : d # c => waiters'[d] = waiters[d]
  BY <1>1
<1>3. Bounded!Blocked' = Bounded!Blocked
  <2>1. \A r : r \in Bounded!Blocked' <=> r \in Bounded!Blocked
    <3> SUFFICES ASSUME NEW r
                 PROVE  r \in Bounded!Blocked' <=> r \in Bounded!Blocked
      OBVIOUS
    <3> QED BY <1>1, <1>2, BlockedFacts
  <2> QED BY <2>1
<1>4. Bounded!MonitorTypeOK' /\ Bounded!Destroyable'
  BY <1>1, <1>2, <1>3 DEF Monitored, Bounded!MonitorTypeOK, Bounded!Destroyable
<1>5. \A d, e \in Conditions : d # e => waiters'[d] \cap waiters'[e] = {}
  BY <1>1, <1>2 DEF Monitored
<1>6. \A d \in Conditions : waiters'[d] \subseteq waiters[d] /\ waiters'[d] \cap woken' = {}
  <2> SUFFICES ASSUME NEW d \in Conditions
               PROVE  waiters'[d] \subseteq waiters[d] /\ waiters'[d] \cap woken' = {}
    OBVIOUS
  <2>1. CASE d = c
    BY <1>2, <2>1
  <2>2. CASE d # c
    <3>1. /\ waiters'[d] = waiters[d] /\ waiters[d] \cap woken = {}
          /\ waiters[d] \cap waiters[c] = {}
      BY <1>2, <2>2 DEF Monitored
    <3> QED BY <1>1, <3>1
  <2> QED BY <2>1, <2>2
<1> QED BY <1>1, <1>3, <1>4, <1>5, <1>6 DEF Monitored

LEMMA NotifyKeeps ==
    ASSUME Monitored, NEW c \in Conditions, Bounded!notify(c)
    PROVE  /\ Monitored' /\ Bounded!Blocked' = Bounded!Blocked
           /\ \A d \in Conditions : waiters'[d] \subseteq waiters[d]
           /\ mutex_' = mutex_ /\ woken \subseteq woken'
           /\ waiters[c] # {} => \E t \in waiters[c] : t \in woken' /\ t \notin woken
<1>1. CASE waiters[c] = {}
  <2>1. UNCHANGED <<waiters, woken, mutex_, holder_>>
    BY <1>1 DEF Bounded!notify
  <2> QED BY <1>1, <2>1 DEF Monitored, Bounded!MonitorTypeOK, Bounded!Destroyable,
          Bounded!Blocked
<1>2. CASE waiters[c] # {}
  <2>1. PICK t \in waiters[c] : /\ waiters' = [waiters EXCEPT ![c] = @ \ {t}]
                                /\ woken' = woken \cup {t}
    BY <1>2 DEF Bounded!notify
  <2>2. /\ mutex_' = mutex_ /\ holder_' = holder_ /\ t \notin woken /\ t \in Threads
        /\ waiters \in [Conditions -> SUBSET Threads]
    BY DEF Monitored, Bounded!MonitorTypeOK, Bounded!notify
  <2>3. /\ waiters'[c] = waiters[c] \ {t}
        /\ \A d \in Conditions : d # c => waiters'[d] = waiters[d]
    BY <2>1, <2>2
  <2>4. Bounded!Blocked' = Bounded!Blocked
    <3>1. \A r : r \in Bounded!Blocked' <=> r \in Bounded!Blocked
      <4> SUFFICES ASSUME NEW r
                   PROVE  r \in Bounded!Blocked' <=> r \in Bounded!Blocked
        OBVIOUS
      <4> QED BY <2>1, <2>3, BlockedFacts
    <3> QED BY <3>1
  <2>5. Bounded!MonitorTypeOK' /\ Bounded!Destroyable'
    BY <2>1, <2>2, <2>4 DEF Monitored, Bounded!MonitorTypeOK, Bounded!Destroyable
  <2>6. \A d \in Conditions : waiters'[d] \subseteq waiters[d]
    BY <2>3
  <2>7. \A d \in Conditions : waiters'[d] \cap woken' = {}
    <3> SUFFICES ASSUME NEW d \in Conditions
                 PROVE  waiters'[d] \cap woken' = {}
      OBVIOUS
    <3>1. waiters[d] \cap woken = {} /\ t \notin waiters'[d]
      BY <2>3 DEF Monitored
    <3> QED BY <2>1, <2>6, <3>1
  <2>8. \A d, e \in Conditions : d # e => waiters'[d] \cap waiters'[e] = {}
    BY <2>6 DEF Monitored
  <2> QED BY <2>1, <2>2, <2>4, <2>5, <2>6, <2>7, <2>8 DEF Monitored
<1> QED BY <1>1, <1>2

-----------------------------------------------------------------------------
(* EventLoopThread.                                                        *)
LEMMA LoopThreadStep ==
    ASSUME LoopInv, LoopThread!threadFunc \/ LoopThread!PollTimeout
    PROVE  LoopInv'
<1> USE DEF LoopInv, LoopThread!StartFindsLoop, LoopThread!OnlyWakeupIsLate
<1>0. MaxJobs \in Nat
  BY ThreadsAssumption DEF LoopThread!LoopThreadAssumption
<1>1. CASE LoopThread!Construct
  BY <1>1 DEF LoopThread!TypeOK, LoopThread!Construct, LoopThread!quitting
<1>2. CASE LoopThread!Callback
  <2>1. pendingFunctors_' \in 0..MaxJobs
    <3>1. pendingFunctors_ \in 0..MaxJobs
      BY DEF LoopThread!TypeOK
    <3>2. pendingFunctors_' \in pendingFunctors_..MaxJobs
      BY <1>2 DEF LoopThread!Callback
    <3> HIDE DEF LoopInv
    <3> QED BY <1>0, <3>1, <3>2
  <2>2. /\ thread = "callback" /\ thread' = "publish"
        /\ UNCHANGED <<started_, loop_, object, wakeupFd_, owner, call, late>>
    BY <1>2 DEF LoopThread!Callback
  <2>3. CASE UNCHANGED <<quit_, asked>>
    BY <2>1, <2>2, <2>3 DEF LoopThread!TypeOK
  <2>4. CASE quit_' = TRUE /\ asked' = TRUE
    BY <2>1, <2>2, <2>4 DEF LoopThread!TypeOK
  <2> QED BY <1>2, <2>3, <2>4 DEF LoopThread!Callback, LoopThread!MayQuit, LoopThread!quitting
<1>3. CASE LoopThread!Publish
  BY <1>3 DEF LoopThread!TypeOK, LoopThread!Publish, LoopThread!notify,
     LoopThread!eventLoop, LoopThread!quitting
<1>4. CASE LoopThread!EnterLoop
  BY <1>4 DEF LoopThread!TypeOK, LoopThread!EnterLoop, LoopThread!eventLoop,
     LoopThread!quitting
<1>5. CASE LoopThread!TestQuit
  BY <1>5 DEF LoopThread!TypeOK, LoopThread!TestQuit, LoopThread!quitting
<1>6. CASE LoopThread!Poll
  BY <1>6 DEF LoopThread!TypeOK, LoopThread!Poll, LoopThread!quitting
<1>7. CASE LoopThread!DoPendingFunctors
  <2>1. pendingFunctors_' = 0 /\ 0 \in 0..MaxJobs
    BY <1>0, <1>7 DEF LoopThread!DoPendingFunctors
  <2> QED BY <1>7, <2>1 DEF LoopThread!TypeOK, LoopThread!DoPendingFunctors,
          LoopThread!MayQuit, LoopThread!quitting
<1> QED BY <1>1, <1>2, <1>3, <1>4, <1>5, <1>6, <1>7
        DEF LoopThread!threadFunc, LoopThread!PollTimeout, LoopThread!PollWakeup

LEMMA LoopOwnerStep ==
    ASSUME LoopInv,
           \/ LoopThread!startLoop \/ LoopThread!SpuriousWakeup
           \/ LoopThread!Destroy \/ LoopThread!OwnerSteps
    PROVE  LoopInv'
<1> USE DEF LoopInv, LoopThread!StartFindsLoop, LoopThread!OnlyWakeupIsLate
<1>1. CASE LoopThread!startLoop
  BY <1>1 DEF LoopThread!TypeOK, LoopThread!startLoop, LoopThread!eventLoop,
     LoopThread!quitting
<1>2. CASE LoopThread!SpuriousWakeup
  BY <1>2 DEF LoopThread!TypeOK, LoopThread!SpuriousWakeup, LoopThread!eventLoop,
     LoopThread!quitting
<1>3. CASE LoopThread!Destroy
  BY <1>3 DEF LoopThread!TypeOK, LoopThread!Destroy, LoopThread!MayDestroy,
     LoopThread!Touch, LoopThread!quitting
<1>4. CASE LoopThread!AwaitLoop
  BY <1>4 DEF LoopThread!TypeOK, LoopThread!AwaitLoop, LoopThread!eventLoop,
     LoopThread!quitting
<1>5. CASE LoopThread!DestroyWakeup
  BY <1>5 DEF LoopThread!TypeOK, LoopThread!DestroyWakeup, LoopThread!Touch,
     LoopThread!quitting
<1>6. CASE LoopThread!Join
  BY <1>6 DEF LoopThread!TypeOK, LoopThread!Join, LoopThread!eventLoop,
     LoopThread!quitting
<1> QED BY <1>1, <1>2, <1>3, <1>4, <1>5, <1>6 DEF LoopThread!OwnerSteps

LEMMA LoopUserStep ==
    ASSUME LoopInv, NEW u \in LoopThread!Users,
           LoopThread!queueInLoop(u) \/ LoopThread!quit(u) \/ LoopThread!wakeup(u)
    PROVE  LoopInv'
<1> USE DEF LoopInv, LoopThread!StartFindsLoop, LoopThread!OnlyWakeupIsLate
<1>1. CASE LoopThread!queueInLoop(u)
  <2>1. pendingFunctors_' \in 0..MaxJobs
    BY <1>1, ThreadsAssumption DEF LoopThread!TypeOK, LoopThread!queueInLoop,
       LoopThread!LoopThreadAssumption
  <2> QED BY <1>1, <2>1 DEF LoopThread!TypeOK, LoopThread!queueInLoop,
          LoopThread!MayCall, LoopThread!Touch, LoopThread!quitting
<1>2. CASE LoopThread!quit(u)
  BY <1>2 DEF LoopThread!TypeOK, LoopThread!quit, LoopThread!MayCall, LoopThread!Touch
<1>3. CASE LoopThread!wakeup(u)
  BY <1>3 DEF LoopThread!TypeOK, LoopThread!wakeup, LoopThread!Touch,
     LoopThread!quitting
<1> QED BY <1>1, <1>2, <1>3

LEMMA LoopKept ==
    ASSUME LoopInv, UNCHANGED loopThread
    PROVE  LoopInv'
BY DEF loopThread, LoopInv, LoopThread!TypeOK, LoopThread!StartFindsLoop,
   LoopThread!OnlyWakeupIsLate

LEMMA LoopInitial ==
    ASSUME LoopThread!Init
    PROVE  LoopInv
<1>1. 0 \in 0..MaxJobs
  BY ThreadsAssumption DEF LoopThread!LoopThreadAssumption
<1>2. LoopThread!TypeOK
  BY <1>1 DEF LoopThread!Init, LoopThread!TypeOK
<1> QED BY <1>2 DEF LoopThread!Init, LoopInv, LoopThread!StartFindsLoop,
        LoopThread!OnlyWakeupIsLate

-----------------------------------------------------------------------------
(* The calls of every class are those of the monitor.                      *)
LEMMA SameCalls ==
    ASSUME NEW t, NEW c
    PROVE  /\ Blocking!lock(t) <=> Bounded!lock(t)
           /\ Latch!lock(t) <=> Bounded!lock(t)
           /\ Pool!lock(t) <=> Bounded!lock(t)
           /\ Blocking!unlock(t) <=> Bounded!unlock(t)
           /\ Latch!unlock(t) <=> Bounded!unlock(t)
           /\ Pool!unlock(t) <=> Bounded!unlock(t)
           /\ Blocking!wait(t, c) <=> Bounded!wait(t, c)
           /\ Latch!wait(t, c) <=> Bounded!wait(t, c)
           /\ Pool!wait(t, c) <=> Bounded!wait(t, c)
           /\ Blocking!Reacquire(t) <=> Bounded!Reacquire(t)
           /\ Latch!Reacquire(t) <=> Bounded!Reacquire(t)
           /\ Pool!Reacquire(t) <=> Bounded!Reacquire(t)
           /\ Blocking!Spurious(t) <=> Bounded!Spurious(t)
           /\ Latch!Spurious(t) <=> Bounded!Spurious(t)
           /\ Pool!Spurious(t) <=> Bounded!Spurious(t)
           /\ Blocking!notify(c) <=> Bounded!notify(c)
           /\ Pool!notify(c) <=> Bounded!notify(c)
           /\ Latch!notifyAll(c) <=> Bounded!notifyAll(c)
           /\ Pool!notifyAll(c) <=> Bounded!notifyAll(c)
<1>1. /\ Blocking!lock(t) <=> Bounded!lock(t)
      /\ Latch!lock(t) <=> Bounded!lock(t)
      /\ Pool!lock(t) <=> Bounded!lock(t)
  BY SameMonitor DEF Bounded!lock, Blocking!lock, Latch!lock, Pool!lock
<1>2. /\ Blocking!unlock(t) <=> Bounded!unlock(t)
      /\ Latch!unlock(t) <=> Bounded!unlock(t)
      /\ Pool!unlock(t) <=> Bounded!unlock(t)
  BY SameMonitor DEF Bounded!unlock, Blocking!unlock, Latch!unlock, Pool!unlock
<1>3. /\ Blocking!wait(t, c) <=> Bounded!wait(t, c)
      /\ Latch!wait(t, c) <=> Bounded!wait(t, c)
      /\ Pool!wait(t, c) <=> Bounded!wait(t, c)
  BY SameMonitor DEF Bounded!wait, Blocking!wait, Latch!wait, Pool!wait
<1>4. /\ Blocking!Reacquire(t) <=> Bounded!Reacquire(t)
      /\ Latch!Reacquire(t) <=> Bounded!Reacquire(t)
      /\ Pool!Reacquire(t) <=> Bounded!Reacquire(t)
  BY SameMonitor DEF Bounded!Reacquire, Blocking!Reacquire, Latch!Reacquire, Pool!Reacquire
<1>5. /\ Blocking!Spurious(t) <=> Bounded!Spurious(t)
      /\ Latch!Spurious(t) <=> Bounded!Spurious(t)
      /\ Pool!Spurious(t) <=> Bounded!Spurious(t)
  BY DEF Bounded!Spurious, Blocking!Spurious, Latch!Spurious, Pool!Spurious
<1>6. /\ Blocking!notify(c) <=> Bounded!notify(c)
      /\ Pool!notify(c) <=> Bounded!notify(c)
      /\ Latch!notifyAll(c) <=> Bounded!notifyAll(c)
      /\ Pool!notifyAll(c) <=> Bounded!notifyAll(c)
  BY DEF Bounded!notify, Blocking!notify, Pool!notify, Bounded!notifyAll, Latch!notifyAll,
     Pool!notifyAll
<1> QED BY <1>1, <1>2, <1>3, <1>4, <1>5, <1>6

LEMMA MonitorTypes ==
    ASSUME Monitored'
    PROVE  Blocking!MonitorTypeOK' /\ Latch!MonitorTypeOK' /\ Pool!MonitorTypeOK'
BY SameMonitor DEF Monitored, Bounded!MonitorTypeOK, Blocking!MonitorTypeOK,
   Latch!MonitorTypeOK, Pool!MonitorTypeOK, Bounded!None, Blocking!None, Latch!None,
   Pool!None

LEMMA ThreadFacts ==
    /\ Left \subseteq Threads /\ Right \subseteq Threads /\ Left \cap Right = {}
    /\ "condition_" \in Conditions /\ "notFull_" \in Conditions /\ "cond_" \in Conditions
    /\ "notEmpty_" \in Conditions
    /\ Count \in Int /\ MaxCalls \in Nat /\ Owner \in Threads /\ Owner \notin Left \cup Right
BY ThreadsAssumption DEF Bounded!QueueAssumption, Latch!LatchAssumption,
   Pool!PoolAssumption

(* CountDownLatch.                                                         *)
LEMMA LatchCall ==
    ASSUME Monitored, LatchInv, NEW t \in Left \cup Right, Latch!Call(t)
    PROVE  Monitored' /\ LatchInv'
<1>1. t \in Threads /\ Bounded!lock(t) /\ t # Bounded!None
  BY ThreadFacts, SameCalls, SameMonitor DEF Latch!Call
<1>2. Monitored' /\ Bounded!Blocked' = Bounded!Blocked /\ UNCHANGED <<waiters, woken>>
  BY <1>1, LockKeeps
<1>3. /\ pc[t] = "out" /\ pc' = [pc EXCEPT ![t] = "test"] /\ count_' = count_
      /\ calls' = calls /\ mutex_ = Bounded!None /\ mutex_' = t
      /\ t \in Right => calls[t] < MaxCalls
  BY <1>1 DEF Latch!Call, Latch!Goto, Bounded!lock
<1>4. Latch!MonitorTypeOK'
  BY <1>2, MonitorTypes
<1>5. Latch!TypeOK'
  BY <1>1, <1>3, <1>4, SameMonitor DEF LatchInv, Latch!TypeOK
<1>6. /\ pc \in [Threads -> {"out", "test", "wait", "leave", "passed"}]
      /\ Right \subseteq Threads /\ Left \subseteq Threads
  BY ThreadFacts DEF LatchInv, Latch!TypeOK
<1>7. Latch!Blocked' = Latch!Blocked
  BY <1>2 DEF Latch!Blocked
<1> QED BY <1>1, <1>2, <1>3, <1>5, <1>6, <1>7 DEF LatchInv, Latch!NoEarlyPass

LEMMA LatchWaitTest ==
    ASSUME Monitored, LatchInv, NEW t \in Left, Latch!WaitTest(t)
    PROVE  Monitored' /\ LatchInv'
<1>1. t \in Threads /\ t \notin Right /\ t # Bounded!None
  BY ThreadFacts, SameMonitor
<1>2. /\ pc \in [Threads -> {"out", "test", "wait", "leave", "passed"}]
      /\ Right \subseteq Threads /\ Left \subseteq Threads
      /\ pc[t] = "test" /\ count_' = count_ /\ calls' = calls /\ mutex_ = t
      /\ t \notin Bounded!Blocked
      /\ count_ \in Int
  BY <1>1, ThreadFacts, SameMonitor DEF LatchInv, Latch!TypeOK, Latch!WaitTest
<1>3. CASE count_ > 0
  <2>1. Bounded!wait(t, "condition_") /\ pc' = [pc EXCEPT ![t] = "wait"]
    BY <1>3, SameCalls DEF Latch!WaitTest, Latch!Goto
  <2>2. /\ Monitored' /\ Bounded!Blocked' = Bounded!Blocked \cup {t}
        /\ waiters'["notFull_"] = waiters["notFull_"] /\ mutex_' = Bounded!None
    BY <1>1, <1>2, <2>1, ThreadFacts, WaitKeeps DEF Bounded!wait
  <2>3. Latch!MonitorTypeOK'
    BY <2>2, MonitorTypes
  <2>4. Latch!TypeOK'
    BY <1>1, <1>2, <2>1, <2>2, <2>3, SameMonitor DEF LatchInv, Latch!TypeOK
  <2>5. Latch!Blocked' = Latch!Blocked \cup {t}
    BY <2>2 DEF Latch!Blocked, Bounded!Blocked
  <2> QED BY <1>1, <1>2, <2>1, <2>2, <2>4, <2>5 DEF LatchInv, Latch!NoEarlyPass
<1>4. CASE ~(count_ > 0)
  <2>1. Bounded!unlock(t) /\ pc' = [pc EXCEPT ![t] = "passed"]
    BY <1>4, SameCalls DEF Latch!WaitTest, Latch!Goto
  <2>2. /\ Monitored' /\ Bounded!Blocked' = Bounded!Blocked /\ UNCHANGED <<waiters, woken>>
        /\ mutex_' = Bounded!None
    BY <1>1, <2>1, UnlockKeeps DEF Bounded!unlock
  <2>3. Latch!MonitorTypeOK'
    BY <2>2, MonitorTypes
  <2>4. Latch!TypeOK'
    BY <1>1, <1>2, <2>1, <2>2, <2>3, SameMonitor DEF LatchInv, Latch!TypeOK
  <2>5. Latch!Blocked' = Latch!Blocked
    BY <2>2 DEF Latch!Blocked
  <2>6. t \notin Latch!Blocked /\ count_ <= 0
    BY <1>2, <1>4, SameMonitor
  <2> QED BY <1>1, <1>2, <2>1, <2>2, <2>4, <2>5, <2>6 DEF LatchInv, Latch!NoEarlyPass
<1> QED BY <1>3, <1>4

LEMMA LatchWakeUp ==
    ASSUME Monitored, LatchInv, NEW t \in Left, Latch!WakeUp(t)
    PROVE  Monitored' /\ LatchInv'
<1>1. /\ t \in Threads /\ t \notin Right /\ t # Bounded!None /\ Bounded!Reacquire(t)
      /\ pc' = [pc EXCEPT ![t] = "test"] /\ count_' = count_ /\ calls' = calls
  BY ThreadFacts, SameCalls, SameMonitor DEF Latch!WakeUp, Latch!Goto
<1>2. /\ pc \in [Threads -> {"out", "test", "wait", "leave", "passed"}]
      /\ Right \subseteq Threads /\ Left \subseteq Threads
      /\ mutex_ = Bounded!None /\ mutex_' = t
  BY <1>1, ThreadFacts DEF LatchInv, Latch!TypeOK, Bounded!Reacquire
<1>3. /\ Monitored' /\ Bounded!Blocked' = Bounded!Blocked \ {t}
      /\ waiters' = waiters
  BY <1>1, ReacquireKeeps
<1>4. Latch!MonitorTypeOK'
  BY <1>3, MonitorTypes
<1>5. Latch!TypeOK'
  BY <1>1, <1>2, <1>4, SameMonitor DEF LatchInv, Latch!TypeOK
<1>6. Latch!Blocked' = Latch!Blocked \ {t}
  BY <1>3 DEF Latch!Blocked, Bounded!Blocked
<1> QED BY <1>1, <1>2, <1>3, <1>5, <1>6 DEF LatchInv, Latch!NoEarlyPass

LEMMA LatchCountDown ==
    ASSUME Monitored, LatchInv, NEW t \in Right, Latch!CountDown(t)
    PROVE  Monitored' /\ LatchInv'
<1>1. t \in Threads /\ t \notin Left /\ t # Bounded!None
  BY ThreadFacts, SameMonitor
<1>2. /\ pc \in [Threads -> {"out", "test", "wait", "leave", "passed"}]
      /\ Right \subseteq Threads /\ Left \subseteq Threads
      /\ pc[t] = "test" /\ pc' = [pc EXCEPT ![t] = "leave"] /\ mutex_ = t
      /\ count_' = count_ - 1 /\ calls' = [calls EXCEPT ![t] = @ + 1]
      /\ count_ \in Int /\ calls \in [Right -> 0..MaxCalls] /\ calls[t] < MaxCalls
      /\ t \notin Latch!Blocked /\ MaxCalls \in Nat
  BY <1>1, ThreadFacts DEF LatchInv, Latch!TypeOK, Latch!CountDown, Latch!Goto
<1>3. /\ Monitored' /\ Bounded!Blocked' = Bounded!Blocked /\ mutex_' = mutex_
      /\ waiters'["notFull_"] = {}
  <2>1. CASE count_ = 1
    <3>1. Bounded!notifyAll("condition_")
      BY <2>1, SameCalls DEF Latch!CountDown
    <3> QED BY <3>1, ThreadFacts, NotifyAllKeeps DEF LatchInv
  <2>2. CASE count_ # 1
    <3>1. UNCHANGED <<mutex_, holder_, waiters, woken>>
      BY <2>2 DEF Latch!CountDown, Latch!monitor
    <3> QED BY <3>1 DEF Monitored, Bounded!MonitorTypeOK, Bounded!Destroyable,
            Bounded!Blocked, LatchInv
  <2> QED BY <2>1, <2>2
<1>4. Latch!MonitorTypeOK'
  BY <1>3, MonitorTypes
<1>5. calls' \in [Right -> 0..MaxCalls] /\ count_' \in Int /\ calls[t] + 1 \in 0..MaxCalls
  BY <1>2
<1>6. Latch!TypeOK'
  BY <1>1, <1>2, <1>3, <1>4, <1>5 DEF LatchInv, Latch!TypeOK
<1>7. Latch!Blocked' = Latch!Blocked
  BY <1>3 DEF Latch!Blocked, Bounded!Blocked
<1>8. Latch!NoEarlyPass'
  BY <1>1, <1>2 DEF LatchInv, Latch!NoEarlyPass
<1>9. \A r \in Threads : r \in Latch!Blocked' => pc'[r] = "wait"
  BY <1>2, <1>7 DEF LatchInv
<1>10. \A c \in Right : pc'[c] \in {"test", "wait"} => calls'[c] < MaxCalls
  BY <1>2 DEF LatchInv
<1> QED BY <1>3, <1>6, <1>8, <1>9, <1>10 DEF LatchInv

LEMMA LatchLeave ==
    ASSUME Monitored, LatchInv, NEW t \in Right, Latch!Leave(t)
    PROVE  Monitored' /\ LatchInv'
<1>1. /\ t \in Threads /\ t \notin Left /\ t # Bounded!None /\ Bounded!unlock(t)
      /\ pc[t] = "leave" /\ pc' = [pc EXCEPT ![t] = "out"]
      /\ count_' = count_ /\ calls' = calls
  BY ThreadFacts, SameCalls, SameMonitor DEF Latch!Leave, Latch!Goto
<1>2. /\ pc \in [Threads -> {"out", "test", "wait", "leave", "passed"}]
      /\ Right \subseteq Threads /\ Left \subseteq Threads
      /\ mutex_ = t /\ mutex_' = Bounded!None /\ t \notin Latch!Blocked
  BY <1>1, ThreadFacts DEF LatchInv, Latch!TypeOK, Bounded!unlock
<1>3. Monitored' /\ UNCHANGED <<waiters, woken>>
  BY <1>1, UnlockKeeps
<1>4. Latch!MonitorTypeOK'
  BY <1>3, MonitorTypes
<1>5. Latch!TypeOK'
  BY <1>1, <1>2, <1>4, SameMonitor DEF LatchInv, Latch!TypeOK
<1>6. Latch!Blocked' = Latch!Blocked
  BY <1>3 DEF Latch!Blocked
<1> QED BY <1>1, <1>2, <1>3, <1>5, <1>6 DEF LatchInv, Latch!NoEarlyPass

LEMMA LatchSpurious ==
    ASSUME Monitored, LatchInv, NEW t \in Left \cup Right, Latch!SpuriousWakeup(t)
    PROVE  Monitored' /\ LatchInv'
<1>1. t \in Threads /\ Bounded!Spurious(t) /\ UNCHANGED <<pc, count_, calls>>
  BY ThreadFacts, SameCalls DEF Latch!SpuriousWakeup
<1>2. /\ Monitored' /\ Bounded!Blocked' = Bounded!Blocked /\ mutex_' = mutex_
      /\ waiters'["notFull_"] \subseteq waiters["notFull_"]
  BY <1>1, ThreadFacts, SpuriousKeeps
<1>3. Latch!MonitorTypeOK'
  BY <1>2, MonitorTypes
<1>4. Latch!Blocked' = Latch!Blocked
  BY <1>2 DEF Latch!Blocked, Bounded!Blocked
<1> QED BY <1>1, <1>2, <1>3, <1>4 DEF LatchInv, Latch!TypeOK, Latch!NoEarlyPass

LEMMA LatchStep ==
    ASSUME Monitored, LatchInv, Latch!Next
    PROVE  Monitored' /\ LatchInv'
<1>1. PICK t \in Left \cup Right : Latch!Step(t) \/ Latch!SpuriousWakeup(t)
  BY DEF Latch!Next
<1> QED BY <1>1, LatchCall, LatchWaitTest, LatchWakeUp, LatchCountDown, LatchLeave,
        LatchSpurious DEF Latch!Step

-----------------------------------------------------------------------------
(* BlockingQueue.                                                          *)
LEMMA BlockingFacts ==
    ASSUME BlockingInv
    PROVE  /\ pc \in [Threads -> {"out", "test", "wait", "leave"}]
           /\ queue_ \in Seq(Elements) /\ Len(queue_) \in Nat
           /\ came \subseteq Elements /\ IsFiniteSet(came) /\ Cardinality(came) \in Nat
           /\ arg \in [Left -> Elements \cup {Bounded!None}]
           /\ \A t \in Threads : /\ pc[t] \in {"test", "leave"} <=> mutex_ = t
                                 /\ pc[t] = "wait" <=> t \in Bounded!Blocked
<1>1. came \subseteq Elements /\ queue_ \in Seq(Elements)
  BY DEF BlockingInv, Blocking!TypeOK
<1>2. IsFiniteSet(Elements)
  BY ThreadsAssumption, SameFinite DEF Blocking!QueueAssumption
<1>3. IsFiniteSet(came) /\ Cardinality(came) \in Nat
  BY <1>1, <1>2, FS_Subset, FS_CardinalityType
<1>4. Len(queue_) \in Nat
  BY <1>1, LenProperties
<1> QED BY <1>1, <1>3, <1>4, SameMonitor DEF BlockingInv, Blocking!TypeOK

(* What its invariant says of the consumers that sleep.                    *)
LEMMA BlockingCount ==
    /\ Blocking!NoSleepingConsumer <=>
          (waiters["notEmpty_"] # {} => Len(queue_) <= Cardinality(Bounded!Roused(Right)))
    /\ Blocking!NoSleepingConsumer' <=>
          (waiters'["notEmpty_"] # {} =>
              Len(queue_') <= Cardinality(Bounded!Roused(Right)'))
BY SameCardinality DEF Blocking!NoSleepingConsumer, Bounded!Roused

LEMMA CountFacts ==
    /\ IsFiniteSet(Bounded!Roused(Left)) /\ Cardinality(Bounded!Roused(Left)) \in Nat
    /\ IsFiniteSet(Bounded!Roused(Right)) /\ Cardinality(Bounded!Roused(Right)) \in Nat
    /\ IsFiniteSet(Bounded!Roused(Left)') /\ Cardinality(Bounded!Roused(Left)') \in Nat
    /\ IsFiniteSet(Bounded!Roused(Right)') /\ Cardinality(Bounded!Roused(Right)') \in Nat
BY ThreadsAssumption, RousedFacts, RousedNext

(* A thread that locks the mutex, or takes it back.                        *)
LEMMA BlockingEnter ==
    ASSUME Monitored, BlockingInv, NEW t \in Threads,
           \/ pc[t] = "out" /\ Bounded!lock(t)
           \/ t \in Right /\ Bounded!Reacquire(t),
           pc' = [pc EXCEPT ![t] = "test"],
           arg' \in [Left -> Elements \cup {Bounded!None}],
           \A p \in Left : arg'[p] = arg[p] \/ p = t,
           t \in Left => arg'[t] \in Elements /\ arg'[t] \notin came,
           UNCHANGED <<queue_, came, got>>
    PROVE  Monitored' /\ BlockingInv'
<1>1. /\ t # Bounded!None /\ Left \subseteq Threads /\ Right \subseteq Threads
      /\ mutex_ = Bounded!None /\ mutex_' = t
  BY SameMonitor, ThreadFacts DEF Bounded!lock, Bounded!Reacquire
<1>2. /\ Monitored' /\ waiters' = waiters /\ woken \subseteq woken' \cup {t}
      /\ \A r \in Threads : r # t => (r \in Bounded!Blocked' <=> r \in Bounded!Blocked)
      /\ t \notin Bounded!Blocked'
  <2>1. CASE pc[t] = "out" /\ Bounded!lock(t)
    <3>1. t \notin Bounded!Blocked
      BY <2>1, BlockingFacts
    <3> QED BY <2>1, <3>1, LockKeeps
  <2>2. CASE Bounded!Reacquire(t)
    BY <2>2, ReacquireKeeps
  <2> QED BY <2>1, <2>2
<1>3. Blocking!MonitorTypeOK'
  BY <1>2, MonitorTypes
<1>4. \A r \in Threads : /\ pc'[r] \in {"test", "leave"} <=> mutex_' = r
                         /\ pc'[r] = "wait" <=> r \in Bounded!Blocked'
  BY <1>1, <1>2, BlockingFacts, SameMonitor
<1>5. Blocking!Blocked' = Bounded!Blocked' /\ Blocking!None = Bounded!None
  BY SameMonitor DEF Blocking!Blocked, Bounded!Blocked
<1>6. pc' \in [Threads -> {"out", "test", "wait", "leave"}]
  BY BlockingFacts
<1>7. Blocking!TypeOK'
  BY <1>3, <1>4, <1>5, <1>6 DEF BlockingInv, Blocking!TypeOK
<1>8. \A p \in Left : pc'[p] = "test" => arg'[p] \in Elements /\ arg'[p] \notin came'
  BY <1>1, <1>4
<1>9. Blocking!NoSleepingConsumer'
  <2>1. Bounded!Roused(Right) \subseteq Bounded!Roused(Right)'
    BY <1>1, <1>2, BlockingFacts DEF Bounded!Roused
  <2>2. Cardinality(Bounded!Roused(Right)) <= Cardinality(Bounded!Roused(Right)')
    BY <2>1, CountFacts, Counting
  <2>3. Blocking!NoSleepingConsumer
    BY DEF BlockingInv
  <2> QED BY <1>2, <2>2, <2>3, CountFacts, BlockingCount, BlockingFacts
<1> QED BY <1>2, <1>7, <1>8, <1>9 DEF BlockingInv

LEMMA BlockingCallPut ==
    ASSUME Monitored, BlockingInv, NEW p \in Left, NEW x \in Elements,
           Blocking!CallPut(p, x)
    PROVE  Monitored' /\ BlockingInv'
<1>1. p \in Threads /\ pc[p] = "out" /\ Bounded!lock(p)
  BY ThreadFacts, SameCalls DEF Blocking!CallPut
<1>2. pc' = [pc EXCEPT ![p] = "test"] /\ arg' = [arg EXCEPT ![p] = x]
      /\ x \notin came /\ UNCHANGED <<queue_, came, got>>
  BY DEF Blocking!CallPut, Blocking!Goto
<1>3. /\ arg' \in [Left -> Elements \cup {Bounded!None}] /\ arg'[p] = x
      /\ \A q \in Left : arg'[q] = arg[q] \/ q = p
  BY <1>2, BlockingFacts
<1> QED BY <1>1, <1>2, <1>3, BlockingEnter

LEMMA BlockingCallTake ==
    ASSUME Monitored, BlockingInv, NEW c \in Right,
           Blocking!CallTake(c) \/ Blocking!WakeUp(c)
    PROVE  Monitored' /\ BlockingInv'
<1>1. c \in Threads /\ c \notin Left
  BY ThreadFacts
<1>2. (pc[c] = "out" /\ Bounded!lock(c)) \/ Bounded!Reacquire(c)
  BY SameCalls DEF Blocking!CallTake, Blocking!WakeUp
<1>3. pc' = [pc EXCEPT ![c] = "test"] /\ UNCHANGED <<queue_, arg, came, got>>
  BY DEF Blocking!CallTake, Blocking!WakeUp, Blocking!Goto
<1> QED BY <1>1, <1>2, <1>3, BlockingEnter, BlockingFacts

LEMMA BlockingTakeWait ==
    ASSUME Monitored, BlockingInv, NEW c \in Right, Blocking!TakeWait(c)
    PROVE  Monitored' /\ BlockingInv'
<1>1. c \in Threads /\ c \notin Left /\ c # Bounded!None
  BY ThreadFacts, SameMonitor
<1>2. /\ pc[c] = "test" /\ queue_ = <<>> /\ pc' = [pc EXCEPT ![c] = "wait"]
      /\ Bounded!wait(c, "notEmpty_") /\ UNCHANGED <<queue_, arg, got, came>>
  BY SameCalls DEF Blocking!TakeWait, Blocking!Goto
<1>3. /\ mutex_ = c /\ mutex_' = Bounded!None /\ c \notin Bounded!Blocked
  BY <1>1, <1>2, BlockingFacts DEF Bounded!wait
<1>4. /\ Monitored' /\ Bounded!Blocked' = Bounded!Blocked \cup {c}
      /\ \A d \in Conditions : d # "notEmpty_" => waiters'[d] = waiters[d]
      /\ waiters'["notEmpty_"] = waiters["notEmpty_"] \cup {c}
  BY <1>1, <1>2, <1>3, ThreadFacts, WaitKeeps
<1>5. \A r \in Threads : /\ pc'[r] \in {"test", "leave"} <=> mutex_' = r
                         /\ pc'[r] = "wait" <=> r \in Bounded!Blocked'
  BY <1>1, <1>2, <1>3, <1>4, BlockingFacts, SameMonitor
<1>6. Blocking!Blocked' = Bounded!Blocked' /\ Blocking!MonitorTypeOK'
  BY <1>4, MonitorTypes DEF Blocking!Blocked, Bounded!Blocked
<1>7. pc' \in [Threads -> {"out", "test", "wait", "leave"}]
  BY <1>2, BlockingFacts
<1>8. Blocking!TypeOK'
  BY <1>2, <1>5, <1>6, <1>7 DEF BlockingInv, Blocking!TypeOK
<1>9. Blocking!NoSleepingConsumer'
  BY <1>2, CountFacts, BlockingCount
<1>10. \A p \in Left : pc'[p] = "test" => arg'[p] \in Elements /\ arg'[p] \notin came'
  BY <1>1, <1>2, ThreadFacts, BlockingFacts DEF BlockingInv
<1> QED BY <1>2, <1>4, <1>8, <1>9, <1>10 DEF BlockingInv

(* An item more, and for it a consumer that was asleep.                    *)
LEMMA BlockingPut ==
    ASSUME Monitored, BlockingInv, NEW p \in Left, Blocking!Put(p)
    PROVE  /\ Monitored' /\ BlockingInv'
           /\ arg[p] \in Elements /\ arg[p] \notin came
           /\ Len(queue_) < Cardinality(Elements)
<1>1. p \in Threads /\ p \notin Right
  BY ThreadFacts
<1>2. /\ pc[p] = "test" /\ pc' = [pc EXCEPT ![p] = "leave"]
      /\ Bounded!notify("notEmpty_")
      /\ queue_' = Append(queue_, arg[p]) /\ came' = came \cup {arg[p]}
      /\ UNCHANGED <<arg, got>>
  BY SameCalls DEF Blocking!Put, Blocking!Goto
<1>3. arg[p] \in Elements /\ arg[p] \notin came
  BY <1>2 DEF BlockingInv
<1>4. queue_' \in Seq(Elements) /\ Len(queue_') = Len(queue_) + 1
  BY <1>2, <1>3, BlockingFacts, AppendProperties
<1>5. Cardinality(came') = Cardinality(came) + 1 /\ came' \subseteq Elements
  BY <1>2, <1>3, BlockingFacts, FS_AddElement
<1>6. Len(queue_') <= Cardinality(came')
  BY <1>4, <1>5, BlockingFacts DEF BlockingInv
<1>7. Len(queue_) < Cardinality(Elements)
  <2>1. IsFiniteSet(Elements)
    BY ThreadsAssumption, SameFinite DEF Blocking!QueueAssumption
  <2>2. Cardinality(came') <= Cardinality(Elements) /\ Cardinality(Elements) \in Nat
    BY <1>5, <2>1, FS_Subset, FS_CardinalityType
  <2> QED BY <1>4, <1>5, <1>6, <2>2, BlockingFacts
<1>8. /\ Monitored' /\ Bounded!Blocked' = Bounded!Blocked
      /\ \A d \in Conditions : waiters'[d] \subseteq waiters[d]
      /\ mutex_' = mutex_ /\ woken \subseteq woken'
      /\ waiters["notEmpty_"] # {} =>
            \E t \in waiters["notEmpty_"] : t \in woken' /\ t \notin woken
  BY <1>2, ThreadFacts, NotifyKeeps
<1>9. Blocking!TypeOK'
  <2>1. \A r \in Threads : /\ pc'[r] \in {"test", "leave"} <=> mutex_' = r
                           /\ pc'[r] = "wait" <=> r \in Bounded!Blocked'
    BY <1>1, <1>2, <1>8, BlockingFacts
  <2>2. Blocking!Blocked' = Bounded!Blocked' /\ Blocking!MonitorTypeOK'
    BY <1>8, MonitorTypes DEF Blocking!Blocked, Bounded!Blocked
  <2>3. pc' \in [Threads -> {"out", "test", "wait", "leave"}]
    BY <1>2, BlockingFacts
  <2> QED BY <1>2, <1>4, <1>5, <2>1, <2>2, <2>3 DEF BlockingInv, Blocking!TypeOK
<1>10. Blocking!NoSleepingConsumer'
  <2> SUFFICES ASSUME waiters'["notEmpty_"] # {}
               PROVE  Len(queue_') <= Cardinality(Bounded!Roused(Right)')
    BY BlockingCount
  <2>1. PICK t \in waiters["notEmpty_"] : t \in woken' /\ t \notin woken
    BY <1>8, ThreadFacts
  <2>2. t \in Right /\ t \in Threads /\ pc[t] = "wait"
    BY <2>1, ThreadFacts, BlockedFacts, BlockingFacts DEF BlockingInv
  <2>3. Bounded!Roused(Right) \subseteq Bounded!Roused(Right)'
    BY <1>1, <1>2, <1>8, ThreadFacts, BlockingFacts DEF Bounded!Roused
  <2>4. t \in Bounded!Roused(Right)' /\ t \notin Bounded!Roused(Right)
    BY <2>1, <2>2 DEF Bounded!Roused
  <2>5. Cardinality(Bounded!Roused(Right)) + 1 <= Cardinality(Bounded!Roused(Right)')
    BY <2>3, <2>4, CountFacts, Counting
  <2>6. Len(queue_) <= Cardinality(Bounded!Roused(Right))
    BY <2>1, BlockingCount DEF BlockingInv
  <2> QED BY <1>4, <2>5, <2>6, CountFacts, BlockingFacts
<1>11. \A q \in Left : pc'[q] = "test" => arg'[q] \in Elements /\ arg'[q] \notin came'
  <2> SUFFICES ASSUME NEW q \in Left, pc'[q] = "test"
               PROVE  FALSE
    OBVIOUS
  <2>1. q # p /\ pc[q] = "test" /\ q \in Threads
    BY <1>1, <1>2, ThreadFacts, BlockingFacts
  <2> QED BY <1>1, <1>2, <2>1, BlockingFacts
<1>12. /\ waiters'["notEmpty_"] \subseteq Right
       /\ \A c \in Conditions : c # "notEmpty_" => waiters'[c] = {}
  BY <1>8, ThreadFacts DEF BlockingInv
<1> QED BY <1>3, <1>6, <1>7, <1>8, <1>9, <1>10, <1>11, <1>12 DEF BlockingInv

LEMMA BlockingTake ==
    ASSUME Monitored, BlockingInv, NEW c \in Right, Blocking!Take(c)
    PROVE  Monitored' /\ BlockingInv'
<1>1. c \in Threads /\ c \notin Left
  BY ThreadFacts
<1>2. /\ pc[c] = "test" /\ pc' = [pc EXCEPT ![c] = "leave"]
      /\ UNCHANGED <<mutex_, holder_, waiters, woken>>
      /\ queue_ # <<>> /\ queue_' = Tail(queue_) /\ UNCHANGED <<arg, came>>
      /\ got' = [got EXCEPT ![c] = Append(@, Head(queue_))]
  BY DEF Blocking!Take, Blocking!Goto, Blocking!monitor
<1>3. /\ queue_' \in Seq(Elements) /\ Len(queue_') = Len(queue_) - 1
      /\ Head(queue_) \in Elements /\ Len(queue_') \in Nat
  BY <1>2, BlockingFacts, HeadTailProperties, LenProperties, EmptySeq
<1>4. got' \in [Right -> Seq(Elements)]
  <2>1. got \in [Right -> Seq(Elements)] /\ got[c] \in Seq(Elements)
    BY DEF BlockingInv, Blocking!TypeOK
  <2>2. Append(got[c], Head(queue_)) \in Seq(Elements)
    BY <1>3, <2>1, AppendProperties
  <2> QED BY <1>2, <2>1, <2>2
<1>5. Monitored' /\ Bounded!Blocked' = Bounded!Blocked
  BY <1>2 DEF Monitored, Bounded!MonitorTypeOK, Bounded!Destroyable, Bounded!Blocked
<1>6. Blocking!TypeOK'
  <2>1. \A r \in Threads : /\ pc'[r] \in {"test", "leave"} <=> mutex_' = r
                           /\ pc'[r] = "wait" <=> r \in Bounded!Blocked'
    BY <1>1, <1>2, <1>5, BlockingFacts
  <2>2. Blocking!Blocked' = Bounded!Blocked' /\ Blocking!MonitorTypeOK'
    BY <1>5, MonitorTypes DEF Blocking!Blocked, Bounded!Blocked
  <2>3. pc' \in [Threads -> {"out", "test", "wait", "leave"}]
    BY <1>2, BlockingFacts
  <2> QED BY <1>2, <1>3, <1>4, <2>1, <2>2, <2>3 DEF BlockingInv, Blocking!TypeOK
<1>7. Blocking!NoSleepingConsumer'
  <2>1. Bounded!Roused(Right) \ {c} \subseteq Bounded!Roused(Right)'
    BY <1>1, <1>2, ThreadFacts, BlockingFacts DEF Bounded!Roused
  <2>2. Cardinality(Bounded!Roused(Right)) <= Cardinality(Bounded!Roused(Right)') + 1
    BY <2>1, CountFacts, Counting
  <2>3. Blocking!NoSleepingConsumer
    BY DEF BlockingInv
  <2> QED BY <1>2, <1>3, <2>2, <2>3, CountFacts, BlockingFacts, BlockingCount
<1>8. \A p \in Left : pc'[p] = "test" => arg'[p] \in Elements /\ arg'[p] \notin came'
  BY <1>1, <1>2, ThreadFacts, BlockingFacts DEF BlockingInv
<1>9. Len(queue_') <= Cardinality(came')
  BY <1>2, <1>3, BlockingFacts DEF BlockingInv
<1> QED BY <1>2, <1>5, <1>6, <1>7, <1>8, <1>9 DEF BlockingInv

LEMMA BlockingLeave ==
    ASSUME Monitored, BlockingInv, NEW t \in Threads, Blocking!Leave(t)
    PROVE  Monitored' /\ BlockingInv'
<1>1. /\ t # Bounded!None /\ pc[t] = "leave" /\ pc' = [pc EXCEPT ![t] = "out"]
      /\ Bounded!unlock(t) /\ UNCHANGED <<queue_, arg, got, came>>
  BY SameMonitor, SameCalls DEF Blocking!Leave, Blocking!Goto
<1>2. /\ Monitored' /\ Bounded!Blocked' = Bounded!Blocked /\ UNCHANGED <<waiters, woken>>
      /\ mutex_ = t /\ mutex_' = Bounded!None
  BY <1>1, UnlockKeeps DEF Bounded!unlock
<1>3. Blocking!TypeOK'
  <2>1. \A r \in Threads : /\ pc'[r] \in {"test", "leave"} <=> mutex_' = r
                           /\ pc'[r] = "wait" <=> r \in Bounded!Blocked'
    BY <1>1, <1>2, BlockingFacts, SameMonitor
  <2>2. Blocking!Blocked' = Bounded!Blocked' /\ Blocking!MonitorTypeOK'
    BY <1>2, MonitorTypes DEF Blocking!Blocked, Bounded!Blocked
  <2>3. pc' \in [Threads -> {"out", "test", "wait", "leave"}]
    BY <1>1, BlockingFacts
  <2> QED BY <1>1, <2>1, <2>2, <2>3 DEF BlockingInv, Blocking!TypeOK
<1>4. Bounded!Roused(Right)' = Bounded!Roused(Right)
  BY <1>1, <1>2, ThreadFacts, BlockingFacts DEF Bounded!Roused
<1>5. Blocking!NoSleepingConsumer'
  BY <1>1, <1>2, <1>4, BlockingCount DEF BlockingInv
<1>6. \A p \in Left : pc'[p] = "test" => arg'[p] \in Elements /\ arg'[p] \notin came'
  BY <1>1, ThreadFacts, BlockingFacts DEF BlockingInv
<1> QED BY <1>1, <1>2, <1>3, <1>5, <1>6 DEF BlockingInv

LEMMA BlockingSpurious ==
    ASSUME Monitored, BlockingInv, NEW t \in Threads, Blocking!SpuriousWakeup(t)
    PROVE  Monitored' /\ BlockingInv'
<1>1. Bounded!Spurious(t) /\ UNCHANGED <<queue_, pc, arg, got, came>>
  BY SameCalls DEF Blocking!SpuriousWakeup
<1>2. /\ Monitored' /\ Bounded!Blocked' = Bounded!Blocked
      /\ \A c \in Conditions : waiters'[c] \subseteq waiters[c]
      /\ mutex_' = mutex_ /\ woken \subseteq woken'
  BY <1>1, SpuriousKeeps
<1>3. Blocking!TypeOK'
  <2>1. Blocking!Blocked' = Blocking!Blocked /\ Blocking!MonitorTypeOK'
    BY <1>2, MonitorTypes DEF Blocking!Blocked, Bounded!Blocked
  <2> QED BY <1>1, <1>2, <2>1 DEF BlockingInv, Blocking!TypeOK
<1>4. Blocking!NoSleepingConsumer'
  <2>1. Bounded!Roused(Right) \subseteq Bounded!Roused(Right)'
    BY <1>1, <1>2 DEF Bounded!Roused
  <2>2. Cardinality(Bounded!Roused(Right)) <= Cardinality(Bounded!Roused(Right)')
    BY <2>1, CountFacts, Counting
  <2>3. Blocking!NoSleepingConsumer /\ waiters'["notEmpty_"] \subseteq waiters["notEmpty_"]
    BY <1>2, ThreadFacts DEF BlockingInv
  <2> QED BY <1>1, <2>2, <2>3, CountFacts, BlockingFacts, BlockingCount
<1>5. /\ waiters'["notEmpty_"] \subseteq Right
      /\ \A c \in Conditions : c # "notEmpty_" => waiters'[c] = {}
  BY <1>2, ThreadFacts DEF BlockingInv
<1> QED BY <1>1, <1>2, <1>3, <1>4, <1>5 DEF BlockingInv

LEMMA BlockingStep ==
    ASSUME Monitored, BlockingInv, Blocking!Next
    PROVE  Monitored' /\ BlockingInv'
<1>1. PICK t \in Threads : Blocking!Step(t) \/ Blocking!SpuriousWakeup(t)
  BY DEF Blocking!Next
<1> QED BY <1>1, BlockingCallPut, BlockingCallTake, BlockingTakeWait, BlockingPut,
        BlockingTake, BlockingLeave, BlockingSpurious DEF Blocking!Step

LEMMA BlockingIsFifo ==
    ASSUME Monitored, BlockingInv, Blocking!Next
    PROVE  Blocking!Fifo!Next \/ UNCHANGED Blocking!Fifo!vars
<1>1. ASSUME NEW p \in Left, Blocking!Put(p)
      PROVE  Blocking!Fifo!Next
  <2>1. Len(queue_) < Blocking!Cardinality(Elements)
    BY <1>1, BlockingPut, SameCardinality
  <2>2. Blocking!Fifo!Put(arg[p])
    BY <1>1, <2>1, BlockingPut DEF Blocking!Fifo!Put, Blocking!Put
  <2> QED BY <1>1, <2>2, BlockingPut DEF Blocking!Fifo!Next
<1>2. ASSUME NEW c \in Right, Blocking!Take(c)
      PROVE  Blocking!Fifo!Next
  BY <1>2 DEF Blocking!Take, Blocking!Fifo!Next, Blocking!Fifo!Take
<1>3. ASSUME NEW t \in Threads, Blocking!Step(t)
      PROVE  Blocking!Fifo!Next \/ UNCHANGED Blocking!Fifo!vars
  BY <1>1, <1>2, <1>3 DEF Blocking!Step, Blocking!CallPut, Blocking!CallTake,
     Blocking!TakeWait, Blocking!WakeUp, Blocking!Leave, Blocking!Fifo!vars
<1>4. ASSUME NEW t \in Threads, Blocking!SpuriousWakeup(t)
      PROVE  UNCHANGED Blocking!Fifo!vars
  BY <1>4 DEF Blocking!SpuriousWakeup, Blocking!Fifo!vars
<1> QED BY <1>3, <1>4 DEF Blocking!Next

-----------------------------------------------------------------------------
(* ThreadPool.                                                             *)
LEMMA PoolFacts ==
    ASSUME PoolInv
    PROVE  /\ poolPc \in [Threads -> Pool!WorkerPCs \cup Pool!OwnerPCs \cup {"out", "task"}]
           /\ task \in [Left \cup Right -> Tasks \cup {Bounded!None}]
           /\ ran \in Seq([task : Tasks, by : Threads]) /\ given \subseteq Tasks
           /\ \A w \in Left : poolPc[w] = "wait" <=> w \in Bounded!Blocked
           /\ poolPc[Owner] \in Pool!OwnerPCs /\ running_ \in BOOLEAN
           /\ running_ => poolPc[Owner] \in {"starting", "started", "notifying"}
           /\ tasks_ = <<>> /\ \A w \in Left : task[w] = Bounded!None
<1>1. /\ poolPc \in [Threads -> Pool!WorkerPCs \cup Pool!OwnerPCs \cup {"out", "task"}]
      /\ ran \in Seq([task : Tasks, by : Threads]) /\ given \subseteq Tasks
      /\ poolPc[Owner] \in Pool!OwnerPCs /\ running_ \in BOOLEAN
      /\ running_ => poolPc[Owner] \in {"starting", "started", "notifying"}
  BY DEF PoolInv, Pool!TypeOK
<1>2. /\ task \in [Left \cup Right -> Tasks \cup {Bounded!None}]
      /\ \A w \in Left : poolPc[w] = "wait" <=> w \in Bounded!Blocked
  BY SameMonitor DEF PoolInv, Pool!TypeOK
<1>3. tasks_ = <<>> /\ \A w \in Left : task[w] = Bounded!None
  BY SameMonitor DEF PoolInv, Pool!QueueStaysEmpty
<1> QED BY <1>1, <1>2, <1>3

(* A step that leaves the tasks and the callers of run() alone.            *)
LEMMA PoolMove ==
    ASSUME PoolInv, Monitored', waiters'["notFull_"] = {},
           UNCHANGED <<tasks_, given, ran, task>>,
           poolPc' \in [Threads -> Pool!WorkerPCs \cup Pool!OwnerPCs \cup {"out", "task"}],
           \A c \in Right : poolPc'[c] = poolPc[c],
           \A w \in Left : poolPc'[w] = "wait" <=> w \in Bounded!Blocked',
           poolPc'[Owner] \in Pool!OwnerPCs, running_' \in BOOLEAN,
           running_' => poolPc'[Owner] \in {"starting", "started", "notifying"}
    PROVE  PoolInv'
<1>1. Pool!MonitorTypeOK' /\ Pool!Blocked' = Bounded!Blocked'
  BY MonitorTypes DEF Pool!Blocked, Bounded!Blocked
<1>2. Pool!TypeOK'
  BY <1>1 DEF PoolInv, Pool!TypeOK
<1>3. Pool!TaskOnce' /\ Pool!QueueStaysEmpty'
  BY DEF PoolInv, Pool!TaskOnce, Pool!QueueStaysEmpty
<1>4. \A x : HasRun(x)' <=> HasRun(x)
  BY DEF HasRun
<1> QED BY <1>2, <1>3, <1>4 DEF PoolInv

(* The owner.                                                              *)
LEMMA PoolOwnerStep ==
    ASSUME Monitored, PoolInv,
           \/ Pool!Started \/ Pool!StopLock \/ Pool!StopSteps
    PROVE  Monitored' /\ PoolInv'
<1> USE DEF Pool!Goto, Pool!OwnerPCs
<1>0. /\ Owner \in Threads /\ Owner \notin Left /\ Owner \notin Right
      /\ Left \subseteq Threads /\ Right \subseteq Threads /\ waiters["notFull_"] = {}
  BY ThreadFacts DEF PoolInv
<1>1. CASE Pool!Started
  <2>1. /\ poolPc' = [poolPc EXCEPT ![Owner] = "started"] /\ running_' = running_
        /\ UNCHANGED <<mutex_, holder_, waiters, woken, tasks_, task, given, ran>>
    BY <1>1 DEF Pool!Started, Pool!monitor
  <2>2. Monitored' /\ Bounded!Blocked' = Bounded!Blocked
    BY <2>1 DEF Monitored, Bounded!MonitorTypeOK, Bounded!Destroyable, Bounded!Blocked
  <2> QED BY <1>0, <2>1, <2>2, PoolFacts, PoolMove
<1>2. CASE Pool!StopLock
  <2>1. /\ poolPc' = [poolPc EXCEPT ![Owner] = "notifying"] /\ running_' = running_
        /\ Bounded!lock(Owner) /\ UNCHANGED <<tasks_, task, given, ran>>
    BY <1>2, SameCalls DEF Pool!StopLock
  <2>2. Monitored' /\ Bounded!Blocked' = Bounded!Blocked /\ UNCHANGED <<waiters, woken>>
    BY <1>0, <2>1, LockKeeps
  <2> QED BY <1>0, <2>1, <2>2, PoolFacts, PoolMove
<1>3. CASE Pool!Stop
  <2>1. /\ poolPc' = [poolPc EXCEPT ![Owner] = "joining"] /\ running_' = FALSE
        /\ Bounded!notifyAll("cond_") /\ UNCHANGED <<tasks_, task, given, ran>>
    BY <1>3, SameCalls DEF Pool!Stop
  <2>2. /\ Monitored' /\ Bounded!Blocked' = Bounded!Blocked
        /\ waiters'["notFull_"] \subseteq waiters["notFull_"]
    BY <2>1, ThreadFacts, NotifyAllKeeps
  <2> QED BY <1>0, <2>1, <2>2, PoolFacts, PoolMove
<1>4. CASE Pool!StopUnlock
  <2>1. /\ poolPc' = poolPc /\ running_' = running_
        /\ Bounded!unlock(Owner) /\ UNCHANGED <<tasks_, task, given, ran>>
    BY <1>4, SameCalls DEF Pool!StopUnlock
  <2>2. Monitored' /\ Bounded!Blocked' = Bounded!Blocked /\ UNCHANGED <<waiters, woken>>
    BY <1>0, <2>1, UnlockKeeps
  <2> QED BY <1>0, <2>1, <2>2, PoolFacts, PoolMove
<1>5. CASE Pool!Join
  <2>1. /\ poolPc[Owner] = "joining" /\ poolPc' = [poolPc EXCEPT ![Owner] = "done"]
        /\ UNCHANGED <<mutex_, holder_, waiters, woken, tasks_, task, given, ran, running_>>
    BY <1>5 DEF Pool!Join, Pool!monitor
  <2>2. Monitored' /\ Bounded!Blocked' = Bounded!Blocked
    BY <2>1 DEF Monitored, Bounded!MonitorTypeOK, Bounded!Destroyable, Bounded!Blocked
  <2> QED BY <1>0, <2>1, <2>2, PoolFacts, PoolMove
<1> QED BY <1>1, <1>2, <1>3, <1>4, <1>5 DEF Pool!StopSteps

(* A thread of the pool, where that matters only in its pc.                *)
LEMMA PoolWorkerMove ==
    ASSUME Monitored, PoolInv, Monitored', NEW w \in Left, NEW where \in Pool!WorkerPCs,
           poolPc' = [poolPc EXCEPT ![w] = where],
           \A v \in Left : v # w => (v \in Bounded!Blocked' <=> v \in Bounded!Blocked),
           w \in Bounded!Blocked' <=> where = "wait",
           waiters'["notFull_"] = {}, UNCHANGED <<tasks_, given, ran, task>>,
           running_' = running_ \/ (running_' = TRUE /\ poolPc[Owner] = "starting")
    PROVE  PoolInv'
<1>1. w \in Threads /\ w # Owner /\ w \notin Right /\ Left \subseteq Threads
      /\ Right \subseteq Threads /\ Owner \in Threads
  BY ThreadFacts
<1>2. poolPc'[Owner] = poolPc[Owner] /\ \A c \in Right : poolPc'[c] = poolPc[c]
  BY <1>1, PoolFacts
<1>3. poolPc' \in [Threads -> Pool!WorkerPCs \cup Pool!OwnerPCs \cup {"out", "task"}]
  BY <1>1, PoolFacts
<1>4. \A v \in Left : poolPc'[v] = "wait" <=> v \in Bounded!Blocked'
  BY <1>1, PoolFacts
<1>5. running_' \in BOOLEAN
      /\ (running_' => poolPc'[Owner] \in {"starting", "started", "notifying"})
  <2>1. CASE running_' = running_
    BY <1>2, <2>1, PoolFacts
  <2>2. CASE running_' = TRUE /\ poolPc[Owner] = "starting"
    BY <1>2, <2>2
  <2> QED BY <2>1, <2>2
<1> QED BY <1>2, <1>3, <1>4, <1>5, PoolFacts, PoolMove

LEMMA PoolWorkerStep ==
    ASSUME Monitored, PoolInv, NEW w \in Left,
           Pool!StartThread(w) \/ Pool!WorkerStep(w) \/ Pool!SpuriousWakeup(w)
    PROVE  Monitored' /\ PoolInv'
<1> USE DEF Pool!Goto, Pool!WorkerPCs
<1>0. w \in Threads /\ w # Bounded!None /\ waiters["notFull_"] = {} /\ Left \subseteq Threads
  BY ThreadFacts, SameMonitor DEF PoolInv
<1>a. ASSUME UNCHANGED <<mutex_, holder_, waiters, woken>>
      PROVE  /\ Monitored' /\ Bounded!Blocked' = Bounded!Blocked
             /\ waiters'["notFull_"] = {}
  BY <1>0, <1>a DEF Monitored, Bounded!MonitorTypeOK, Bounded!Destroyable, Bounded!Blocked
<1>1. CASE Pool!StartThread(w)
  <2>1. /\ poolPc' = [poolPc EXCEPT ![w] = "loop"] /\ running_' = TRUE
        /\ poolPc[Owner] = "starting" /\ poolPc[w] = "unborn"
        /\ UNCHANGED <<mutex_, holder_, waiters, woken, tasks_, task, given, ran>>
    BY <1>1 DEF Pool!StartThread, Pool!monitor
  <2>2. w \notin Bounded!Blocked
    BY <2>1, PoolFacts
  <2> QED BY <1>a, <2>1, <2>2, PoolWorkerMove
<1>2. CASE Pool!LoopTest(w)
  <2>1. PICK where \in {"take", "ended"} : poolPc' = [poolPc EXCEPT ![w] = where]
    BY <1>2 DEF Pool!LoopTest
  <2>2. /\ poolPc[w] = "loop" /\ running_' = running_
        /\ UNCHANGED <<mutex_, holder_, waiters, woken, tasks_, task, given, ran>>
    BY <1>2 DEF Pool!LoopTest, Pool!monitor
  <2>3. w \notin Bounded!Blocked
    BY <2>2, PoolFacts
  <2> QED BY <1>a, <2>1, <2>2, <2>3, PoolWorkerMove
<1>3. CASE Pool!TakeLock(w)
  <2>1. /\ poolPc[w] = "take" /\ poolPc' = [poolPc EXCEPT ![w] = "test"]
        /\ Bounded!lock(w) /\ UNCHANGED <<tasks_, task, given, ran, running_>>
    BY <1>3, SameCalls DEF Pool!TakeLock
  <2>2. Monitored' /\ Bounded!Blocked' = Bounded!Blocked /\ UNCHANGED <<waiters, woken>>
    BY <1>0, <2>1, LockKeeps
  <2>3. w \notin Bounded!Blocked
    BY <2>1, PoolFacts
  <2> QED BY <1>0, <2>1, <2>2, <2>3, PoolWorkerMove
<1>4. CASE Pool!TakeTest(w)
  <2>1. poolPc[w] = "test" /\ running_' = running_ /\ UNCHANGED <<given, ran>>
        /\ tasks_ = <<>> /\ w \notin Bounded!Blocked
    BY <1>4, PoolFacts DEF Pool!TakeTest
  <2>2. CASE running_
    <3>1. /\ Bounded!wait(w, "cond_") /\ poolPc' = [poolPc EXCEPT ![w] = "wait"]
          /\ UNCHANGED <<tasks_, task>>
      BY <1>4, <2>1, <2>2, SameCalls DEF Pool!TakeTest
    <3>2. /\ Monitored' /\ Bounded!Blocked' = Bounded!Blocked \cup {w}
          /\ waiters'["notFull_"] = waiters["notFull_"]
      BY <1>0, <2>1, <3>1, ThreadFacts, WaitKeeps
    <3> QED BY <1>0, <2>1, <3>1, <3>2, PoolWorkerMove
  <2>3. CASE ~running_
    <3>1. /\ poolPc' = [poolPc EXCEPT ![w] = "leave"] /\ UNCHANGED <<tasks_, task>>
          /\ UNCHANGED <<mutex_, holder_, waiters, woken>>
      BY <1>4, <2>1, <2>3 DEF Pool!TakeTest, Pool!monitor
    <3> QED BY <1>a, <2>1, <3>1, PoolWorkerMove
  <2> QED BY <2>2, <2>3
<1>5. CASE Pool!WakeUp(w)
  <2>1. /\ poolPc' = [poolPc EXCEPT ![w] = "test"]
        /\ Bounded!Reacquire(w) /\ UNCHANGED <<tasks_, task, given, ran, running_>>
    BY <1>5, SameCalls DEF Pool!WakeUp
  <2>2. Monitored' /\ Bounded!Blocked' = Bounded!Blocked \ {w} /\ waiters' = waiters
    BY <1>0, <2>1, ReacquireKeeps
  <2> QED BY <1>0, <2>1, <2>2, PoolWorkerMove
<1>6. CASE Pool!SpuriousWakeup(w)
  <2>1. /\ poolPc' = poolPc
        /\ Bounded!Spurious(w) /\ UNCHANGED <<tasks_, task, given, ran, running_>>
    BY <1>6, SameCalls DEF Pool!SpuriousWakeup
  <2>2. /\ Monitored' /\ Bounded!Blocked' = Bounded!Blocked
        /\ waiters'["notFull_"] \subseteq waiters["notFull_"]
    BY <1>0, <2>1, ThreadFacts, SpuriousKeeps
  <2> QED BY <1>0, <2>1, <2>2, PoolFacts, PoolMove
<1>7. CASE Pool!TakeUnlock(w)
  <2>1. /\ poolPc[w] = "leave" /\ poolPc' = [poolPc EXCEPT ![w] = "task"]
        /\ Bounded!unlock(w) /\ UNCHANGED <<tasks_, task, given, ran, running_>>
    BY <1>7, SameCalls DEF Pool!TakeUnlock
  <2>2. Monitored' /\ Bounded!Blocked' = Bounded!Blocked /\ UNCHANGED <<waiters, woken>>
    BY <1>0, <2>1, UnlockKeeps
  <2>3. w \notin Bounded!Blocked
    BY <2>1, PoolFacts
  <2> QED BY <1>0, <2>1, <2>2, <2>3, PoolWorkerMove
<1>8. CASE Pool!RunTask(w)
  <2>1. /\ poolPc[w] = "task" /\ poolPc' = [poolPc EXCEPT ![w] = "loop"]
        /\ UNCHANGED <<mutex_, holder_, waiters, woken, tasks_, given, running_>>
        /\ task[w] = Bounded!None /\ w \notin Bounded!Blocked
    BY <1>8, PoolFacts DEF Pool!RunTask, Pool!monitor
  <2>2. ran' = ran /\ task' = [task EXCEPT ![w] = Bounded!None]
    BY <1>8, <2>1, SameMonitor DEF Pool!RunTask
  <2>3. task' = task
    BY <2>1, <2>2, PoolFacts
  <2> QED BY <1>a, <2>1, <2>2, <2>3, PoolWorkerMove
<1> QED BY <1>1, <1>2, <1>3, <1>4, <1>5, <1>6, <1>7, <1>8 DEF Pool!WorkerStep

(* run() finds the queue empty and runs the task.                          *)
LEMMA PoolRun ==
    ASSUME Monitored, PoolInv, NEW c \in Right, NEW x \in Tasks, Pool!run(c, x)
    PROVE  Monitored' /\ PoolInv'
<1>1. /\ c \in Threads /\ c \notin Left /\ c # Owner /\ Left \subseteq Threads
      /\ Right \subseteq Threads /\ Owner \in Threads
  BY ThreadFacts
<1>2. /\ poolPc[c] = "out" /\ poolPc' = [poolPc EXCEPT ![c] = "task"]
      /\ task' = [task EXCEPT ![c] = x] /\ x \notin given /\ given' = given \cup {x}
      /\ UNCHANGED <<mutex_, holder_, waiters, woken, tasks_, running_, ran>>
  BY PoolFacts DEF Pool!run, Pool!RunsDirectly, Pool!Goto, Pool!monitor
<1>3. Monitored' /\ Bounded!Blocked' = Bounded!Blocked
  BY <1>2 DEF Monitored, Bounded!MonitorTypeOK, Bounded!Destroyable, Bounded!Blocked
<1>4. Pool!MonitorTypeOK' /\ Pool!Blocked' = Bounded!Blocked' /\ Pool!None = Bounded!None
  BY <1>3, MonitorTypes, SameMonitor DEF Pool!Blocked, Bounded!Blocked
<1>5. /\ \A t \in Threads : t # c => poolPc'[t] = poolPc[t]
      /\ poolPc' \in [Threads -> Pool!WorkerPCs \cup Pool!OwnerPCs \cup {"out", "task"}]
      /\ task' \in [Left \cup Right -> Tasks \cup {Bounded!None}]
      /\ \A t \in Left \cup Right : t # c => task'[t] = task[t]
      /\ task'[c] = x /\ poolPc'[c] = "task"
  BY <1>1, <1>2, PoolFacts
<1>6. Pool!TypeOK'
  <2>1. \A w \in Left : poolPc'[w] = "wait" <=> w \in Bounded!Blocked'
    BY <1>1, <1>3, <1>5, PoolFacts
  <2>2. /\ poolPc'[Owner] \in Pool!OwnerPCs /\ running_' \in BOOLEAN
        /\ running_' => poolPc'[Owner] \in {"starting", "started", "notifying"}
    BY <1>1, <1>2, <1>5, PoolFacts
  <2>3. tasks_' \in Seq(Tasks) /\ given' \subseteq Tasks
        /\ ran' \in Seq([task : Tasks, by : Threads])
    BY <1>2, PoolFacts, EmptySeq
  <2> QED BY <1>4, <1>5, <2>1, <2>2, <2>3 DEF Pool!TypeOK
<1>7. Pool!TaskOnce' /\ Pool!QueueStaysEmpty'
  BY <1>1, <1>2, <1>4, <1>5, PoolFacts DEF PoolInv, Pool!TaskOnce, Pool!QueueStaysEmpty
<1>8. (\A y : HasRun(y)' <=> HasRun(y)) /\ ~HasRun(x)
  BY <1>2 DEF HasRun, PoolInv
<1>9. \A d \in Right : poolPc'[d] = "task" =>
          task'[d] \in Tasks /\ task'[d] \in given' /\ ~HasRun(task[d])'
  <2> SUFFICES ASSUME NEW d \in Right, poolPc'[d] = "task"
               PROVE  task'[d] \in Tasks /\ task'[d] \in given' /\ ~HasRun(task'[d])
    BY <1>2, <1>8 DEF HasRun
  <2>1. CASE d = c
    BY <1>2, <1>5, <1>8, <2>1
  <2>2. CASE d # c
    BY <1>1, <1>2, <1>5, <2>2 DEF PoolInv
  <2> QED BY <2>1, <2>2
<1>10. \A d, e \in Right :
          poolPc'[d] = "task" /\ poolPc'[e] = "task" /\ task'[d] = task'[e] => d = e
  <2>1. \A d \in Right : poolPc'[d] = "task" /\ d # c => task'[d] \in given
    BY <1>1, <1>5 DEF PoolInv
  <2>2. \A d \in Right : poolPc'[d] = "task" /\ d # c =>
            poolPc[d] = "task" /\ task'[d] = task[d]
    BY <1>1, <1>5
  <2> QED BY <1>2, <1>5, <2>1, <2>2 DEF PoolInv
<1>11. \A y \in Tasks : HasRun(y)' => y \in given'
  BY <1>2, <1>8 DEF PoolInv
<1> QED BY <1>2, <1>3, <1>6, <1>7, <1>9, <1>10, <1>11 DEF PoolInv

(* ... and the task has run when run() returns.                            *)
LEMMA PoolRunReturns ==
    ASSUME Monitored, PoolInv, NEW c \in Right, Pool!RunReturns(c)
    PROVE  Monitored' /\ PoolInv'
<1>1. /\ c \in Threads /\ c \notin Left /\ c # Owner /\ Left \subseteq Threads
      /\ Right \subseteq Threads /\ Owner \in Threads
  BY ThreadFacts
<1> DEFINE r == [task |-> task[c], by |-> c]
<1>2. /\ poolPc[c] = "task" /\ poolPc' = [poolPc EXCEPT ![c] = "out"]
      /\ task' = [task EXCEPT ![c] = Bounded!None] /\ ran' = Append(ran, r)
      /\ UNCHANGED <<mutex_, holder_, waiters, woken, tasks_, running_, given>>
  BY SameMonitor DEF Pool!RunReturns, Pool!Goto, Pool!Ran, Pool!monitor
<1>3. Monitored' /\ Bounded!Blocked' = Bounded!Blocked
  BY <1>2 DEF Monitored, Bounded!MonitorTypeOK, Bounded!Destroyable, Bounded!Blocked
<1>4. Pool!MonitorTypeOK' /\ Pool!Blocked' = Bounded!Blocked' /\ Pool!None = Bounded!None
  BY <1>3, MonitorTypes, SameMonitor DEF Pool!Blocked, Bounded!Blocked
<1>5. /\ \A t \in Threads : t # c => poolPc'[t] = poolPc[t]
      /\ poolPc' \in [Threads -> Pool!WorkerPCs \cup Pool!OwnerPCs \cup {"out", "task"}]
      /\ task' \in [Left \cup Right -> Tasks \cup {Bounded!None}]
      /\ \A t \in Left \cup Right : t # c => task'[t] = task[t]
      /\ poolPc'[c] = "out"
  BY <1>1, <1>2, PoolFacts
<1>6. task[c] \in Tasks /\ task[c] \in given /\ ~HasRun(task[c])
  BY <1>2 DEF PoolInv
<1>7. /\ ran' \in Seq([task : Tasks, by : Threads]) /\ Len(ran) \in Nat
      /\ Len(ran') = Len(ran) + 1 /\ ran'[Len(ran) + 1] = r
      /\ \A i \in 1..Len(ran) : ran'[i] = ran[i]
  <2>1. r \in [task : Tasks, by : Threads]
    BY <1>1, <1>6
  <2> HIDE DEF r
  <2> QED BY <1>2, <2>1, PoolFacts, AppendProperties, LenProperties
<1>8. \A y : HasRun(y)' <=> (HasRun(y) \/ y = task[c])
  <2> SUFFICES ASSUME NEW y
               PROVE  HasRun(y)' <=> (HasRun(y) \/ y = task[c])
    OBVIOUS
  <2>1. r.task = task[c]
    OBVIOUS
  <2> HIDE DEF r
  <2>2. HasRun(y) => HasRun(y)'
    BY <1>7 DEF HasRun
  <2>3. y = task[c] => HasRun(y)'
    BY <1>7, <2>1 DEF HasRun
  <2>4. HasRun(y)' => HasRun(y) \/ y = task[c]
    BY <1>7, <2>1 DEF HasRun
  <2> QED BY <2>2, <2>3, <2>4
<1>9. Pool!TypeOK'
  <2>1. \A w \in Left : poolPc'[w] = "wait" <=> w \in Bounded!Blocked'
    BY <1>1, <1>3, <1>5, PoolFacts
  <2>2. /\ poolPc'[Owner] \in Pool!OwnerPCs /\ running_' \in BOOLEAN
        /\ running_' => poolPc'[Owner] \in {"starting", "started", "notifying"}
    BY <1>1, <1>2, <1>5, PoolFacts
  <2>3. tasks_' \in Seq(Tasks) /\ given' \subseteq Tasks
    BY <1>2, PoolFacts, EmptySeq
  <2> HIDE DEF r
  <2> QED BY <1>4, <1>5, <1>7, <2>1, <2>2, <2>3 DEF Pool!TypeOK
<1>10. Pool!QueueStaysEmpty'
  <2> HIDE DEF r
  <2> QED BY <1>1, <1>2, <1>4, <1>5, PoolFacts DEF Pool!QueueStaysEmpty
<1>11. Pool!TaskOnce'
  <2> SUFFICES ASSUME NEW i \in 1..Len(ran'), NEW j \in 1..Len(ran'),
                      ran'[i].task = ran'[j].task
               PROVE  i = j
    BY DEF Pool!TaskOnce
  <2>1. r.task = task[c]
    OBVIOUS
  <2> HIDE DEF r
  <2>2. CASE i \in 1..Len(ran) /\ j \in 1..Len(ran)
    BY <1>7, <2>2 DEF PoolInv, Pool!TaskOnce
  <2>3. CASE i \in 1..Len(ran) /\ j = Len(ran) + 1
    BY <1>6, <1>7, <2>1, <2>3 DEF HasRun
  <2>4. CASE i = Len(ran) + 1 /\ j \in 1..Len(ran)
    BY <1>6, <1>7, <2>1, <2>4 DEF HasRun
  <2>5. CASE i = Len(ran) + 1 /\ j = Len(ran) + 1
    BY <2>5
  <2> QED BY <1>7, <2>2, <2>3, <2>4, <2>5
<1>12. \A d \in Right : poolPc'[d] = "task" =>
          /\ d # c /\ poolPc[d] = "task" /\ task'[d] = task[d] /\ task[d] # task[c]
  BY <1>1, <1>2, <1>5 DEF PoolInv
<1>13. \A d \in Right : poolPc'[d] = "task" =>
          task'[d] \in Tasks /\ task'[d] \in given' /\ ~HasRun(task[d])'
  <2> SUFFICES ASSUME NEW d \in Right, poolPc'[d] = "task"
               PROVE  task'[d] \in Tasks /\ task'[d] \in given' /\ ~HasRun(task[d])'
    OBVIOUS
  <2> DEFINE y == task'[d]
  <2>1. y \in Tasks /\ y \in given /\ ~HasRun(y) /\ y # task[c]
    BY <1>12 DEF PoolInv
  <2>2. ~(\E i \in 1..Len(ran') : ran'[i].task = y)
    <3> HIDE DEF y
    <3> QED BY <1>8, <2>1 DEF HasRun
  <2> QED BY <1>2, <2>1, <2>2 DEF HasRun
<1>14. \A y \in Tasks : HasRun(y)' => y \in given'
  <2> HIDE DEF r
  <2> QED BY <1>2, <1>6, <1>8 DEF PoolInv
<1>15. \A d, e \in Right :
          poolPc'[d] = "task" /\ poolPc'[e] = "task" /\ task'[d] = task'[e] => d = e
  BY <1>12 DEF PoolInv
<1>16. waiters'["notFull_"] = {}
  BY <1>2 DEF PoolInv
<1> QED BY <1>3, <1>9, <1>10, <1>11, <1>13, <1>14, <1>15, <1>16 DEF PoolInv

LEMMA PoolStep ==
    ASSUME Monitored, PoolInv, Pool!Next
    PROVE  Monitored' /\ PoolInv'
BY PoolOwnerStep, PoolWorkerStep, PoolRun, PoolRunReturns DEF Pool!Next

-----------------------------------------------------------------------------
(* All of them.                                                            *)
LEMMA AllInitial ==
    ASSUME Init
    PROVE  IInv
<1> USE ThreadFacts
<1>1. /\ subject \in {"BoundedBlockingQueue", "BlockingQueue", "CountDownLatch",
                      "ThreadPool", "EventLoopThread"}
      /\ Bounded!Init /\ Blocking!Init /\ Latch!Init /\ Pool!Init /\ LoopThread!Init
  BY DEF Init
<1>2. /\ mutex_ = Bounded!None /\ holder_ = Bounded!None /\ woken = {}
      /\ waiters = [c \in Conditions |-> {}] /\ pc = [t \in Threads |-> "out"]
      /\ Bounded!Blocked = {}
  BY <1>1 DEF Bounded!Init, Bounded!MonitorInit, Bounded!Blocked
<1>3. Monitored
  BY <1>2 DEF Monitored, Bounded!MonitorTypeOK, Bounded!Destroyable
<1>4. LoopInv
  BY <1>1, LoopInitial
<1>5. BoundedInv
  BY <1>1, ThreadsAssumption, Initial
<1>6. Resting
  BY <1>1, <1>2 DEF Resting, Bounded!Init, Blocking!Init, Pool!Init
<1>7. /\ Blocking!MonitorTypeOK /\ Latch!MonitorTypeOK /\ Pool!MonitorTypeOK
      /\ Blocking!Blocked = {} /\ Latch!Blocked = {} /\ Pool!Blocked = {}
  BY <1>2, <1>3, SameMonitor DEF Monitored
<1>8. BlockingInv
  <2>1. /\ queue_ = <<>> /\ came = {} /\ got = [c \in Right |-> <<>>]
        /\ arg = [p \in Left |-> Blocking!None]
    BY <1>1 DEF Blocking!Init
  <2>2. Blocking!TypeOK
    BY <1>2, <1>7, <2>1, SameMonitor, EmptySeq DEF Blocking!TypeOK
  <2>3. Blocking!NoSleepingConsumer
    BY <1>2 DEF Blocking!NoSleepingConsumer
  <2>4. Cardinality(came) = 0 /\ Len(queue_) = 0
    BY <2>1, FS_EmptySet
  <2> QED BY <1>2, <2>2, <2>3, <2>4 DEF BlockingInv
<1>9. LatchInv
  <2>1. count_ = Count /\ calls = [c \in Right |-> 0]
    BY <1>1 DEF Latch!Init
  <2>2. calls \in [Right -> 0..MaxCalls]
    BY <2>1
  <2>3. Latch!TypeOK
    BY <1>2, <1>7, <2>1, <2>2, SameMonitor DEF Latch!TypeOK
  <2> QED BY <1>2, <1>7, <2>3 DEF LatchInv, Latch!NoEarlyPass
<1>10. PoolInv
  <2>1. /\ tasks_ = <<>> /\ running_ = FALSE /\ given = {} /\ ran = <<>>
        /\ poolPc = [t \in Threads |-> IF t = Owner THEN "starting"
                                       ELSE IF t \in Left THEN "unborn" ELSE "out"]
        /\ task = [t \in Left \cup Right |-> Pool!None]
    BY <1>1 DEF Pool!Init
  <2>2. Pool!TypeOK
    BY <1>7, <2>1, EmptySeq DEF Pool!TypeOK, Pool!WorkerPCs, Pool!OwnerPCs
  <2>3. Pool!TaskOnce /\ Pool!QueueStaysEmpty
    BY <2>1 DEF Pool!TaskOnce, Pool!QueueStaysEmpty
  <2>4. \A x : ~HasRun(x)
    BY <2>1 DEF HasRun
  <2>5. \A c \in Right : poolPc[c] = "out"
    BY <2>1
  <2> QED BY <1>2, <2>2, <2>3, <2>4, <2>5 DEF PoolInv
<1> QED BY <1>1, <1>3, <1>4, <1>5, <1>6, <1>8, <1>9, <1>10 DEF IInv

(* The bounded queue's steps, for the monitor.                             *)
LEMMA BoundedMonitor ==
    ASSUME Monitored, BoundedInv, Bounded!Next
    PROVE  Monitored'
<1> USE ThreadFacts, SameMonitor
<1>1. \A t \in Threads : pc[t] = "test" => t \notin Bounded!Blocked
  BY DEF BoundedInv, Bounded!TypeOK
<1>2. ASSUME NEW t \in Threads, Bounded!lock(t) \/ Bounded!unlock(t) \/ Bounded!Reacquire(t)
                                \/ Bounded!Spurious(t)
      PROVE  Monitored'
  BY <1>2, LockKeeps, UnlockKeeps, ReacquireKeeps, SpuriousKeeps
<1>3. ASSUME NEW t \in Threads, pc[t] = "test", NEW c \in Conditions, Bounded!wait(t, c)
      PROVE  Monitored'
  BY <1>1, <1>3, WaitKeeps
<1>4. ASSUME NEW c \in Conditions, Bounded!notify(c)
      PROVE  Monitored'
  BY <1>4, NotifyKeeps
<1>5. ASSUME UNCHANGED Bounded!vars
      PROVE  Monitored'
  BY <1>5 DEF Bounded!vars, Bounded!monitor, Monitored, Bounded!MonitorTypeOK,
     Bounded!Destroyable, Bounded!Blocked
<1> QED BY <1>2, <1>3, <1>4, <1>5 DEF Bounded!Next, Bounded!Step, Bounded!PutWait,
        Bounded!Put, Bounded!CallPut, Bounded!CallTake, Bounded!TakeWait, Bounded!Take,
        Bounded!WakeUp, Bounded!Leave, Bounded!SpuriousWakeup

LEMMA AllStep ==
    ASSUME IInv, [Next]_vars
    PROVE  IInv'
<1>1. CASE BoundedOnly /\ Bounded!Next
  <2>1. subject' = subject /\ subject = "BoundedBlockingQueue"
    BY <1>1 DEF BoundedOnly
  <2>2. Monitored' /\ BoundedInv'
    BY <1>1, <2>1, ThreadsAssumption, BoundedMonitor, NextStep DEF IInv
  <2>3. LoopInv'
    BY <1>1, LoopKept DEF IInv, BoundedOnly
  <2>4. Resting'
    BY <1>1, <2>1 DEF IInv, Resting, BoundedOnly, pool
  <2> QED BY <2>1, <2>2, <2>3, <2>4 DEF IInv
<1>2. CASE BlockingOnly /\ Blocking!Next
  <2>1. subject' = subject /\ subject = "BlockingQueue"
    BY <1>2 DEF BlockingOnly
  <2>2. Monitored' /\ BlockingInv'
    BY <1>2, <2>1, BlockingStep DEF IInv
  <2>3. LoopInv'
    BY <1>2, LoopKept DEF IInv, BlockingOnly
  <2>4. Resting'
    BY <1>2, <2>1 DEF IInv, Resting, BlockingOnly, pool
  <2> QED BY <2>1, <2>2, <2>3, <2>4 DEF IInv
<1>3. CASE LatchOnly /\ Latch!Next
  <2>1. subject' = subject /\ subject = "CountDownLatch"
    BY <1>3 DEF LatchOnly
  <2>2. Monitored' /\ LatchInv'
    BY <1>3, <2>1, LatchStep DEF IInv
  <2>3. LoopInv'
    BY <1>3, LoopKept DEF IInv, LatchOnly
  <2>4. Resting'
    BY <1>3, <2>1 DEF IInv, Resting, LatchOnly, queues, pool
  <2> QED BY <2>1, <2>2, <2>3, <2>4 DEF IInv
<1>4. CASE PoolOnly /\ Pool!Next
  <2>1. subject' = subject /\ subject = "ThreadPool"
    BY <1>4 DEF PoolOnly
  <2>2. Monitored' /\ PoolInv'
    BY <1>4, <2>1, PoolStep DEF IInv
  <2>3. LoopInv'
    BY <1>4, LoopKept DEF IInv, PoolOnly
  <2>4. Resting'
    BY <1>4, <2>1 DEF IInv, Resting, PoolOnly, queues
  <2> QED BY <2>1, <2>2, <2>3, <2>4 DEF IInv
<1>5. CASE LoopThreadOnly /\ LoopThread!Next
  <2>1. subject' = subject /\ subject = "EventLoopThread"
    BY <1>5 DEF LoopThreadOnly
  <2>2. LoopInv'
    BY <1>5, LoopThreadStep, LoopOwnerStep, LoopUserStep DEF IInv, LoopThread!Next
  <2>3. UNCHANGED <<mutex_, holder_, waiters, woken>>
    BY <1>5 DEF LoopThreadOnly, monitor
  <2>4. Monitored'
    BY <2>3 DEF IInv, Monitored, Bounded!MonitorTypeOK, Bounded!Destroyable, Bounded!Blocked
  <2>5. Resting'
    BY <1>5, <2>1 DEF IInv, Resting, LoopThreadOnly, queues, pool, monitor
  <2> QED BY <2>1, <2>2, <2>4, <2>5 DEF IInv
<1>6. CASE UNCHANGED vars
  <2>1. UNCHANGED <<subject, mutex_, holder_, waiters, woken, pc, queues, latch, pool>>
        /\ UNCHANGED loopThread
    BY <1>6 DEF vars, monitor
  <2>2. Monitored'
    BY <2>1 DEF IInv, Monitored, Bounded!MonitorTypeOK, Bounded!Destroyable, Bounded!Blocked
  <2>3. LoopInv'
    BY <2>1, LoopKept DEF IInv
  <2>4. Resting'
    BY <2>1 DEF IInv, Resting, queues, pool
  <2>5. BoundedInv => BoundedInv'
    BY <2>1, ThreadsAssumption, NextStep DEF queues, Bounded!vars, Bounded!monitor
  <2>6. BlockingInv => BlockingInv'
    BY <2>1 DEF BlockingInv, Blocking!TypeOK, Blocking!MonitorTypeOK, Blocking!Blocked,
       Blocking!NoSleepingConsumer, queues
  <2>7. LatchInv => LatchInv'
    BY <2>1 DEF LatchInv, Latch!TypeOK, Latch!MonitorTypeOK, Latch!Blocked,
       Latch!NoEarlyPass, latch
  <2>8. PoolInv => PoolInv'
    BY <2>1 DEF PoolInv, Pool!TypeOK, Pool!MonitorTypeOK, Pool!Blocked, Pool!TaskOnce,
       Pool!QueueStaysEmpty, HasRun, pool
  <2> QED BY <2>1, <2>2, <2>3, <2>4, <2>5, <2>6, <2>7, <2>8 DEF IInv
<1> QED BY <1>1, <1>2, <1>3, <1>4, <1>5, <1>6 DEF Next

(* The inductive invariant, whichever class is the subject.                *)
THEOREM Inductive == Spec => []IInv
<1>1. Init => IInv
  BY AllInitial
<1>2. IInv /\ [Next]_vars => IInv'
  BY AllStep
<1> QED BY <1>1, <1>2, PTL DEF Spec

(* BlockingQueue.h:22-38, BoundedBlockingQueue.h:21-45: no notification is *)
(* lost, for any finite groups of producers and consumers.                 *)
THEOREM NoneLost == Spec => []NoLostNotification
<1>1. ASSUME IInv
      PROVE  NoLostNotification
  <2>1. Bounded!NoSleepingConsumer /\ Bounded!NoSleepingProducer
    <3>1. CASE subject = "BoundedBlockingQueue"
      BY <1>1, <3>1 DEF IInv, BoundedInv
    <3>2. CASE subject # "BoundedBlockingQueue"
      <4>1. ring_ = <<>> /\ waiters["notFull_"] = {} /\ Len(ring_) = 0
        BY <1>1, <3>2, ThreadFacts DEF IInv, Resting, BlockingInv, LatchInv, PoolInv
      <4> QED BY <4>1, CountFacts, SameCardinality
              DEF Bounded!NoSleepingConsumer, Bounded!NoSleepingProducer
    <3> QED BY <3>1, <3>2
  <2>2. Blocking!NoSleepingConsumer
    <3>1. CASE subject = "BlockingQueue"
      BY <1>1, <3>1 DEF IInv, BlockingInv
    <3>2. CASE subject # "BlockingQueue"
      <4>1. queue_ = <<>> /\ Len(queue_) = 0
        BY <1>1, <3>2 DEF IInv, Resting
      <4> QED BY <4>1, CountFacts, BlockingCount
    <3> QED BY <3>1, <3>2
  <2> QED BY <2>1, <2>2 DEF NoLostNotification
<1> QED BY <1>1, Inductive, PTL

(* CountDownLatch.cc:11-28, ThreadPool.cc:33-90, EventLoopThread.cc:20-54: *)
(* nobody passes the latch early, no task runs twice, startLoop() finds    *)
(* the loop, and any mutex is free when it is destroyed.                   *)
THEOREM InDueTime == Spec => []GoesOnWhenDue
<1>1. ASSUME IInv
      PROVE  GoesOnWhenDue
  <2>1. TypeOK
    BY <1>1 DEF IInv, TypeOK, BoundedInv, BlockingInv, LatchInv, PoolInv, LoopInv
  <2>2. Bounded!Destroyable /\ LoopThread!StartFindsLoop /\ LoopThread!OnlyWakeupIsLate
    BY <1>1 DEF IInv, Monitored, LoopInv
  <2>3. Latch!NoEarlyPass
    <3>1. CASE subject = "CountDownLatch"
      BY <1>1, <3>1 DEF IInv, LatchInv
    <3>2. CASE subject # "CountDownLatch"
      <4>1. \A t \in Threads : pc[t] # "passed"
        <5>1. CASE subject \in {"ThreadPool", "EventLoopThread"}
          BY <1>1, <5>1 DEF IInv, Resting
        <5>2. CASE subject = "BoundedBlockingQueue"
          BY <1>1, <5>2 DEF IInv, BoundedInv, Bounded!TypeOK
        <5>3. CASE subject = "BlockingQueue"
          BY <1>1, <5>3 DEF IInv, BlockingInv, Blocking!TypeOK
        <5> QED BY <1>1, <3>2, <5>1, <5>2, <5>3 DEF IInv
      <4> QED BY <4>1, ThreadFacts DEF Latch!NoEarlyPass
    <3> QED BY <3>1, <3>2
  <2>4. Pool!TaskOnce /\ Pool!QueueStaysEmpty
    <3>1. CASE subject = "ThreadPool"
      BY <1>1, <3>1 DEF IInv, PoolInv
    <3>2. CASE subject # "ThreadPool"
      BY <1>1, <3>2 DEF IInv, Resting, Pool!TaskOnce, Pool!QueueStaysEmpty
    <3> QED BY <3>1, <3>2
  <2> QED BY <2>1, <2>2, <2>3, <2>4 DEF GoesOnWhenDue
<1> QED BY <1>1, Inductive, PTL

(* Either queue, with all that happens inside put() and take(), is a       *)
(* first-in first-out queue; the bounded one is never over its capacity.   *)
THEOREM FirstInFirstOut == Spec => QueuesAreFifo
<1>1. Init => Bounded!Fifo!Init /\ Blocking!Fifo!Init
  BY DEF Init, Bounded!Init, Blocking!Init, Bounded!Fifo!Init, Blocking!Fifo!Init
<1>2. IInv /\ [Next]_vars => [Bounded!Fifo!Next]_(Bounded!Fifo!vars)
  <2> SUFFICES ASSUME IInv, [Next]_vars
               PROVE  Bounded!Fifo!Next \/ UNCHANGED Bounded!Fifo!vars
    OBVIOUS
  <2>1. CASE BoundedOnly /\ Bounded!Next
    BY <2>1, ThreadsAssumption, BoundedIsFifo DEF IInv, BoundedOnly
  <2>2. CASE UNCHANGED <<ring_, taken, put>>
    BY <2>2 DEF Bounded!Fifo!vars
  <2> QED BY <2>1, <2>2 DEF Next, BlockingOnly, LatchOnly, PoolOnly, LoopThreadOnly, vars,
          queues
<1>3. IInv /\ [Next]_vars => [Blocking!Fifo!Next]_(Blocking!Fifo!vars)
  <2> SUFFICES ASSUME IInv, [Next]_vars
               PROVE  Blocking!Fifo!Next \/ UNCHANGED Blocking!Fifo!vars
    OBVIOUS
  <2>1. CASE BlockingOnly /\ Blocking!Next
    BY <2>1, BlockingIsFifo DEF IInv, BlockingOnly
  <2>2. CASE UNCHANGED <<queue_, got, came>>
    BY <2>2 DEF Blocking!Fifo!vars
  <2> QED BY <2>1, <2>2 DEF Next, BoundedOnly, LatchOnly, PoolOnly, LoopThreadOnly, vars,
          queues
<1> QED BY <1>1, <1>2, <1>3, Inductive, PTL DEF Spec, QueuesAreFifo,
        Bounded!ImplementsFifoQueue, Blocking!ImplementsFifoQueue, Bounded!Fifo!Spec,
        Blocking!Fifo!Spec

=============================================================================
