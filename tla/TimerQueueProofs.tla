-------------------------- MODULE TimerQueueProofs --------------------------
(***************************************************************************)
(* Theorems about TimerQueue, for any addresses, workers, delays and       *)
(* intervals, and any bounds on the Timers created and on the clock: the   *)
(* two sets agree, every Timer has one owner, a cancelled one stays out,   *)
(* and an alarm is always set.                                             *)
(***************************************************************************)
EXTENDS TimerQueue, FiniteSetTheorems, SequenceTheorems, WellFoundedInduction,
        NaturalsInduction, TLAPS

(* The inductive invariant.                                                *)

Allocated == {a \in Addresses : heap[a] # Free}

(* The longest delay or interval.                                          *)
Farthest == Max(Delays \cup Intervals \cup {1})

(* How far off an expiration can be: the longest delay or interval, and a  *)
(* tick for every time the clock was set, in the queue or in a batch that  *)
(* is being run; and how far ahead of the alarm's clock it can be.         *)
TimeInv ==
    /\ \A a \in Allocated : heap[a].expiration <= Farthest + adjusts
    /\ -adjusts <= elapsed
    /\ ahead <= adjusts

(* s_numCreated_ is ahead of every sequence number in use, no two Timers   *)
(* share one, and only numbers given out were cancelled: an address that   *)
(* is allocated again gets a number no old TimerId carries.                *)
SequenceInv ==
    /\ \A a \in Allocated : heap[a].sequence <= numCreated_
    /\ \A a, b \in Allocated : heap[a].sequence = heap[b].sequence => a = b
    /\ \A s \in cancelled : s <= numCreated_

(* No Timer is queued twice for addTimerInLoop.                            *)
QueueInv ==
    \A i, j \in DOMAIN pendingFunctors_ :
       /\ pendingFunctors_[i].op = "add" /\ pendingFunctors_[j].op = "add"
       /\ pendingFunctors_[i].timer = pendingFunctors_[j].timer
       => i = j

(* The batch is empty except while handleRead runs it, with the flag up.   *)
BatchInv ==
    /\ callingExpiredTimers_ <=> pc # "idle"
    /\ pc = "idle" => expired = {}

(* A cancelled Timer that is still allocated is in the batch, and noted in *)
(* cancelingTimers_: reset will delete it.                                 *)
CancelInv ==
    \A a \in Allocated : heap[a].sequence \in cancelled =>
       a \in expired /\ <<a, heap[a].sequence>> \in cancelingTimers_

(* AlarmSet, entry by entry.                                               *)
AlarmInv ==
    pc = "idle" /\ ~readable /\ ~reported =>
       \A e \in timers_ : alarm # Disarmed /\ (alarm <= e[1] + ahead \/ alarm <= 1)

IInv == /\ TypeOK /\ SetsAgree /\ OneOwner
        /\ TimeInv /\ SequenceInv /\ QueueInv /\ BatchInv /\ CancelInv /\ AlarmInv

-----------------------------------------------------------------------------
(* Least and greatest elements: Min and Max of FiniteSetsExt choose one,   *)
(* which is there in a set of naturals (least) and in a finite one.        *)

(* A set of naturals has a least element.                                  *)
LEMMA NatLeast ==
  ASSUME NEW T, T \subseteq Nat, T # {}
  PROVE \E x \in T : \A y \in T : x <= y
<1>1. PICK x \in T : \A y \in T : <<y, x>> \notin OpToRel(<, Nat)
  BY WFMin, NatLessThanWellFounded, Zenon
<1>2. \A y \in T : ~(y < x)
  BY <1>1 DEF OpToRel
<1> QED BY <1>2
(* A finite set of naturals is bounded, or else its enumeration would have *)
(* a least prefix that is not.                                             *)
LEMMA FiniteBound ==
  ASSUME NEW S, S \subseteq Nat, IsFiniteSet(S)
  PROVE \E b \in Nat : \A x \in S : x <= b
<1>0. PICK n \in Nat : ExistsSurjection(1..n, S)
  BY FS_NatSurjection
<1>1. PICK f \in [1..n -> S] : \A x \in S : \E i \in 1..n : f[i] = x
  BY <1>0 DEF ExistsSurjection, Surjection
<1>2. \A i \in 1..n : f[i] \in Nat
  OBVIOUS
<1> DEFINE Bounded(k) == \E b \in Nat : \A i \in 1..k : f[i] <= b
           Bad == {k \in 0..n : ~Bounded(k)}
<1>3. Bounded(0)
  OBVIOUS
<1>4. ASSUME NEW k \in 1..n, Bounded(k - 1) PROVE Bounded(k)
  <2>1. PICK b \in Nat : \A i \in 1..(k - 1) : f[i] <= b
    BY <1>4
  <2>2. CASE f[k] <= b
    <3>1. \A i \in 1..k : f[i] <= b
      BY <2>1, <2>2, <1>2
    <3> QED BY <3>1
  <2>3. CASE f[k] > b
    <3>1. \A i \in 1..k : f[i] <= f[k]
      BY <2>1, <2>3, <1>2
    <3> QED BY <3>1, <1>2
  <2> QED BY <2>2, <2>3, <1>2
<1> HIDE DEF Bounded
<1>5. Bad = {}
  <2> SUFFICES ASSUME Bad # {} PROVE FALSE OBVIOUS
  <2>0. Bad \subseteq Nat
    OBVIOUS
  <2>1. PICK k \in Bad : \A y \in Bad : k <= y
    <3> HIDE DEF Bad
    <3> QED BY <2>0, NatLeast
  <2>2. k \in 1..n /\ k - 1 \in 0..n
    BY <2>1, <1>3
  <2>3. Bounded(k - 1)
    BY <2>1, <2>2
  <2> QED BY <2>1, <2>2, <2>3, <1>4
<1>6. Bounded(n)
  BY <1>5
<1> QED BY <1>1, <1>6 DEF Bounded
(* What Max returns for a finite set, ...                                  *)
LEMMA MaxFinite ==
  ASSUME NEW S, S \subseteq Nat, S # {}, IsFiniteSet(S)
  PROVE  Max(S) \in S /\ \A x \in S : x <= Max(S)
<1>1. PICK b \in Nat : \A x \in S : x <= b
  BY FiniteBound
<1> DEFINE T == {b - x : x \in S}
<1>2. T \subseteq Nat /\ T # {}
  <2>1. \A x \in S : b - x \in Nat
    BY <1>1
  <2> QED BY <2>1, Zenon
<1>3. PICK t \in T : \A y \in T : t <= y
  <2> HIDE DEF T
  <2> QED BY <1>2, NatLeast
<1>4. PICK m \in S : t = b - m
  OBVIOUS
<1>5. \A x \in S : m >= x
  BY <1>3, <1>4, <1>1
<1> QED BY <1>5 DEF Max
(* ... and Min for any set of naturals; ...                                *)
LEMMA MinNat ==
  ASSUME NEW S, S \subseteq Nat, S # {}
  PROVE  Min(S) \in S /\ \A x \in S : Min(S) <= x
BY NatLeast DEF Min
(* ... and both for two numbers.                                           *)
LEMMA MaxPair ==
  ASSUME NEW x \in Int, NEW y \in Int
  PROVE  Max({x, y}) = IF x >= y THEN x ELSE y
BY DEF Max
LEMMA MinPair ==
  ASSUME NEW x \in Int, NEW y \in Int
  PROVE  Min({x, y}) = IF x <= y THEN x ELSE y
BY DEF Min

-----------------------------------------------------------------------------
(* Delays and intervals are within Farthest, so within Horizon.            *)
LEMMA HorizonFacts ==
    /\ Farthest \in Nat /\ 1 <= Farthest
    /\ \A d \in Delays : d \in Nat /\ d <= Farthest
    /\ \A d \in Intervals : d \in Nat /\ d <= Farthest
    /\ Horizon = Farthest + MaxAdjusts /\ Horizon \in Nat /\ MaxAdjusts \in Nat
<1> DEFINE S == Delays \cup Intervals \cup {1}
<1>1. S \subseteq Nat /\ S # {}
  BY TimeAssumption
<1>2. IsFiniteSet(S)
  BY TimeAssumption, FS_Union, FS_Singleton
<1>3. Max(S) \in S /\ \A x \in S : x <= Max(S)
  <2> HIDE DEF S
  <2> QED BY <1>1, <1>2, MaxFinite
<1>4. Farthest = Max(S) /\ Horizon = Farthest + MaxAdjusts
  BY DEF Farthest, Horizon
<1>5. \A x \in S : x <= Farthest
  BY <1>3, <1>4
<1>6. Farthest \in Nat
  BY <1>1, <1>3, <1>4
<1> QED
  BY <1>4, <1>5, <1>6, TimeAssumption

(* An address holds a Timer or is free.                                    *)
LEMMA HeapFacts ==
    ASSUME TypeOK, NEW a \in Addresses
    PROVE  /\ heap[a] \in Timer \cup {Free}
           /\ heap[a] # Free <=> heap[a] \in Timer
           /\ heap[a] \in Timer =>
                 /\ heap[a].sequence \in 1 .. MaxSequence /\ heap[a].expiration \in Nat
                 /\ heap[a].interval \in Nat /\ heap[a].interval \in Intervals
                 /\ heap[a].expiration <= Horizon
<1>1. heap[a] \in Timer \cup {Free}
  BY DEF TypeOK
<1>2. ASSUME heap[a] \in Timer
      PROVE  /\ heap[a].sequence \in 1 .. MaxSequence /\ heap[a].expiration \in 0 .. Horizon
             /\ heap[a].interval \in Intervals
  BY <1>2 DEF Timer, Sequence, Ticks
<1>3. Free \notin Timer
  BY TimeAssumption DEF Timer, Free, Sequence
<1>4. heap[a] # Free <=> heap[a] \in Timer
  BY <1>1, <1>3
<1>5. ASSUME heap[a] \in Timer
      PROVE  /\ heap[a].expiration \in Nat /\ heap[a].expiration <= Horizon
             /\ heap[a].interval \in Nat
  BY <1>2, <1>5, HorizonFacts
<1> QED
  BY <1>1, <1>2, <1>4, <1>5

(* SetsAgree, element by element, from either set.                         *)
LEMMA SetFacts ==
    ASSUME TypeOK, SetsAgree
    PROVE  /\ Active \subseteq Addresses
           /\ \A a \in Active : heap[a] # Free /\ <<a, heap[a].sequence>> \in activeTimers_
           /\ \A a \in Active : <<heap[a].expiration, a>> \in timers_
           /\ \A id \in activeTimers_ : /\ id[1] \in Active /\ id = <<id[1], id[2]>>
                                        /\ id[2] = heap[id[1]].sequence
           /\ \A e \in timers_ : /\ e[2] \in Active /\ e[1] = heap[e[2]].expiration
                                 /\ e = <<e[1], e[2]>> /\ e[1] \in Nat
<1>1. activeTimers_ \subseteq Addresses \X (0 .. MaxSequence)
  BY DEF TypeOK, TimerIds
<1>2. \A id \in activeTimers_ : id = <<id[1], id[2]>> /\ id[1] \in Addresses
  BY <1>1
<1>3. Active \subseteq Addresses /\ \A id \in activeTimers_ : id[1] \in Active
  BY <1>2 DEF Active
<1>4. \A a \in Active : heap[a] # Free /\ <<a, heap[a].sequence>> \in activeTimers_
  BY <1>2 DEF Active, SetsAgree
<1>5. \A a \in Active : <<heap[a].expiration, a>> \in timers_
  BY DEF SetsAgree
<1>6. \A e \in timers_ : /\ e[2] \in Active /\ e[1] = heap[e[2]].expiration
                         /\ e = <<e[1], e[2]>>
  BY DEF SetsAgree
<1>7. \A a \in Active : heap[a].expiration \in Nat
  BY <1>3, <1>4, HeapFacts
<1> QED
  BY <1>2, <1>3, <1>4, <1>5, <1>6, <1>7 DEF SetsAgree

-----------------------------------------------------------------------------
(* Additions in the queue of functors.                                     *)
Adds(q) == {a \in Addresses : \E i \in 1 .. Len(q) : q[i].op = "add" /\ q[i].timer = a}

Once(q) == \A i, j \in 1 .. Len(q) :
              q[i].op = "add" /\ q[j].op = "add" /\ q[i].timer = q[j].timer => i = j

(* Adds is what QueuedToAdd collects.                                      *)
LEMMA AddsOfQueue ==
    ASSUME NEW q \in Seq(Functors)
    PROVE  /\ {f.timer : f \in {g \in Range(q) : g.op = "add"}} = Adds(q)
           /\ DOMAIN q = 1 .. Len(q)
<1>1. DOMAIN q = 1 .. Len(q)
  BY LenProperties
<1>2. \A i \in 1 .. Len(q) : q[i].op = "add" => q[i].timer \in Addresses
  BY ElementOfSeq, <1>1 DEF Functors
<1> QED
  BY <1>1, <1>2, Zenon DEF Adds, Range

(* The two forms of QueuedToAdd and of QueueInv, now and after a step.     *)
LEMMA QueuedIsAdds ==
    /\ pendingFunctors_ \in Seq(Functors) =>
          QueuedToAdd = Adds(pendingFunctors_) /\ (QueueInv <=> Once(pendingFunctors_))
    /\ pendingFunctors_' \in Seq(Functors) =>
          QueuedToAdd' = Adds(pendingFunctors_') /\ (QueueInv' <=> Once(pendingFunctors_'))
BY AddsOfQueue DEF QueuedToAdd, QueueInv, Once

(* Queueing an addition, ...                                               *)
LEMMA AppendAdd ==
    ASSUME NEW q \in Seq(Functors), NEW a \in Addresses
    PROVE  LET r == Append(q, [op |-> "add", timer |-> a])
           IN  /\ r \in Seq(Functors) /\ Adds(r) = Adds(q) \cup {a}
               /\ Once(q) /\ a \notin Adds(q) => Once(r)
<1> DEFINE r == Append(q, [op |-> "add", timer |-> a])
<1>1. [op |-> "add", timer |-> a] \in Functors
  BY DEF Functors
<1>2. /\ r \in Seq(Functors) /\ Len(q) \in Nat /\ Len(r) = Len(q) + 1
      /\ \A i \in 1 .. Len(q) : r[i] = q[i]
      /\ r[Len(q) + 1] = [op |-> "add", timer |-> a]
  BY <1>1, AppendProperties, LenProperties
<1> HIDE DEF r
<1>3. Adds(r) = Adds(q) \cup {a}
  BY <1>2 DEF Adds
<1>4. ASSUME Once(q), a \notin Adds(q) PROVE Once(r)
  BY <1>2, <1>4 DEF Adds, Once
<1> QED
  BY <1>2, <1>3, <1>4 DEF r

(* ... queueing a cancellation, ...                                        *)
LEMMA AppendCancel ==
    ASSUME NEW q \in Seq(Functors), NEW id \in TimerIds
    PROVE  LET r == Append(q, [op |-> "cancel", id |-> id])
           IN  /\ r \in Seq(Functors) /\ Adds(r) = Adds(q)
               /\ Once(q) => Once(r)
<1> DEFINE r == Append(q, [op |-> "cancel", id |-> id])
<1>1. [op |-> "cancel", id |-> id] \in Functors
  BY DEF Functors
<1>2. /\ r \in Seq(Functors) /\ Len(q) \in Nat /\ Len(r) = Len(q) + 1
      /\ \A i \in 1 .. Len(q) : r[i] = q[i]
      /\ r[Len(q) + 1].op # "add"
  BY <1>1, AppendProperties, LenProperties
<1> HIDE DEF r
<1>3. Adds(r) = Adds(q)
  BY <1>2 DEF Adds
<1>4. ASSUME Once(q) PROVE Once(r)
  BY <1>2, <1>4 DEF Once
<1> QED
  BY <1>2, <1>3, <1>4 DEF r

(* ... and taking the functor at the head.                                 *)
LEMMA TakeFunctor ==
    ASSUME NEW q \in Seq(Functors), q # << >>, Once(q)
    PROVE  /\ Tail(q) \in Seq(Functors) /\ Head(q) \in Functors /\ Once(Tail(q))
           /\ Head(q).op = "add" => /\ Head(q).timer \in Adds(q)
                                     /\ Adds(Tail(q)) = Adds(q) \ {Head(q).timer}
           /\ Head(q).op # "add" => Adds(Tail(q)) = Adds(q) /\ Head(q).id \in TimerIds
<1> DEFINE r == Tail(q)
<1>1. /\ r \in Seq(Functors) /\ Head(q) \in Functors /\ Head(q) = q[1]
      /\ Len(q) \in Nat \ {0} /\ Len(r) = Len(q) - 1
      /\ \A i \in 1 .. Len(r) : r[i] = q[i + 1]
  BY HeadTailProperties, EmptySeq, LenProperties
<1> HIDE DEF r
<1>2. Once(r)
  BY <1>1 DEF Once
<1>3. \A a : (\E i \in 1 .. Len(r) : r[i].op = "add" /\ r[i].timer = a)
         <=> \E i \in 2 .. Len(q) : q[i].op = "add" /\ q[i].timer = a
  <2> TAKE a
  <2>1. ASSUME NEW i \in 1 .. Len(r), r[i].op = "add", r[i].timer = a
        PROVE  \E j \in 2 .. Len(q) : q[j].op = "add" /\ q[j].timer = a
    <3>1. i + 1 \in 2 .. Len(q) /\ r[i] = q[i + 1]
      BY <1>1
    <3> QED BY <2>1, <3>1
  <2>2. ASSUME NEW i \in 2 .. Len(q), q[i].op = "add", q[i].timer = a
        PROVE  \E j \in 1 .. Len(r) : r[j].op = "add" /\ r[j].timer = a
    <3>1. i - 1 \in 1 .. Len(r) /\ r[i - 1] = q[i]
      BY <1>1
    <3> QED BY <2>2, <3>1
  <2> QED BY <2>1, <2>2
<1>4. ASSUME Head(q).op = "add"
      PROVE  Head(q).timer \in Adds(q) /\ Adds(r) = Adds(q) \ {Head(q).timer}
  <2>1. Head(q).timer \in Addresses
    BY <1>1, <1>4 DEF Functors
  <2>2. \A i \in 2 .. Len(q) : q[i].op = "add" => q[i].timer # Head(q).timer
    BY <1>1, <1>4 DEF Once
  <2>3. 1 \in 1 .. Len(q) /\ \A i \in 1 .. Len(q) : i = 1 \/ i \in 2 .. Len(q)
    BY <1>1
  <2>4. 2 .. Len(q) \subseteq 1 .. Len(q)
    BY <1>1
  <2>5. Head(q).timer \in Adds(q)
    BY <1>1, <1>4, <2>1, <2>3 DEF Adds
  <2>6. ASSUME NEW a \in Addresses
        PROVE  a \in Adds(r) <=> a \in Adds(q) /\ a # Head(q).timer
    <3>1. a \in Adds(r) <=> \E i \in 2 .. Len(q) : q[i].op = "add" /\ q[i].timer = a
      BY <1>3 DEF Adds
    <3>2. a \in Adds(q) <=> \E i \in 1 .. Len(q) : q[i].op = "add" /\ q[i].timer = a
      BY DEF Adds
    <3> QED BY <3>1, <3>2, <1>1, <1>4, <2>2, <2>3, <2>4
  <2> QED
    BY <2>5, <2>6 DEF Adds
<1>5. ASSUME Head(q).op # "add"
      PROVE  Adds(r) = Adds(q) /\ Head(q).id \in TimerIds
  <2>1. 1 \in 1 .. Len(q) /\ \A i \in 1 .. Len(q) : i = 1 \/ i \in 2 .. Len(q)
    BY <1>1
  <2>2. 2 .. Len(q) \subseteq 1 .. Len(q)
    BY <1>1
  <2>3. Head(q).id \in TimerIds
    BY <1>1, <1>5 DEF Functors
  <2>4. ASSUME NEW a \in Addresses
        PROVE  a \in Adds(r) <=> a \in Adds(q)
    <3>1. a \in Adds(r) <=> \E i \in 2 .. Len(q) : q[i].op = "add" /\ q[i].timer = a
      BY <1>3 DEF Adds
    <3>2. a \in Adds(q) <=> \E i \in 1 .. Len(q) : q[i].op = "add" /\ q[i].timer = a
      BY DEF Adds
    <3> QED BY <3>1, <3>2, <1>1, <1>5, <2>1, <2>2
  <2> QED
    BY <2>3, <2>4 DEF Adds
<1> QED
  BY <1>1, <1>2, <1>4, <1>5 DEF r

-----------------------------------------------------------------------------
(* TimerQueue's constructor.                                               *)
LEMMA InitIInv == Init => IInv
<1> SUFFICES ASSUME Init PROVE IInv
  OBVIOUS
<1>1. TypeOK
  <2>1. /\ 0 \in Ticks /\ 0 \in -MaxAdjusts .. Horizon
        /\ 0 \in 0 .. MaxSequence /\ 0 \in 0 .. MaxAdjusts
    BY HorizonFacts, TimeAssumption DEF Ticks
  <2>2. heap \in [Addresses -> Timer \cup {Free}] /\ returning \in [Workers -> TimerIds \cup {None}]
    BY DEF Init
  <2> QED
    BY <2>1, <2>2, EmptySeq, Zenon DEF Init, TypeOK, Disarmed
<1>2. /\ Active = {} /\ QueuedToAdd = {} /\ Allocated = {}
      /\ \A i, j \in DOMAIN pendingFunctors_ : FALSE
  BY DEF Init, Active, QueuedToAdd, Allocated, Range
<1>3. SetsAgree /\ OneOwner
  BY <1>2 DEF Init, SetsAgree, OneOwner, Allocated
<1> QED
  BY <1>1, <1>2, <1>3 DEF Init, IInv, TimeInv, SequenceInv, QueueInv, BatchInv, CancelInv,
     AlarmInv

(* addTimerInLoop, for a Timer that is not in the sets yet.                *)
LEMMA Inserted ==
    ASSUME IInv, NEW a \in Addresses, a \notin Active,
           heap' \in [Addresses -> Timer \cup {Free}], heap'[a] \in Timer,
           \A b \in Addresses \ {a} : heap'[b] = heap[b],
           addTimerInLoop(a, heap'[a].sequence, heap'[a].expiration),
           UNCHANGED <<pc, reported>>
    PROVE  /\ SetsAgree' /\ Active' = Active \cup {a}
           /\ timers_' \subseteq Ticks \X Addresses /\ activeTimers_' \subseteq TimerIds
           /\ alarm' \in Ticks /\ readable' \in BOOLEAN /\ ahead' \in 0 .. MaxAdjusts
           /\ ahead' = ahead \/ ahead' = 0
           /\ AlarmInv'
<1> DEFINE when == heap'[a].expiration
           seq == heap'[a].sequence
<1>0. TypeOK /\ SetsAgree
  BY DEF IInv
<1>1. /\ when \in Nat /\ when <= Horizon /\ when \in Ticks /\ seq \in 1 .. MaxSequence
      /\ heap'[a] # Free
  BY HorizonFacts, TimeAssumption DEF Timer, Free, Sequence, Ticks
<1> HIDE DEF when, seq
<1>2. /\ timers_' = timers_ \cup {<<when, a>>}
      /\ activeTimers_' = activeTimers_ \cup {<<a, seq>>}
      /\ IF EarliestChanged(when) THEN resetTimerFd(when) ELSE UNCHANGED timerfd
  BY DEF addTimerInLoop, insert, when, seq
<1>3. Active' = Active \cup {a}
  <2>1. <<a, seq>>[1] = a
    OBVIOUS
  <2>2. Active' = {id[1] : id \in activeTimers_'}
    BY DEF Active
  <2> QED
    BY <1>2, <2>1, <2>2, Zenon DEF Active
<1>4. \A b \in Active : b \in Addresses /\ b # a /\ heap'[b] = heap[b]
  BY <1>0, SetFacts
<1>5. SetsAgree'
  <2>1. \A id \in activeTimers_' : heap'[id[1]] # Free /\ heap'[id[1]].sequence = id[2]
    BY <1>0, <1>1, <1>2, <1>4, SetFacts DEF SetsAgree, seq
  <2>2. timers_' = {<<heap'[b].expiration, b>> : b \in Active'}
    <3>1. timers_ = {<<heap'[b].expiration, b>> : b \in Active}
      BY <1>0, <1>4 DEF SetsAgree
    <3> QED
      BY <1>2, <1>3, <3>1 DEF when
  <2> QED
    BY <2>1, <2>2 DEF SetsAgree
<1>6. timers_' \subseteq Ticks \X Addresses /\ activeTimers_' \subseteq TimerIds
  BY <1>0, <1>1, <1>2 DEF TypeOK, TimerIds
<1> DEFINE first == {e[1] : e \in timers_}
<1>7. timers_ # {} => /\ Earliest(timers_) \in first
                      /\ \A t \in first : Earliest(timers_) <= t
  <2>1. first \subseteq Nat /\ (timers_ # {} => first # {})
    BY <1>0, SetFacts
  <2>2. Earliest(timers_) = Min(first)
    BY DEF Earliest
  <2> HIDE DEF first
  <2> QED
    BY <2>1, <2>2, MinNat, ZenonT(60)
<1>8. CASE EarliestChanged(when)
  <2>1. alarm' = (IF when >= 1 THEN when ELSE 1) /\ readable' = FALSE /\ ahead' = 0
    BY <1>1, <1>2, <1>8, MaxPair DEF resetTimerFd
  <2>2. \A e \in timers_ : when <= e[1] /\ e[1] \in Nat
    BY <1>0, <1>1, <1>7, <1>8, SetFacts DEF EarliestChanged
  <2>3. \A e \in timers_' : when <= e[1] /\ e[1] \in Nat
    BY <1>1, <1>2, <2>2
  <2>4. AlarmInv'
    BY <1>1, <2>1, <2>3 DEF AlarmInv, Disarmed
  <2>5. alarm' \in Ticks /\ ahead' \in 0 .. MaxAdjusts
    BY <1>1, <2>1, HorizonFacts DEF Ticks
  <2> QED
    BY <1>3, <1>5, <1>6, <2>1, <2>4, <2>5
<1>9. CASE ~EarliestChanged(when)
  <2>1. UNCHANGED <<alarm, readable, ahead>>
    BY <1>2, <1>9 DEF timerfd
  <2>2. PICK e \in timers_ : e[1] <= when /\ e[1] \in Nat
    BY <1>0, <1>1, <1>7, <1>9, SetFacts DEF EarliestChanged
  <2>3. AlarmInv'
    <3>1. alarm \in Nat /\ ahead \in Nat
      BY <1>0, HorizonFacts DEF TypeOK, Ticks
    <3> QED
      BY <3>1, <1>1, <1>2, <2>1, <2>2 DEF AlarmInv, IInv
  <2> QED
    BY <1>0, <1>3, <1>5, <1>6, <2>1, <2>3 DEF TypeOK
<1> QED
  BY <1>8, <1>9

(* new Timer: at an address nothing else refers to, with a new sequence.   *)
LEMMA Created ==
    ASSUME IInv, NEW a \in Addresses, NEW delay \in Delays, NEW interval \in Intervals,
           NewTimer(a, delay, interval),
           ahead' = ahead \/ ahead' = 0,
           UNCHANGED <<elapsed, expired, cancelingTimers_, cancelled, adjusts>>
    PROVE  /\ heap' \in [Addresses -> Timer \cup {Free}] /\ heap'[a] \in Timer
           /\ heap'[a].sequence = numCreated_ + 1 /\ heap'[a].expiration = delay
           /\ \A b \in Addresses \ {a} : heap'[b] = heap[b]
           /\ a \notin Active \cup expired \cup QueuedToAdd
           /\ Allocated' = Allocated \cup {a}
           /\ numCreated_' \in 0 .. MaxSequence /\ numCreated_ + 1 \in 0 .. MaxSequence
           /\ TimeInv' /\ SequenceInv' /\ CancelInv'
<1>0. TypeOK /\ TimeInv /\ SequenceInv /\ CancelInv /\ OneOwner
  BY DEF IInv
<1>1. numCreated_ \in Nat /\ numCreated_ + 1 \in 1 .. MaxSequence /\ adjusts \in Nat
  BY <1>0, TimeAssumption DEF NewTimer, TypeOK
<1> DEFINE t == [sequence |-> numCreated_ + 1, expiration |-> delay, interval |-> interval]
<1>2. t \in Timer /\ t # Free
  <2>1. delay \in Ticks
    BY HorizonFacts DEF Ticks
  <2> QED
    BY <2>1, <1>1 DEF Timer, Free, Sequence
<1>3. t.sequence = numCreated_ + 1 /\ t.expiration = delay
  OBVIOUS
<1>4. heap' = [heap EXCEPT ![a] = t] /\ heap[a] = Free /\ numCreated_' = numCreated_ + 1
  BY DEF NewTimer
<1> HIDE DEF t
<1>5. /\ heap' \in [Addresses -> Timer \cup {Free}] /\ heap'[a] = t
      /\ \A b \in Addresses \ {a} : heap'[b] = heap[b]
  BY <1>0, <1>2, <1>4 DEF TypeOK
<1>6. a \notin Active \cup expired \cup QueuedToAdd
  BY <1>0, <1>4 DEF OneOwner
<1>7. Allocated' = Allocated \cup {a}
  BY <1>2, <1>5 DEF Allocated
<1>8. a \notin Allocated
  BY <1>4 DEF Allocated
<1>9. \A b \in Allocated : /\ b \in Addresses /\ b # a /\ heap'[b] = heap[b]
                           /\ heap[b].sequence \in Nat /\ heap[b].sequence <= numCreated_
  BY <1>0, <1>5, <1>8, HeapFacts DEF Allocated, SequenceInv
<1>10. TimeInv'
  <2>1. \A b \in Allocated' : heap'[b].expiration <= Farthest + adjusts
    BY <1>0, <1>1, <1>3, <1>5, <1>7, <1>9, HorizonFacts DEF TimeInv
  <2>2. ahead' <= adjusts
    BY <1>0, <1>1 DEF TimeInv
  <2> QED
    BY <1>0, <2>1, <2>2 DEF TimeInv, Farthest
<1>11. cancelled \subseteq Nat
  BY <1>0, TimeAssumption DEF TypeOK, Sequence
<1>12. SequenceInv'
  <2>1. \A b \in Allocated' : heap'[b].sequence <= numCreated_'
    BY <1>1, <1>3, <1>4, <1>5, <1>7, <1>9
  <2>2. \A b, c \in Allocated' : heap'[b].sequence = heap'[c].sequence => b = c
    BY <1>0, <1>1, <1>3, <1>5, <1>7, <1>9 DEF SequenceInv
  <2>3. \A n \in cancelled' : n <= numCreated_'
    BY <1>0, <1>1, <1>4, <1>11 DEF SequenceInv
  <2> QED
    BY <2>1, <2>2, <2>3 DEF SequenceInv
<1>13. CancelInv'
  <2>1. heap'[a].sequence \notin cancelled
    BY <1>0, <1>1, <1>3, <1>5, <1>11 DEF SequenceInv
  <2> QED
    BY <1>0, <1>7, <1>9, <2>1 DEF CancelInv
<1> QED
  BY <1>1, <1>2, <1>3, <1>4, <1>5, <1>6, <1>7, <1>10, <1>12, <1>13

(* addTimer in the loop's thread.                                          *)
LEMMA AddKeeps ==
    ASSUME IInv, NEW a \in Addresses, NEW delay \in Delays, NEW interval \in Intervals,
           addTimer(a, delay, interval), UNCHANGED adjusts
    PROVE  IInv'
<1>1. /\ NewTimer(a, delay, interval) /\ addTimerInLoop(a, numCreated_ + 1, delay)
      /\ ids' = ids \cup {<<a, numCreated_ + 1>>}
      /\ UNCHANGED <<callingExpiredTimers_, expired, toRun, elapsed, pc, cancelingTimers_, reported,
                     pendingFunctors_, returning, ran, cancelled, adjusts>>
  BY DEF addTimer, batch
<1>0. ahead' = ahead \/ ahead' = 0
  BY <1>1 DEF addTimerInLoop, resetTimerFd, timerfd
<1>2. /\ heap' \in [Addresses -> Timer \cup {Free}] /\ heap'[a] \in Timer
      /\ heap'[a].sequence = numCreated_ + 1 /\ heap'[a].expiration = delay
      /\ \A b \in Addresses \ {a} : heap'[b] = heap[b]
      /\ a \notin Active \cup expired \cup QueuedToAdd
      /\ Allocated' = Allocated \cup {a}
      /\ numCreated_' \in 0 .. MaxSequence /\ numCreated_ + 1 \in 0 .. MaxSequence
      /\ TimeInv' /\ SequenceInv' /\ CancelInv'
  BY <1>0, <1>1, Created
<1>3. /\ SetsAgree' /\ Active' = Active \cup {a}
      /\ timers_' \subseteq Ticks \X Addresses /\ activeTimers_' \subseteq TimerIds
      /\ alarm' \in Ticks /\ readable' \in BOOLEAN /\ ahead' \in 0 .. MaxAdjusts
      /\ AlarmInv'
  BY <1>1, <1>2, Inserted
<1>4. TypeOK'
  BY <1>1, <1>2, <1>3 DEF IInv, TypeOK, TimerIds
<1>5. OneOwner'
  <2>1. QueuedToAdd' = QueuedToAdd
    BY <1>1 DEF QueuedToAdd
  <2> QED
    BY <1>1, <1>2, <1>3, <2>1 DEF IInv, OneOwner, Allocated
<1>6. QueueInv' /\ BatchInv'
  BY <1>1 DEF IInv, QueueInv, BatchInv
<1> QED
  BY <1>2, <1>3, <1>4, <1>5, <1>6 DEF IInv

(* addTimer in another thread: the Timer waits in the queue.               *)
LEMMA AddFromKeeps ==
    ASSUME IInv, NEW w \in Workers,
           NEW a \in Addresses, NEW delay \in Delays, NEW interval \in Intervals,
           addTimerFrom(w, a, delay, interval), UNCHANGED adjusts
    PROVE  IInv'
<1>1. /\ NewTimer(a, delay, interval)
      /\ pendingFunctors_' = Append(pendingFunctors_, [op |-> "add", timer |-> a])
      /\ returning' = [returning EXCEPT ![w] = <<a, numCreated_ + 1>>]
      /\ UNCHANGED <<timers_, activeTimers_, callingExpiredTimers_, expired, toRun, elapsed, pc,
                     cancelingTimers_, alarm, readable, ahead, reported, ids, ran, cancelled,
                     adjusts>>
  BY DEF addTimerFrom, batch, sets, timerfd
<1>2. /\ heap' \in [Addresses -> Timer \cup {Free}] /\ heap'[a] \in Timer
      /\ \A b \in Addresses \ {a} : heap'[b] = heap[b]
      /\ a \notin Active \cup expired \cup QueuedToAdd
      /\ Allocated' = Allocated \cup {a}
      /\ numCreated_' \in 0 .. MaxSequence /\ numCreated_ + 1 \in 0 .. MaxSequence
      /\ TimeInv' /\ SequenceInv' /\ CancelInv'
  BY <1>1, Created
<1>3. pendingFunctors_ \in Seq(Functors)
  BY DEF IInv, TypeOK
<1>4. /\ pendingFunctors_' \in Seq(Functors)
      /\ Adds(pendingFunctors_') = Adds(pendingFunctors_) \cup {a}
      /\ Once(pendingFunctors_) /\ a \notin Adds(pendingFunctors_) => Once(pendingFunctors_')
  BY <1>1, <1>3, AppendAdd
<1>5. QueuedToAdd' = QueuedToAdd \cup {a} /\ QueueInv'
  <2>1. QueuedToAdd = Adds(pendingFunctors_) /\ Once(pendingFunctors_)
    BY <1>3, QueuedIsAdds DEF IInv
  <2>2. QueuedToAdd' = Adds(pendingFunctors_') /\ (QueueInv' <=> Once(pendingFunctors_'))
    BY <1>4, QueuedIsAdds
  <2> QED
    BY <1>2, <1>4, <2>1, <2>2
<1>6. TypeOK'
  BY <1>1, <1>2, <1>4 DEF IInv, TypeOK, TimerIds
<1>7. Active' = Active /\ \A b \in Active : b \in Addresses \ {a}
  BY <1>1, <1>2, SetFacts DEF Active, IInv
<1>8. SetsAgree'
  BY <1>1, <1>2, <1>7, SetFacts DEF IInv, SetsAgree
<1>9. OneOwner'
  BY <1>1, <1>2, <1>5, <1>7 DEF IInv, OneOwner, Allocated
<1>10. BatchInv' /\ AlarmInv'
  BY <1>1 DEF IInv, BatchInv, AlarmInv
<1> QED
  BY <1>2, <1>5, <1>6, <1>8, <1>9, <1>10 DEF IInv

(* cancelInLoop, called or queued.                                         *)
LEMMA CancelKeeps ==
    ASSUME IInv, NEW id \in TimerIds, cancelInLoop(id),
           pendingFunctors_' \in Seq(Functors), Once(pendingFunctors_'),
           Adds(pendingFunctors_') = Adds(pendingFunctors_),
           UNCHANGED <<numCreated_, batch, timerfd, reported, returning, ids, ran, adjusts>>
    PROVE  IInv'
<1> DEFINE a == id[1]
<1>0. /\ a \in Addresses /\ id = <<a, id[2]>>
      /\ TypeOK /\ SetsAgree /\ OneOwner /\ SequenceInv /\ BatchInv /\ CancelInv /\ TimeInv /\ AlarmInv
  BY DEF TimerIds, IInv
<1>1. UNCHANGED <<numCreated_, callingExpiredTimers_, expired, toRun, elapsed, pc, alarm,
                  readable, ahead, reported, returning, ids, ran, adjusts>>
  BY DEF batch, timerfd
<1>2. QueuedToAdd' = QueuedToAdd /\ QueueInv'
  BY QueuedIsAdds, <1>0 DEF TypeOK
<1>3. expired \subseteq Allocated /\ Active \subseteq Allocated /\ QueuedToAdd \subseteq Allocated
  BY <1>0 DEF OneOwner, Allocated
<1>4. BatchInv'
  BY <1>0, <1>1 DEF BatchInv
<1>5. CASE Found(id)
  <2>1. /\ timers_' = timers_ \ {<<heap[a].expiration, a>>}
        /\ activeTimers_' = activeTimers_ \ {id}
        /\ heap' = [heap EXCEPT ![a] = Free]
        /\ cancelingTimers_' = cancelingTimers_
        /\ cancelled' = cancelled \cup {id[2]}
    BY <1>5 DEF cancelInLoop, erase, Found
  <2>2. a \in Active /\ id[2] = heap[a].sequence /\ heap[a] \in Timer
    BY <1>0, <1>5, SetFacts, HeapFacts DEF Found
  <2>3. Active' = Active \ {a}
    <3>1. ASSUME NEW i \in activeTimers_, i # id PROVE i[1] # a /\ i[1] \in Active
      <4>1. i = <<i[1], heap[i[1]].sequence>> /\ i[1] \in Active
        BY <1>0, SetFacts
      <4> QED BY <1>0, <2>2, <3>1, <4>1
    <3>2. ASSUME NEW b \in Active, b # a PROVE b \in Active'
      <4>1. <<b, heap[b].sequence>> \in activeTimers_ \ {id}
        BY <1>0, <3>2, SetFacts
      <4> QED BY <2>1, <4>1 DEF Active
    <3>3. Active' \subseteq Active \ {a}
      <4>1. Active' = {i[1] : i \in activeTimers_ \ {id}}
        BY <2>1 DEF Active
      <4> QED BY <3>1, <4>1
    <3> QED BY <3>2, <3>3
  <2>4. /\ heap' \in [Addresses -> Timer \cup {Free}] /\ heap'[a] = Free
        /\ \A b \in Addresses \ {a} : heap'[b] = heap[b]
    BY <1>0, <2>1 DEF TypeOK
  <2>5. Allocated' = Allocated \ {a} /\ \A b \in Allocated' : heap'[b] = heap[b]
    BY <2>4 DEF Allocated
  <2>6. TypeOK'
    <3>1. id[2] \in Sequence
      BY <1>0, <2>2, HeapFacts DEF Sequence
    <3> QED
      BY <1>0, <1>1, <2>1, <2>4, <3>1 DEF TypeOK
  <2>7. SetsAgree'
    <3>1. \A b \in Active' : b \in Active /\ b # a /\ heap'[b] = heap[b]
      BY <1>0, <2>3, <2>4, SetFacts
    <3>2. ASSUME NEW i \in activeTimers_' PROVE heap'[i[1]] # Free /\ heap'[i[1]].sequence = i[2]
      <4>1. i \in activeTimers_ /\ i[1] \in Active'
        BY <2>1 DEF Active
      <4> QED BY <1>0, <3>1, <4>1 DEF SetsAgree
    <3>3. timers_' = {<<heap'[b].expiration, b>> : b \in Active'}
      <4>1. ASSUME NEW e \in timers_' PROVE e \in {<<heap'[b].expiration, b>> : b \in Active'}
        <5>1. e \in timers_ /\ e # <<heap[a].expiration, a>>
          BY <2>1
        <5>2. e[2] \in Active /\ e = <<heap[e[2]].expiration, e[2]>>
          BY <1>0, <5>1, SetFacts
        <5>3. e[2] # a
          BY <5>1, <5>2
        <5>4. e[2] \in Active' /\ e = <<heap'[e[2]].expiration, e[2]>>
          BY <2>3, <3>1, <5>2, <5>3
        <5> QED BY <5>4
      <4>2. ASSUME NEW b \in Active' PROVE <<heap'[b].expiration, b>> \in timers_'
        BY <1>0, <2>1, <3>1, SetFacts
      <4> QED BY <4>1, <4>2
    <3> QED BY <3>2, <3>3 DEF SetsAgree
  <2>8. OneOwner'
    BY <1>0, <1>1, <1>2, <2>2, <2>3, <2>5 DEF OneOwner, Allocated
  <2>9. TimeInv' /\ AlarmInv'
    BY <1>0, <1>1, <2>1, <2>5 DEF TimeInv, AlarmInv
  <2>10. SequenceInv'
    BY <1>0, <1>1, <1>3, <2>1, <2>2, <2>5 DEF SequenceInv
  <2>11. CancelInv'
    <3>1. \A b \in Allocated' : heap'[b].sequence # id[2]
      BY <1>0, <1>3, <2>2, <2>5 DEF SequenceInv
    <3> QED
      BY <1>0, <1>1, <2>1, <2>5, <3>1 DEF CancelInv
  <2> QED
    BY <1>2, <1>4, <2>6, <2>7, <2>8, <2>9, <2>10, <2>11 DEF IInv
<1>6. CASE ~Found(id)
  <2>1. /\ cancelingTimers_' = IF callingExpiredTimers_ THEN cancelingTimers_ \cup {id}
                               ELSE cancelingTimers_
        /\ cancelled' = IF a \in expired /\ heap[a].sequence = id[2]
                         THEN cancelled \cup {id[2]} ELSE cancelled
        /\ UNCHANGED <<timers_, activeTimers_, heap>>
    BY <1>6 DEF cancelInLoop, Found, sets
  <2>2. a \in expired => callingExpiredTimers_ /\ a \in Allocated
    BY <1>0, <1>3 DEF BatchInv
  <2>3. a \in Allocated => heap[a].sequence \in Sequence
    BY <1>0, HeapFacts DEF Allocated, Sequence
  <2>4. TypeOK'
    BY <1>0, <1>1, <2>1, <2>2, <2>3 DEF TypeOK
  <2>5. Active' = Active /\ Allocated' = Allocated
    BY <2>1 DEF Active, Allocated
  <2>6. SetsAgree' /\ OneOwner' /\ TimeInv' /\ AlarmInv'
    BY <1>0, <1>1, <1>2, <2>1, <2>5 DEF SetsAgree, OneOwner, TimeInv, AlarmInv
  <2>7. SequenceInv'
    BY <1>0, <1>1, <2>1, <2>2, <2>5 DEF SequenceInv
  <2>8. CancelInv'
    BY <1>0, <1>1, <2>1, <2>2, <2>5 DEF SequenceInv, CancelInv
  <2> QED
    BY <1>2, <1>4, <2>4, <2>6, <2>7, <2>8 DEF IInv
<1> QED
  BY <1>5, <1>6

(* The loop runs an addition or a cancellation that was queued.            *)
LEMMA RunFunctorKeeps ==
    ASSUME IInv, RunFunctor, UNCHANGED adjusts
    PROVE  IInv'
<1>0. /\ pendingFunctors_ \in Seq(Functors) /\ pendingFunctors_ # << >>
      /\ TypeOK /\ SetsAgree /\ OneOwner
      /\ QueuedToAdd = Adds(pendingFunctors_) /\ Once(pendingFunctors_)
  BY QueuedIsAdds DEF RunFunctor, IInv, TypeOK
<1> DEFINE functor == Head(pendingFunctors_)
<1>1. /\ pendingFunctors_' = Tail(pendingFunctors_)
      /\ pendingFunctors_' \in Seq(Functors) /\ Once(pendingFunctors_')
      /\ functor \in Functors
      /\ functor.op = "add" => /\ functor.timer \in Adds(pendingFunctors_)
                               /\ Adds(pendingFunctors_') = Adds(pendingFunctors_) \ {functor.timer}
      /\ functor.op # "add" => /\ Adds(pendingFunctors_') = Adds(pendingFunctors_)
                               /\ functor.id \in TimerIds
  BY <1>0, TakeFunctor DEF RunFunctor
<1>2. CASE functor.op = "cancel"
  <2>1. /\ cancelInLoop(functor.id) /\ functor.op # "add"
        /\ UNCHANGED <<numCreated_, batch, timerfd, reported, returning, ids, ran, adjusts>>
    BY <1>2 DEF RunFunctor
  <2> QED
    BY <1>1, <2>1, CancelKeeps
<1>3. CASE functor.op = "add"
  <2> DEFINE a == functor.timer
  <2>1. /\ addTimerInLoop(a, heap[a].sequence, heap[a].expiration)
        /\ UNCHANGED <<heap, cancelingTimers_, cancelled, numCreated_, callingExpiredTimers_,
                       expired, toRun, elapsed, pc, reported, returning, ids, ran, adjusts>>
    BY <1>3 DEF RunFunctor, batch
  <2>2. a \in QueuedToAdd /\ a \in Addresses
    BY <1>0, <1>1, <1>3 DEF Adds
  <2> HIDE DEF functor
  <2>3. a \notin Active /\ a \notin expired /\ heap[a] \in Timer
    BY <1>0, <2>2, HeapFacts DEF OneOwner
  <2>4. heap' \in [Addresses -> Timer \cup {Free}]
    BY <1>0, <2>1 DEF TypeOK
  <2>5. /\ SetsAgree' /\ Active' = Active \cup {a}
        /\ timers_' \subseteq Ticks \X Addresses /\ activeTimers_' \subseteq TimerIds
        /\ alarm' \in Ticks /\ readable' \in BOOLEAN /\ ahead' \in 0 .. MaxAdjusts
        /\ ahead' = ahead \/ ahead' = 0
        /\ AlarmInv'
    BY <2>1, <2>2, <2>3, <2>4, Inserted
  <2>6. QueuedToAdd' = QueuedToAdd \ {a} /\ QueueInv'
    BY <1>0, <1>1, <1>3, QueuedIsAdds
  <2>7. OneOwner'
    BY <1>0, <2>1, <2>2, <2>3, <2>5, <2>6 DEF OneOwner
  <2>8. TypeOK'
    BY <1>0, <1>1, <2>1, <2>4, <2>5 DEF TypeOK
  <2>10. ahead' <= adjusts
    BY <2>5 DEF IInv, TypeOK, TimeInv
  <2>9. TimeInv' /\ SequenceInv' /\ BatchInv' /\ CancelInv'
    BY <2>1, <2>10 DEF IInv, TimeInv, SequenceInv, BatchInv, CancelInv, Allocated
  <2> QED
    BY <2>5, <2>6, <2>7, <2>8, <2>9 DEF IInv
<1> QED
  BY <1>2, <1>3 DEF RunFunctor

(* Time passes, or the clock is set: the expirations of every Timer   *)
(* and of its entry change together, and nothing else about them.          *)
LEMMA Shifted ==
    ASSUME IInv, NEW g \in [Addresses -> Ticks],
           heap' = [a \in Addresses |-> IF heap[a] = Free THEN Free
                                        ELSE [heap[a] EXCEPT !.expiration = g[a]]],
           timers_' = {<<g[e[2]], e[2]>> : e \in timers_},
           UNCHANGED <<numCreated_, activeTimers_, callingExpiredTimers_, expired, toRun, pc,
                       cancelingTimers_, reported, pendingFunctors_, returning, ids, ran, cancelled>>
    PROVE  /\ heap' \in [Addresses -> Timer \cup {Free}]
           /\ timers_' \subseteq Ticks \X Addresses
           /\ Allocated' = Allocated
           /\ \A a \in Allocated : heap'[a].expiration = g[a]
           /\ SetsAgree' /\ OneOwner' /\ SequenceInv' /\ QueueInv' /\ BatchInv' /\ CancelInv'
<1>0. TypeOK /\ SetsAgree /\ OneOwner /\ SequenceInv /\ QueueInv /\ BatchInv /\ CancelInv
  BY DEF IInv
<1>1. ASSUME NEW a \in Addresses
      PROVE  /\ heap[a] = Free => heap'[a] = Free
             /\ heap[a] # Free => /\ heap'[a] \in Timer /\ heap'[a] # Free
                                  /\ heap'[a].expiration = g[a]
                                  /\ heap'[a].sequence = heap[a].sequence
  <2>1. CASE heap[a] = Free
    BY <2>1
  <2>2. CASE heap[a] # Free
    <3>1. heap[a] \in Timer /\ g[a] \in Ticks
      BY <1>0, <2>2, HeapFacts
    <3>2. heap'[a] = [heap[a] EXCEPT !.expiration = g[a]]
      BY <2>2
    <3>3. /\ heap'[a] \in Timer /\ heap'[a].expiration = g[a]
          /\ heap'[a].sequence = heap[a].sequence
      BY <3>1, <3>2 DEF Timer
    <3>4. heap'[a] # Free
      BY <3>3, TimeAssumption DEF Timer, Free, Sequence
    <3> QED
      BY <2>2, <3>3, <3>4
  <2> QED
    BY <2>1, <2>2
<1>2. heap' \in [Addresses -> Timer \cup {Free}]
  <2>1. \A a \in Addresses : heap'[a] \in Timer \cup {Free}
    BY <1>1
  <2> QED
    BY <2>1
<1>3. /\ Allocated' = Allocated
      /\ \A a \in Allocated : /\ a \in Addresses /\ heap'[a].expiration = g[a]
                               /\ heap'[a].sequence = heap[a].sequence
  BY <1>1 DEF Allocated
<1>4. Active' = Active /\ QueuedToAdd' = QueuedToAdd /\ QueueInv' /\ BatchInv'
  BY <1>0 DEF Active, QueuedToAdd, QueueInv, BatchInv
<1>5. Active \subseteq Allocated
  BY <1>0 DEF OneOwner, Allocated
<1>6. SetsAgree'
  <2>1. ASSUME NEW i \in activeTimers_ PROVE heap'[i[1]] # Free /\ heap'[i[1]].sequence = i[2]
    BY <1>0, <1>1, <1>3, <1>5, SetFacts DEF SetsAgree
  <2>2. timers_' = {<<g[a], a>> : a \in Active}
    <3>1. timers_ = {<<heap[a].expiration, a>> : a \in Active}
      BY <1>0 DEF SetsAgree
    <3>2. ASSUME NEW x \in timers_' PROVE x \in {<<g[a], a>> : a \in Active}
      <4>1. PICK e \in timers_ : x = <<g[e[2]], e[2]>>
        OBVIOUS
      <4>2. e[2] \in Active
        BY <1>0, SetFacts
      <4> QED BY <4>1, <4>2
    <3>3. ASSUME NEW a \in Active PROVE <<g[a], a>> \in timers_'
      <4>1. <<heap[a].expiration, a>> \in timers_
        BY <3>1
      <4>2. <<heap[a].expiration, a>>[2] = a
        OBVIOUS
      <4> QED BY <4>1, <4>2, Zenon
    <3> QED BY <3>2, <3>3
  <2>3. timers_' = {<<heap'[a].expiration, a>> : a \in Active}
    BY <1>3, <1>5, <2>2
  <2> QED
    BY <1>4, <2>1, <2>3 DEF SetsAgree
<1>7. timers_' \subseteq Ticks \X Addresses
  <2>1. \A e \in timers_ : e[2] \in Addresses
    BY <1>0, SetFacts
  <2> QED BY <2>1
<1>8. OneOwner'
  BY <1>0, <1>3, <1>4 DEF OneOwner, Allocated
<1>9. SequenceInv' /\ CancelInv'
  BY <1>0, <1>3 DEF SequenceInv, CancelInv
<1> QED
  BY <1>2, <1>3, <1>4, <1>6, <1>7, <1>8, <1>9

(* A tick of gettimeofday: all expirations come nearer.                    *)
LEMMA LaterShifts ==
    ASSUME IInv, Later
    PROVE  /\ heap' \in [Addresses -> Timer \cup {Free}]
           /\ timers_' \subseteq Ticks \X Addresses
           /\ \A e \in timers_' : \E f \in timers_ : e[1] = Minus(f[1], 1)
           /\ elapsed' \in -MaxAdjusts .. Horizon /\ -adjusts <= elapsed'
           /\ Allocated' = Allocated
           /\ \A a \in Allocated : heap'[a].expiration <= Farthest + adjusts
           /\ SetsAgree' /\ OneOwner' /\ SequenceInv' /\ QueueInv' /\ BatchInv' /\ CancelInv'
<1>0. TypeOK /\ SetsAgree /\ TimeInv
  BY DEF IInv
<1> DEFINE g == [a \in Addresses |-> IF heap[a] = Free THEN 0 ELSE Minus(heap[a].expiration, 1)]
<1>2. g \in [Addresses -> Ticks]
  <2>1. ASSUME NEW a \in Addresses PROVE g[a] \in Ticks
    <3>1. CASE heap[a] = Free
      BY <3>1, HorizonFacts DEF Ticks
    <3>2. CASE heap[a] # Free
      <4>1. heap[a].expiration \in Nat /\ heap[a].expiration <= Horizon
        BY <1>0, <3>2, HeapFacts
      <4>2. g[a] = Minus(heap[a].expiration, 1)
        BY <3>2
      <4> HIDE DEF g
      <4> QED BY <4>1, <4>2, HorizonFacts DEF Ticks, Minus
    <3> QED BY <3>1, <3>2
  <2> QED BY <2>1
<1>3. heap' = [a \in Addresses |-> IF heap[a] = Free THEN Free
                                   ELSE [heap[a] EXCEPT !.expiration = g[a]]]
  BY DEF Later
<1>4. /\ timers_' = {<<Minus(e[1], 1), e[2]>> : e \in timers_}
      /\ elapsed' = (IF pc = "idle" THEN 0 ELSE Min({elapsed + 1, Horizon}))
      /\ UNCHANGED <<numCreated_, activeTimers_, callingExpiredTimers_, expired, toRun, pc,
                     cancelingTimers_, reported, pendingFunctors_, returning, ids, ran, cancelled>>
  BY DEF Later
<1>5. timers_' = {<<g[e[2]], e[2]>> : e \in timers_}
  <2>1. \A e \in timers_ : g[e[2]] = Minus(e[1], 1)
    BY <1>0, SetFacts
  <2> HIDE DEF g
  <2> QED BY <1>4, <2>1
<1>6. \A a \in Allocated : g[a] <= heap[a].expiration /\ g[a] \in Nat
  <2> SUFFICES ASSUME NEW a \in Addresses, heap[a] # Free
               PROVE  g[a] <= heap[a].expiration /\ g[a] \in Nat
    BY DEF Allocated
  <2>1. heap[a].expiration \in Nat
    BY <1>0, HeapFacts
  <2>2. g[a] = Minus(heap[a].expiration, 1)
    OBVIOUS
  <2> HIDE DEF g
  <2> QED BY <2>1, <2>2 DEF Minus
<1> HIDE DEF g
<1>7. /\ heap' \in [Addresses -> Timer \cup {Free}]
      /\ timers_' \subseteq Ticks \X Addresses
      /\ Allocated' = Allocated
      /\ \A a \in Allocated : heap'[a].expiration = g[a]
      /\ SetsAgree' /\ OneOwner' /\ SequenceInv' /\ QueueInv' /\ BatchInv' /\ CancelInv'
  BY <1>2, <1>3, <1>4, <1>5, Shifted
<1>8. elapsed \in -MaxAdjusts .. Horizon /\ adjusts \in 0 .. MaxAdjusts
  BY <1>0 DEF TypeOK
<1>9. elapsed' \in -MaxAdjusts .. Horizon /\ -adjusts <= elapsed'
  BY <1>0, <1>4, <1>8, MinPair, HorizonFacts DEF TimeInv
<1>10. \A a \in Allocated : heap'[a].expiration <= Farthest + adjusts
  <2>1. \A a \in Allocated : a \in Addresses /\ heap[a].expiration \in Nat
    BY <1>0, HeapFacts DEF Allocated
  <2>2. \A a \in Allocated : heap[a].expiration <= Farthest + adjusts
    BY <1>0 DEF TimeInv
  <2>3. Farthest + adjusts \in Nat
    BY <1>8, HorizonFacts
  <2> QED
    BY <1>6, <1>7, <2>1, <2>2, <2>3
<1>11. ASSUME NEW x \in timers_' PROVE \E e \in timers_ : x[1] = Minus(e[1], 1)
  <2>1. PICK e \in timers_ : x = <<Minus(e[1], 1), e[2]>>
    BY <1>4
  <2> QED BY <2>1
<1> QED
  BY <1>7, <1>9, <1>10, <1>11

(* Time passes: the alarm comes nearer with the expirations.               *)
LEMMA TickKeeps ==
    ASSUME IInv, Tick, UNCHANGED adjusts
    PROVE  IInv'
<1>0. /\ TypeOK /\ SetsAgree /\ TimeInv /\ AlarmInv
      /\ Later /\ readable' = (readable \/ alarm = 1) /\ alarm' = Minus(alarm, 1)
      /\ UNCHANGED <<numCreated_, activeTimers_, callingExpiredTimers_, expired, toRun, pc, ahead,
                     cancelingTimers_, reported, pendingFunctors_, returning, ids, ran, cancelled>>
  BY DEF IInv, Tick, Later
<1>1. /\ heap' \in [Addresses -> Timer \cup {Free}]
      /\ timers_' \subseteq Ticks \X Addresses
      /\ \A e \in timers_' : \E f \in timers_ : e[1] = Minus(f[1], 1)
      /\ elapsed' \in -MaxAdjusts .. Horizon /\ -adjusts <= elapsed'
      /\ Allocated' = Allocated
      /\ \A a \in Allocated : heap'[a].expiration <= Farthest + adjusts
      /\ SetsAgree' /\ OneOwner' /\ SequenceInv' /\ QueueInv' /\ BatchInv' /\ CancelInv'
  BY <1>0, LaterShifts
<1>2. alarm \in Nat /\ alarm <= Horizon /\ ahead \in Nat
  BY <1>0, HorizonFacts DEF TypeOK, Ticks
<1>3. TimeInv'
  BY <1>0, <1>1 DEF TimeInv, Farthest
<1>4. alarm' \in Ticks
  BY <1>0, <1>2, HorizonFacts DEF Ticks, Minus
<1>5. TypeOK'
  BY <1>0, <1>1, <1>4 DEF TypeOK
<1>6. AlarmInv'
  <2> SUFFICES ASSUME pc = "idle", ~readable, alarm # 1, ~reported, NEW e \in timers_
               PROVE  alarm' # 0 /\ (alarm' <= Minus(e[1], 1) + ahead \/ alarm' <= 1)
    BY <1>0, <1>1 DEF AlarmInv, Disarmed
  <2>1. alarm # 0 /\ (alarm <= e[1] + ahead \/ alarm <= 1) /\ e[1] \in Nat
    BY <1>0, SetFacts DEF AlarmInv, Disarmed
  <2> QED
    BY <1>0, <1>2, <2>1 DEF Minus
<1> QED
  BY <1>1, <1>3, <1>5, <1>6 DEF IInv

(* The clock is set forward: expirations come nearer, the alarm does not.  *)
LEMMA SetForwardKeeps ==
    ASSUME IInv, SetForward
    PROVE  IInv'
<1>0. /\ TypeOK /\ SetsAgree /\ TimeInv /\ AlarmInv
      /\ Later /\ ahead' = ahead + 1 /\ adjusts < MaxAdjusts /\ adjusts' = adjusts + 1
      /\ UNCHANGED <<numCreated_, activeTimers_, callingExpiredTimers_, expired, toRun, pc, alarm,
                     cancelingTimers_, reported, pendingFunctors_, returning, ids, ran, cancelled,
                     readable>>
  BY DEF IInv, SetForward, Later
<1>1. /\ heap' \in [Addresses -> Timer \cup {Free}]
      /\ timers_' \subseteq Ticks \X Addresses
      /\ \A e \in timers_' : \E f \in timers_ : e[1] = Minus(f[1], 1)
      /\ elapsed' \in -MaxAdjusts .. Horizon /\ -adjusts <= elapsed'
      /\ Allocated' = Allocated
      /\ \A a \in Allocated : heap'[a].expiration <= Farthest + adjusts
      /\ SetsAgree' /\ OneOwner' /\ SequenceInv' /\ QueueInv' /\ BatchInv' /\ CancelInv'
  BY <1>0, LaterShifts
<1>2. /\ adjusts \in Nat /\ adjusts' \in 0 .. MaxAdjusts
      /\ ahead' \in 0 .. MaxAdjusts /\ ahead' <= adjusts'
  BY <1>0, HorizonFacts DEF TypeOK, TimeInv
<1>3. TimeInv'
  <2>1. \A a \in Allocated : heap'[a].expiration \in Nat
    <3>1. \A a \in Allocated : heap'[a] \in Timer
      BY <1>1 DEF Allocated
    <3> QED BY <3>1, HorizonFacts DEF Timer, Ticks
  <2>2. elapsed' \in Int /\ Farthest \in Nat
    BY <1>1, HorizonFacts
  <2>3. TimeInv' <=> /\ \A a \in Allocated' : heap'[a].expiration <= Farthest + adjusts'
                    /\ -adjusts' <= elapsed' /\ ahead' <= adjusts'
    BY DEF TimeInv, Farthest
  <2> QED
    BY <1>0, <1>1, <1>2, <2>1, <2>2, <2>3
<1>4. TypeOK'
  BY <1>0, <1>1, <1>2 DEF TypeOK
<1>5. AlarmInv'
  <2> SUFFICES ASSUME pc = "idle", ~readable, ~reported, NEW e \in timers_
               PROVE  alarm # 0 /\ (alarm <= Minus(e[1], 1) + ahead' \/ alarm <= 1)
    BY <1>0, <1>1 DEF AlarmInv, Disarmed
  <2>1. alarm # 0 /\ (alarm <= e[1] + ahead \/ alarm <= 1) /\ e[1] \in Nat
    BY <1>0, SetFacts DEF AlarmInv, Disarmed
  <2>2. alarm \in Nat /\ ahead \in Nat
    BY <1>0, HorizonFacts DEF TypeOK, Ticks
  <2> QED
    BY <1>0, <2>1, <2>2 DEF Minus
<1> QED
  BY <1>1, <1>3, <1>4, <1>5 DEF IInv

(* The clock is set back: expirations move away, the alarm does not.       *)
LEMMA SetBackKeeps ==
    ASSUME IInv, NEW overdue \in SUBSET Addresses, SetBack(overdue)
    PROVE  IInv'
<1>0. TypeOK /\ SetsAgree /\ TimeInv /\ AlarmInv
  BY DEF IInv
<1>1. adjusts \in Nat /\ adjusts' = adjusts + 1 /\ adjusts' \in 0 .. MaxAdjusts
  BY <1>0, HorizonFacts DEF SetBack, TypeOK
<1> DEFINE g == [a \in Addresses |-> IF a \in overdue \/ heap[a] = Free THEN 0
                                     ELSE heap[a].expiration + 1]
<1>2. g \in [Addresses -> Ticks]
  <2>1. ASSUME NEW a \in Addresses PROVE g[a] \in Ticks
    <3>1. CASE a \in overdue \/ heap[a] = Free
      BY <3>1, HorizonFacts DEF Ticks
    <3>2. CASE a \notin overdue /\ heap[a] # Free
      <4>1. heap[a].expiration \in Nat /\ heap[a].expiration <= Farthest + adjusts
        BY <1>0, <3>2, HeapFacts DEF TimeInv, Allocated
      <4> QED BY <1>1, <3>2, <4>1, HorizonFacts DEF Ticks
    <3> QED BY <3>1, <3>2
  <2> QED BY <2>1
<1>3. heap' = [a \in Addresses |-> IF heap[a] = Free THEN Free
                                   ELSE [heap[a] EXCEPT !.expiration = g[a]]]
  BY DEF SetBack
<1>4. /\ timers_' = {<<IF e[2] \in overdue THEN 0 ELSE heap[e[2]].expiration + 1, e[2]>> : e \in timers_}
      /\ elapsed' = (IF pc = "idle" THEN 0 ELSE elapsed - 1)
      /\ UNCHANGED <<numCreated_, activeTimers_, callingExpiredTimers_, expired, toRun, pc,
                     alarm, readable, ahead,
                     cancelingTimers_, reported, pendingFunctors_, returning, ids, ran, cancelled>>
      /\ \A a \in overdue : heap[a].expiration = 0
  BY DEF SetBack, timerfd
<1>5. timers_' = {<<g[e[2]], e[2]>> : e \in timers_}
  <2>1. \A e \in timers_ : g[e[2]] = (IF e[2] \in overdue THEN 0 ELSE heap[e[2]].expiration + 1)
    BY <1>0, SetFacts
  <2> HIDE DEF g
  <2> QED BY <1>4, <2>1
<1>6. \A a \in Allocated : /\ g[a] \in Nat /\ heap[a].expiration \in Nat
                           /\ heap[a].expiration <= g[a] /\ g[a] <= heap[a].expiration + 1
  BY <1>0, <1>4, HeapFacts DEF Allocated
<1> HIDE DEF g
<1>7. /\ heap' \in [Addresses -> Timer \cup {Free}]
      /\ timers_' \subseteq Ticks \X Addresses
      /\ Allocated' = Allocated
      /\ \A a \in Allocated : heap'[a].expiration = g[a]
      /\ SetsAgree' /\ OneOwner' /\ SequenceInv' /\ QueueInv' /\ BatchInv' /\ CancelInv'
  BY <1>2, <1>3, <1>4, <1>5, Shifted
<1>8. elapsed \in -MaxAdjusts .. Horizon /\ -adjusts <= elapsed
  BY <1>0 DEF TypeOK, TimeInv
<1>9. elapsed' \in -MaxAdjusts .. Horizon /\ -adjusts' <= elapsed'
  BY <1>1, <1>4, <1>8, HorizonFacts
<1>10. TimeInv'
  <2>1. TimeInv' <=> /\ \A a \in Allocated' : heap'[a].expiration <= Farthest + adjusts'
                    /\ -adjusts' <= elapsed' /\ ahead' <= adjusts'
    BY DEF TimeInv, Farthest
  <2>2. \A a \in Allocated : heap[a].expiration <= Farthest + adjusts
    BY <1>0 DEF TimeInv
  <2>3. Farthest \in Nat
    BY HorizonFacts
  <2>4. ahead' <= adjusts'
    BY <1>0, <1>1, <1>4, HorizonFacts DEF TypeOK, TimeInv
  <2> QED
    BY <1>1, <1>6, <1>7, <1>9, <2>1, <2>2, <2>3, <2>4
<1>11. TypeOK'
  BY <1>0, <1>1, <1>4, <1>7, <1>9 DEF TypeOK
<1>12. AlarmInv'
  <2> SUFFICES ASSUME pc = "idle", ~readable, ~reported, NEW e \in timers_
               PROVE  alarm # 0 /\ (alarm <= g[e[2]] + ahead \/ alarm <= 1)
    BY <1>4, <1>5 DEF AlarmInv, Disarmed
  <2>1. alarm # 0 /\ (alarm <= e[1] + ahead \/ alarm <= 1)
    BY <1>0 DEF AlarmInv, Disarmed
  <2>2. e[2] \in Allocated /\ e[1] = heap[e[2]].expiration
    BY <1>0, SetFacts DEF Allocated
  <2>3. alarm \in Nat /\ ahead \in Nat
    BY <1>0, HorizonFacts DEF TypeOK, Ticks
  <2> QED
    BY <1>6, <2>1, <2>2, <2>3
<1> QED
  BY <1>7, <1>10, <1>11, <1>12 DEF IInv

(* addTimer's return, cancel from a worker, poll(2), and the callbacks of  *)
(* the batch.                                                              *)
LEMMA QuietKeeps ==
    ASSUME IInv, UNCHANGED adjusts,
           \/ \E w \in Workers : ReturnTimerId(w)
           \/ \E w \in Workers : \E id \in ids : cancelFrom(w, id)
           \/ Poll \/ CallbackReturns
           \/ \E a \in Addresses : RunTimer(a)
    PROVE  IInv'
<1>0. TypeOK
  BY DEF IInv
<1>1. UNCHANGED <<heap, numCreated_, timers_, activeTimers_, callingExpiredTimers_, expired,
                  elapsed, cancelingTimers_, alarm, readable, ahead, cancelled, adjusts>>
  BY DEF ReturnTimerId, cancelFrom, Poll, CallbackReturns, RunTimer, sets, batch, timerfd
<1>2. Active' = Active /\ Allocated' = Allocated
  BY <1>1 DEF Active, Allocated
<1>3. pendingFunctors_' \in Seq(Functors) /\ QueueInv' /\ QueuedToAdd' = QueuedToAdd
  <2>1. pendingFunctors_ \in Seq(Functors) /\ QueueInv
    BY DEF IInv, TypeOK
  <2>2. ASSUME NEW w \in Workers, NEW id \in ids, cancelFrom(w, id)
        PROVE  pendingFunctors_' \in Seq(Functors) /\ QueueInv' /\ QueuedToAdd' = QueuedToAdd
    <3>1. id \in TimerIds
      BY <1>0 DEF TypeOK
    <3>2. pendingFunctors_' = Append(pendingFunctors_, [op |-> "cancel", id |-> id])
      BY <2>2 DEF cancelFrom
    <3>3. /\ pendingFunctors_' \in Seq(Functors) /\ Adds(pendingFunctors_') = Adds(pendingFunctors_)
          /\ Once(pendingFunctors_) => Once(pendingFunctors_')
      BY <2>1, <3>1, <3>2, AppendCancel
    <3> QED
      BY <2>1, <3>3, QueuedIsAdds
  <2>3. CASE pendingFunctors_' = pendingFunctors_
    BY <2>1, <2>3 DEF QueueInv, QueuedToAdd
  <2> QED
    BY <2>2, <2>3 DEF ReturnTimerId, Poll, CallbackReturns, RunTimer
<1>4. /\ toRun' \subseteq expired' /\ pc' \in {"idle", "run", "callback"}
      /\ reported' \in BOOLEAN /\ (reported => reported') /\ (pc' = "idle" <=> pc = "idle")
      /\ ran' \subseteq Sequence
  <2>1. ASSUME NEW a \in Addresses, RunTimer(a) PROVE heap[a].sequence \in Sequence
    <3>1. heap[a] # Free
      BY <2>1 DEF RunTimer, IInv, TypeOK, OneOwner
    <3> QED
      BY <1>0, <3>1, HeapFacts DEF Sequence
  <2> QED
    BY <1>0, <1>1, <2>1 DEF ReturnTimerId, cancelFrom, Poll, CallbackReturns, RunTimer, batch,
                            TypeOK
<1>5. returning' \in [Workers -> TimerIds \cup {None}] /\ ids' \subseteq TimerIds
  <2>1. ASSUME NEW w \in Workers, ReturnTimerId(w)
        PROVE  returning' \in [Workers -> TimerIds \cup {None}] /\ ids' \subseteq TimerIds
    <3>1. returning[w] \in TimerIds
      BY <1>0, <2>1 DEF TypeOK, ReturnTimerId
    <3>2. returning[w][1] \in Addresses
      BY <3>1 DEF TimerIds
    <3>3. heap[returning[w][1]] # Free => heap[returning[w][1]].sequence \in 0 .. MaxSequence
      BY <1>0, <3>2, HeapFacts, TimeAssumption
    <3>4. PICK n \in 0 .. MaxSequence : ids' = ids \cup {<<returning[w][1], n>>}
      BY <2>1, <3>3 DEF ReturnTimerId
    <3> QED
      BY <1>0, <2>1, <3>2, <3>4 DEF TypeOK, ReturnTimerId, TimerIds
  <2>2. CASE UNCHANGED <<returning, ids>>
    BY <1>0, <2>2 DEF TypeOK
  <2> QED
    BY <2>1, <2>2 DEF cancelFrom, Poll, CallbackReturns, RunTimer
<1>6. TypeOK'
  BY <1>0, <1>1, <1>3, <1>4, <1>5 DEF TypeOK
<1>7. SetsAgree' /\ OneOwner' /\ TimeInv' /\ SequenceInv' /\ CancelInv' /\ BatchInv' /\ AlarmInv'
  BY <1>1, <1>2, <1>3, <1>4 DEF IInv, SetsAgree, OneOwner, TimeInv, SequenceInv, CancelInv,
                                BatchInv, AlarmInv
<1> QED
  BY <1>3, <1>6, <1>7 DEF IInv

(* getExpired moves the timers that are due from the sets to the batch.    *)
LEMMA HandleReadKeeps ==
    ASSUME IInv, handleRead, UNCHANGED adjusts
    PROVE  IInv'
<1>0. TypeOK /\ SetsAgree /\ OneOwner /\ TimeInv /\ SequenceInv /\ QueueInv /\ BatchInv /\ CancelInv
  BY DEF IInv
<1> DEFINE due == {entry \in timers_ : entry[1] = 0}
           batch_ == {entry[2] : entry \in due}
<1>1. /\ pc = "idle" /\ pc' = "run" /\ expired' = batch_ /\ toRun' = batch_
      /\ timers_' = timers_ \ due
      /\ activeTimers_' = activeTimers_ \ {<<a, heap[a].sequence>> : a \in batch_}
      /\ callingExpiredTimers_' = TRUE /\ cancelingTimers_' = {} /\ elapsed' = 0
      /\ reported' = FALSE /\ readable' = FALSE
      /\ UNCHANGED <<heap, numCreated_, alarm, ahead, pendingFunctors_, returning, ids, ran,
                     cancelled, adjusts>>
  BY DEF handleRead
<1>2. expired = {}
  BY <1>0, <1>1 DEF BatchInv
<1>3. \A a : a \in batch_ <=> a \in Active /\ heap[a].expiration = 0
  <2>1. ASSUME NEW a \in batch_ PROVE a \in Active /\ heap[a].expiration = 0
    <3>1. PICK e \in timers_ : e[1] = 0 /\ e[2] = a
      BY Zenon
    <3> QED BY <1>0, <3>1, SetFacts
  <2>2. ASSUME NEW a \in Active, heap[a].expiration = 0 PROVE a \in batch_
    <3>1. <<0, a>> \in timers_
      BY <1>0, <2>2, SetFacts
    <3> QED BY <3>1
  <2> QED BY <2>1, <2>2
<1>4. \A e \in timers_' : e \in timers_ /\ e[1] # 0
  BY <1>1
<1>5. \A e \in timers_ : e[1] # 0 => e \in timers_'
  BY <1>1
<1>6. batch_ \subseteq Active
  BY <1>3
<1> HIDE DEF batch_, due
<1>7. Active' = Active \ batch_
  <2>1. ASSUME NEW i \in activeTimers_', i[1] \in batch_ PROVE FALSE
    <3>1. i = <<i[1], heap[i[1]].sequence>>
      BY <1>0, <1>1, SetFacts
    <3> QED BY <1>1, <2>1, <3>1
  <2>2. Active' \subseteq Active \ batch_
    <3>1. Active' = {i[1] : i \in activeTimers_'}
      BY DEF Active
    <3>2. \A i \in activeTimers_' : i[1] \in Active
      BY <1>0, <1>1, SetFacts
    <3> QED BY <2>1, <3>1, <3>2
  <2>3. ASSUME NEW a \in Active, a \notin batch_ PROVE a \in Active'
    <3>1. <<a, heap[a].sequence>> \in activeTimers_'
      BY <1>0, <1>1, <2>3, SetFacts
    <3> QED BY <3>1 DEF Active
  <2> QED BY <2>2, <2>3
<1>8. SetsAgree'
  <2>1. \A i \in activeTimers_' : heap'[i[1]] # Free /\ heap'[i[1]].sequence = i[2]
    BY <1>0, <1>1 DEF SetsAgree
  <2>2. ASSUME NEW e \in timers_' PROVE e \in {<<heap'[a].expiration, a>> : a \in Active'}
    <3>1. e[2] \in Active' /\ e = <<heap'[e[2]].expiration, e[2]>>
      BY <1>0, <1>1, <1>3, <1>4, <1>7, SetFacts
    <3> QED BY <3>1
  <2>3. ASSUME NEW a \in Active' PROVE <<heap'[a].expiration, a>> \in timers_'
    <3>1. a \in Active /\ heap[a].expiration # 0
      BY <1>3, <1>7
    <3>2. <<heap[a].expiration, a>> \in timers_
      BY <1>0, <3>1, SetFacts
    <3> QED BY <1>1, <1>5, <3>1, <3>2
  <2> QED BY <2>1, <2>2, <2>3 DEF SetsAgree
<1>9. QueuedToAdd' = QueuedToAdd /\ Allocated' = Allocated /\ QueueInv'
  BY <1>0, <1>1 DEF QueuedToAdd, Allocated, QueueInv
<1>10. OneOwner'
  BY <1>0, <1>1, <1>2, <1>6, <1>7, <1>9 DEF OneOwner, Allocated
<1>11. TypeOK'
  <2>1. batch_ \subseteq Addresses
    BY <1>0, <1>6, SetFacts
  <2>2. 0 \in -MaxAdjusts .. Horizon
    BY HorizonFacts
  <2> QED
    BY <1>0, <1>1, <2>1, <2>2 DEF TypeOK
<1>12. TimeInv'
  <2>1. -adjusts <= 0
    BY <1>0, HorizonFacts DEF TypeOK
  <2> QED
    BY <1>0, <1>1, <1>9, <2>1 DEF TimeInv, Farthest
<1>13. SequenceInv' /\ BatchInv' /\ CancelInv' /\ AlarmInv'
  BY <1>0, <1>1, <1>2, <1>9 DEF SequenceInv, BatchInv, CancelInv, AlarmInv
<1> QED
  BY <1>8, <1>9, <1>10, <1>11, <1>12, <1>13 DEF IInv

(* reset puts back the timers of the batch that repeat, deletes the others *)
(* and sets the alarm.                                                     *)
LEMMA ResetKeeps ==
    ASSUME IInv, reset, UNCHANGED adjusts
    PROVE  IInv'
<1>0. TypeOK /\ SetsAgree /\ OneOwner /\ TimeInv /\ SequenceInv /\ QueueInv /\ BatchInv /\ CancelInv
  BY DEF IInv
<1> DEFINE next(a) == Minus(heap[a].interval, elapsed)
<1>1. /\ heap' = [a \in Addresses |->
                     CASE a \in Again -> [heap[a] EXCEPT !.expiration = next(a)]
                       [] a \in Deleted -> Free
                       [] OTHER -> heap[a]]
      /\ timers_' = timers_ \cup {<<next(a), a>> : a \in Again}
      /\ activeTimers_' = activeTimers_ \cup {<<a, heap[a].sequence>> : a \in Again}
      /\ Rearm(timers_')
      /\ callingExpiredTimers_' = FALSE /\ expired' = {} /\ elapsed' = 0 /\ pc' = "idle"
      /\ toRun = {}
      /\ UNCHANGED <<numCreated_, toRun, cancelingTimers_, reported, pendingFunctors_,
                     returning, ids, ran, cancelled, adjusts>>
  BY DEF reset
<1>2. /\ Again \subseteq expired /\ Deleted = expired \ Again
      /\ expired \subseteq Addresses /\ Active \subseteq Addresses
      /\ expired \subseteq Allocated /\ Active \subseteq Allocated /\ Active \cap expired = {}
  BY <1>0, SetFacts DEF Again, Deleted, OneOwner, Allocated, TypeOK
<1>3. ASSUME NEW a \in Allocated
      PROVE  /\ next(a) \in Ticks /\ next(a) <= Farthest + adjusts
             /\ heap[a] \in Timer /\ heap[a].sequence \in 0 .. MaxSequence
             /\ heap[a].expiration <= Farthest + adjusts
  <2>1. /\ heap[a] \in Timer /\ heap[a].interval \in Nat /\ heap[a].interval <= Farthest
        /\ heap[a].sequence \in 1 .. MaxSequence
    BY <1>0, HeapFacts, HorizonFacts DEF Allocated
  <2>2. elapsed \in Int /\ -adjusts <= elapsed /\ adjusts \in Nat /\ adjusts <= MaxAdjusts
    BY <1>0, HorizonFacts DEF TypeOK, TimeInv
  <2>3. heap[a].expiration <= Farthest + adjusts
    BY <1>0 DEF TimeInv
  <2>4. next(a) \in 0 .. Horizon /\ next(a) <= Farthest + adjusts
    BY <2>1, <2>2, HorizonFacts DEF Minus
  <2> QED
    BY <2>1, <2>3, <2>4, TimeAssumption DEF Ticks
<1> HIDE DEF next
<1>4. ASSUME NEW a \in Again
      PROVE  /\ heap'[a] \in Timer /\ heap'[a] # Free
             /\ heap'[a].expiration = next(a) /\ heap'[a].sequence = heap[a].sequence
  <2>1. a \in Addresses /\ a \in Allocated
    BY <1>2
  <2>2. heap'[a] = [heap[a] EXCEPT !.expiration = next(a)]
    BY <1>1, <1>2, <2>1
  <2>3. heap[a] \in Timer /\ next(a) \in Ticks
    BY <1>3, <2>1
  <2>4. /\ heap'[a] \in Timer /\ heap'[a].expiration = next(a)
        /\ heap'[a].sequence = heap[a].sequence
    BY <2>2, <2>3 DEF Timer
  <2>5. heap'[a] # Free
    BY <2>4, TimeAssumption DEF Timer, Free, Sequence
  <2> QED
    BY <2>4, <2>5
<1>5. \A a \in Deleted : heap'[a] = Free
  BY <1>1, <1>2
<1>6. \A a \in Addresses \ expired : heap'[a] = heap[a]
  BY <1>1, <1>2
<1>7. heap' \in [Addresses -> Timer \cup {Free}]
  <2>1. \A a \in Addresses : heap'[a] \in Timer \cup {Free}
    BY <1>0, <1>2, <1>4, <1>5, <1>6, HeapFacts
  <2> QED
    BY <1>1, <2>1
<1>8. Allocated' = Allocated \ Deleted
  BY <1>2, <1>4, <1>5, <1>6 DEF Allocated
<1>9. \A a \in Allocated' : /\ a \in Allocated /\ (a \in Again \/ a \notin expired)
                           /\ heap'[a].sequence = heap[a].sequence
                           /\ heap'[a].expiration = IF a \in Again THEN next(a) ELSE heap[a].expiration
  BY <1>2, <1>4, <1>6, <1>8 DEF Allocated
<1>10. Active' = Active \cup Again
  <2>1. Active' = {i[1] : i \in activeTimers_'}
    BY DEF Active
  <2>2. ASSUME NEW i \in activeTimers_' PROVE i[1] \in Active \cup Again
    BY <1>0, <1>1, SetFacts
  <2>3. ASSUME NEW a \in Active \cup Again PROVE a \in Active'
    <3>1. <<a, heap[a].sequence>> \in activeTimers_'
      BY <1>0, <1>1, SetFacts
    <3> QED BY <2>1, <3>1
  <2> QED BY <2>1, <2>2, <2>3
<1>11. SetsAgree'
  <2>1. \A a \in Active : heap'[a] = heap[a]
    BY <1>2, <1>6
  <2>2. ASSUME NEW i \in activeTimers_' PROVE heap'[i[1]] # Free /\ heap'[i[1]].sequence = i[2]
    <3>1. CASE i \in activeTimers_
      BY <1>0, <2>1, <3>1, SetFacts DEF SetsAgree
    <3>2. CASE i \notin activeTimers_
      <4>1. PICK a \in Again : i = <<a, heap[a].sequence>>
        BY <1>1, <3>2
      <4> QED BY <1>4, <4>1
    <3> QED BY <3>1, <3>2
  <2>3. ASSUME NEW e \in timers_' PROVE e \in {<<heap'[a].expiration, a>> : a \in Active'}
    <3>1. CASE e \in timers_
      <4>1. e[2] \in Active /\ e = <<heap'[e[2]].expiration, e[2]>>
        BY <1>0, <2>1, <3>1, SetFacts
      <4> QED BY <1>10, <4>1
    <3>2. CASE e \notin timers_
      <4>1. PICK a \in Again : e = <<next(a), a>>
        BY <1>1, <3>2
      <4> QED BY <1>4, <1>10, <4>1
    <3> QED BY <3>1, <3>2
  <2>4. ASSUME NEW a \in Active' PROVE <<heap'[a].expiration, a>> \in timers_'
    <3>1. timers_' = timers_ \cup {<<next(b), b>> : b \in Again}
      BY <1>1
    <3>2. CASE a \in Active
      <4>1. <<heap[a].expiration, a>> \in timers_ /\ heap'[a] = heap[a]
        BY <1>0, <2>1, <3>2, SetFacts
      <4> QED BY <3>1, <4>1
    <3>3. CASE a \in Again
      <4>1. heap'[a].expiration = next(a)
        BY <1>4, <3>3
      <4> QED BY <3>1, <3>3, <4>1
    <3> QED BY <1>10, <3>2, <3>3
  <2> QED BY <2>2, <2>3, <2>4 DEF SetsAgree
<1>12. QueuedToAdd' = QueuedToAdd /\ QueueInv'
  BY <1>0, <1>1 DEF QueuedToAdd, QueueInv
<1>13. OneOwner'
  BY <1>0, <1>1, <1>2, <1>8, <1>10, <1>12 DEF OneOwner, Allocated
<1>14. TimeInv'
  <2>0. ahead' = ahead \/ ahead' = 0
    BY <1>1 DEF Rearm, resetTimerFd, timerfd
  <2>1. TimeInv' <=> /\ \A a \in Allocated' : heap'[a].expiration <= Farthest + adjusts'
                    /\ -adjusts' <= elapsed' /\ ahead' <= adjusts'
    BY DEF TimeInv, Farthest
  <2>2. -adjusts <= 0 /\ ahead' <= adjusts
    BY <1>0, <2>0, HorizonFacts DEF TypeOK, TimeInv
  <2> QED
    BY <1>1, <1>3, <1>9, <2>1, <2>2
<1>15. SequenceInv'
  BY <1>0, <1>1, <1>9 DEF SequenceInv
<1>16. CancelInv'
  <2> SUFFICES ASSUME NEW a \in Allocated', heap'[a].sequence \in cancelled'
               PROVE  FALSE
    BY DEF CancelInv
  <2>1. a \in Allocated /\ heap[a].sequence \in cancelled /\ (a \in Again \/ a \notin expired)
    BY <1>1, <1>9
  <2>2. a \in expired /\ <<a, heap[a].sequence>> \in cancelingTimers_
    BY <1>0, <2>1 DEF CancelInv
  <2> QED
    BY <2>1, <2>2 DEF Again
<1>17. BatchInv'
  BY <1>1 DEF BatchInv
<1>18. timers_' \subseteq Ticks \X Addresses /\ activeTimers_' \subseteq TimerIds
  <2>1. \A a \in Again : next(a) \in Ticks /\ a \in Addresses /\ heap[a].sequence \in 0 .. MaxSequence
    BY <1>2, <1>3
  <2> QED
    BY <1>0, <1>1, <2>1 DEF TypeOK, TimerIds
<1>19. alarm' \in Ticks /\ readable' \in BOOLEAN /\ ahead' \in 0 .. MaxAdjusts /\ AlarmInv'
  <2>1. CASE timers_' = {}
    BY <1>0, <1>1, <2>1 DEF Rearm, timerfd, AlarmInv, TypeOK
  <2>2. CASE timers_' # {}
    <3> DEFINE first == {e[1] : e \in timers_'}
    <3>1. first \subseteq Ticks /\ first # {}
      BY <1>18, <2>2
    <3>2. first \subseteq Nat /\ \A e \in timers_' : e[1] \in first
      BY <3>1, HorizonFacts DEF Ticks
    <3>3. alarm' = Max({Min(first), 1}) /\ readable' = FALSE /\ ahead' = 0
      BY <1>1, <2>2 DEF Rearm, resetTimerFd, Earliest
    <3> HIDE DEF first
    <3>4. Min(first) \in first /\ \A t \in first : Min(first) <= t
      BY <3>1, <3>2, MinNat
    <3>5. alarm' = IF Min(first) >= 1 THEN Min(first) ELSE 1
      <4>1. \A t \in first : t \in Int
        BY <3>2
      <4>2. Min(first) \in Int
        BY <3>4, <4>1, Zenon
      <4> QED BY <3>3, <4>2, MaxPair
    <3>6. alarm' \in Ticks
      <4>1. Min(first) \in Ticks
        BY <3>1, <3>4, Zenon
      <4>2. 1 \in Ticks
        BY HorizonFacts DEF Ticks
      <4> QED BY <3>5, <4>1, <4>2
    <3>9. ahead' \in 0 .. MaxAdjusts
      BY <3>3, HorizonFacts
    <3>7. \A e \in timers_' : Min(first) <= e[1] /\ e[1] \in Nat /\ Min(first) \in Nat
      BY <3>2, <3>4
    <3>8. AlarmInv'
      BY <3>3, <3>5, <3>7 DEF AlarmInv, Disarmed
    <3> QED BY <3>3, <3>6, <3>8, <3>9
  <2> QED BY <2>1, <2>2
<1>20. TypeOK'
  <2>1. 0 \in -MaxAdjusts .. Horizon
    BY HorizonFacts
  <2> QED
    BY <1>0, <1>1, <1>7, <1>18, <1>19, <2>1 DEF TypeOK
<1> QED
  BY <1>11, <1>12, <1>13, <1>14, <1>15, <1>16, <1>17, <1>19, <1>20 DEF IInv

(* Every step keeps the invariant.                                         *)
LEMMA NextIInv == IInv /\ [Next]_vars => IInv'
<1> SUFFICES ASSUME IInv, [Next]_vars PROVE IInv'
  OBVIOUS
<1>1. CASE UNCHANGED vars
  <2>1. /\ TypeOK' /\ TimeInv' /\ QueueInv' /\ BatchInv' /\ AlarmInv'
    BY <1>1 DEF vars, sets, batch, timerfd, IInv, TypeOK, TimeInv, QueueInv, BatchInv, AlarmInv,
                Allocated
  <2>2. Active' = Active /\ Allocated' = Allocated /\ QueuedToAdd' = QueuedToAdd
    BY <1>1 DEF vars, sets, Active, Allocated, QueuedToAdd
  <2>3. SetsAgree' /\ OneOwner' /\ SequenceInv' /\ CancelInv'
    BY <1>1, <2>2 DEF vars, sets, batch, IInv, SetsAgree, OneOwner, SequenceInv, CancelInv,
                      Allocated
  <2> QED
    BY <2>1, <2>2, <2>3 DEF IInv
<1>2. ASSUME NEW id \in ids, cancel(id), UNCHANGED adjusts PROVE IInv'
  <2>1. id \in TimerIds /\ pendingFunctors_ \in Seq(Functors) /\ QueueInv
    BY DEF IInv, TypeOK
  <2>2. /\ pendingFunctors_' = pendingFunctors_ /\ cancelInLoop(id)
        /\ UNCHANGED <<numCreated_, batch, timerfd, reported, returning, ids, ran, adjusts>>
    BY <1>2 DEF cancel
  <2> QED
    BY <2>1, <2>2, CancelKeeps, QueuedIsAdds
<1>3. CASE Steady(Calls)
  BY <1>2, <1>3, AddKeeps, AddFromKeeps, QuietKeeps DEF Steady, Calls
<1>4. CASE Steady(Loop)
  BY <1>4, RunFunctorKeeps, HandleReadKeeps, ResetKeeps, QuietKeeps DEF Steady, Loop
<1>5. CASE Steady(Tick)
  BY <1>5, TickKeeps DEF Steady
<1> QED
  BY <1>1, <1>3, <1>4, <1>5, SetBackKeeps, SetForwardKeeps DEF Next, Steady

-----------------------------------------------------------------------------
(* The invariant holds in every reachable state, whatever is added and     *)
(* cancelled from where, however time passes and the clock is set back     *)
(* (TimerQueue.cc as a whole).                                             *)
THEOREM Inductive == Spec => []IInv
BY InitIInv, NextIInv, PTL DEF Spec

(* The variables of TimerQueue hold values of their types; in particular   *)
(* no expiration, alarm or restart goes beyond Horizon.                    *)
THEOREM TypeCorrect == Spec => []TypeOK
<1>1. IInv => TypeOK
  BY DEF IInv
<1> QED
  BY <1>1, Inductive, PTL

(* TimerQueue.cc, insert, cancelInLoop, getExpired, reset: timers_ and     *)
(* activeTimers_ name the same timers, at the times their Timers say.      *)
THEOREM SetsStayEqual == Spec => []SetsAgree
<1>1. IInv => SetsAgree
  BY DEF IInv
<1> QED
  BY <1>1, Inductive, PTL

(* TimerQueue.cc, addTimer, cancelInLoop, handleRead, reset: each Timer is *)
(* in exactly one place, so none leaks and none is used after deletion.    *)
THEOREM NoLeakNoDangling == Spec => []OneOwner
<1>1. IInv => OneOwner
  BY DEF IInv
<1> QED
  BY <1>1, Inductive, PTL

(* TimerQueue.cc, cancelInLoop and reset: a timer that was cancelled, even *)
(* while its batch ran, is not put back.                                   *)
THEOREM CancelHolds == Spec => []CancelledStaysOut
<1>1. IInv => CancelledStaysOut
  <2> SUFFICES ASSUME IInv, NEW id \in activeTimers_ PROVE id[2] \notin cancelled
    BY DEF CancelledStaysOut
  <2>1. id[1] \in Active /\ id[2] = heap[id[1]].sequence
    BY SetFacts DEF IInv
  <2>2. id[1] \in Allocated /\ id[1] \notin expired
    BY <2>1 DEF IInv, OneOwner, Allocated
  <2> QED
    BY <2>1, <2>2 DEF IInv, CancelInv
<1> QED
  BY <1>1, Inductive, PTL

(* TimerQueue.cc, addTimerInLoop, handleRead and reset: while timers wait, *)
(* the timerfd is set to go off no later than the earliest, or has; or     *)
(* later by as much as the clock was set forward since it was armed.       *)
THEOREM AlarmAlwaysSet == Spec => []AlarmSet
<1>1. IInv => AlarmSet
  <2> SUFFICES ASSUME IInv, pc = "idle", timers_ # {}, ~readable, ~reported
               PROVE  alarm # Disarmed /\ alarm <= Max({Earliest(timers_) + ahead, 1})
    BY DEF AlarmSet
  <2> DEFINE first == {e[1] : e \in timers_}
  <2>1. first \subseteq Nat /\ first # {}
    BY SetFacts DEF IInv
  <2>2. Earliest(timers_) = Min(first)
    BY DEF Earliest
  <2>3. \A t \in first : alarm # Disarmed /\ (alarm <= t + ahead \/ alarm <= 1)
    BY DEF IInv, AlarmInv
  <2> HIDE DEF first
  <2>4. Min(first) \in first
    BY <2>1, MinNat
  <2>5. Min(first) \in Int
    <3>1. \A t \in first : t \in Int
      BY <2>1
    <3> QED BY <2>4, <3>1, Zenon
  <2>7. alarm \in Int /\ ahead \in Int
    BY HorizonFacts DEF IInv, TypeOK, Ticks
  <2>6. Max({Min(first) + ahead, 1}) = IF Min(first) + ahead >= 1 THEN Min(first) + ahead ELSE 1
    BY <2>5, <2>7, MaxPair
  <2> QED
    BY <2>2, <2>3, <2>4, <2>5, <2>6, <2>7
<1> QED
  BY <1>1, Inductive, PTL

=============================================================================
