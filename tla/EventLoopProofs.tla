--------------------------- MODULE EventLoopProofs ---------------------------
(***************************************************************************)
(* Theorems about EventLoop, for any functors, threads and channels: type  *)
(* correctness, no lost wakeup, and that it implements TaskExecutor.       *)
(***************************************************************************)
EXTENDS EventLoop, SequenceTheorems, TLAPS

(* The variables of EventLoop always hold values of their types, whatever  *)
(* the threads call (EventLoop.cc as a whole).                             *)
THEOREM TypeCorrect == Spec => []TypeOK
<1>1. Init => TypeOK
  BY EmptySeq DEF Init, TypeOK, PCs, Origins, Threads
<1>2. TypeOK /\ [Next]_vars => TypeOK'
  <2> SUFFICES ASSUME TypeOK, [Next]_vars PROVE TypeOK'
    OBVIOUS
  <2> USE DEF TypeOK, PCs, Origins, Threads, wakeupChannel_
  <2>1. CASE loop
    BY <2>1 DEF loop, EnterLoop, TestQuit, PollWakeup, PollEvents, PollTimeout,
                PollReturns, Wakeable, handleRead, HandleEvent, Return, HandledAll
  <2>2. CASE SetCalling \/ ClearCalling
    BY <2>2 DEF SetCalling, ClearCalling
  <2>3. CASE SwapFunctors
    BY <2>3 DEF SwapFunctors
  <2>4. CASE RunFunctor
    <3>1. Head(functors) \in Jobs /\ Tail(functors) \in Seq(Jobs)
      BY <2>4, HeadTailProperties DEF RunFunctor
    <3> QED
      BY <2>4, <3>1, AppendProperties DEF RunFunctor
  <2>5. ASSUME NEW t \in Threads, NEW j \in Jobs, queueInLoop(t, j)
        PROVE  TypeOK'
    <3>1. Where(t) \in Origins
      BY <2>5 DEF queueInLoop, MayCall, InUserCode, Where, isInLoopThread
    <3>2. pendingFunctors_' \in Seq(Jobs)
      BY <2>5, AppendProperties DEF queueInLoop
    <3> QED
      BY <2>5, <3>1, <3>2 DEF queueInLoop
  <2>6. ASSUME NEW j \in Jobs, runInLoop(j)
        PROVE  TypeOK'
    BY <2>6, AppendProperties DEF runInLoop
  <2>7. ASSUME NEW t \in Threads, quit(t) \/ wakeup(t)
        PROVE  TypeOK'
    BY <2>7 DEF quit, wakeup
  <2>8. CASE UNCHANGED vars
    BY <2>8 DEF vars
  <2> QED
    BY <2>1, <2>2, <2>3, <2>4, <2>5, <2>6, <2>7, <2>8
       DEF Next, doPendingFunctors, Calls
<1> QED
  BY <1>1, <1>2, PTL DEF Spec

-----------------------------------------------------------------------------
(* The inductive invariant.                                                *)

(* The batch is empty except while doPendingFunctors runs it, and the flag *)
(* is up from before the swap until after the last functor.                *)
BatchInv ==
    /\ pc \notin {"functors", "functor"} => functors = << >>
    /\ pc \in {"swap", "functors", "functor"} => callingPendingFunctors_

(* A functor has an origin from the moment it is handed over.              *)
OriginInv ==
    /\ \A i \in DOMAIN pendingFunctors_ : origin[pendingFunctors_[i]] # "none"
    /\ \A i \in DOMAIN functors : origin[functors[i]] # "none"
    /\ \A i \in DOMAIN ran : origin[ran[i]] # "none"

(* Between the swap and the next return of poll(2), and outside loop(), a  *)
(* functor in pendingFunctors_ not put there from outside loop() has its   *)
(* wakeup made or on its way.  From the handling of wakeupChannel_ to the  *)
(* swap this need not be so: the swap is still to come.                    *)
WakeupInv ==
    pc \in {"outside", "test", "poll", "functors", "functor"} /\ ~WakeupOnItsWay
       => \A i \in DOMAIN pendingFunctors_ :
             origin[pendingFunctors_[i]] = "outside"

(* A quit() made after the loop tested quit_ has its wakeup too.           *)
QuitInv == pc = "poll" /\ quit_ => WakeupOnItsWay

IInv == TypeOK /\ BatchInv /\ OriginInv /\ WakeupInv /\ QuitInv

(* The two parts of the type of pendingFunctors_ that steps on it need.    *)
LEMMA PendingElements ==
    ASSUME TypeOK
    PROVE  /\ \A i \in DOMAIN pendingFunctors_ : pendingFunctors_[i] \in Jobs
           /\ \A i \in DOMAIN functors : functors[i] \in Jobs
           /\ \A i \in DOMAIN ran : ran[i] \in Jobs
BY ElementOfSeq, LenProperties DEF TypeOK

(* What appending one functor does to a property of all of them.           *)
LEMMA AppendElements ==
    ASSUME NEW S, NEW s \in Seq(S), NEW e \in S
    PROVE  \A i \in DOMAIN Append(s, e) :
              \/ i \in DOMAIN s /\ Append(s, e)[i] = s[i]
              \/ i = Len(s) + 1 /\ Append(s, e)[i] = e
<1>1. DOMAIN Append(s, e) = 1 .. Len(s) + 1 /\ DOMAIN s = 1 .. Len(s) /\ Len(s) \in Nat
  BY AppendProperties, LenProperties
<1> QED
  BY <1>1, AppendProperties

LEMMA TailElements ==
    ASSUME NEW S, NEW s \in Seq(S), s # << >>
    PROVE  \A i \in DOMAIN Tail(s) : i + 1 \in DOMAIN s /\ Tail(s)[i] = s[i + 1]
<1>1. DOMAIN Tail(s) = 1 .. Len(s) - 1 /\ DOMAIN s = 1 .. Len(s) /\ Len(s) \in Nat
  BY HeadTailProperties, LenProperties
<1> QED
  BY <1>1, HeadTailProperties

(* A functor pushed by a worker, or by a functor of the loop, has its      *)
(* wakeup on the way as soon as it is in the vector.                       *)
LEMMA WakeupReached ==
    ASSUME TypeOK, BatchInv, NEW t \in Threads, NEW j \in Jobs, queueInLoop(t, j)
    PROVE  \/ WakeupOnItsWay' /\ (WakeupOnItsWay => WakeupOnItsWay')
           \/ /\ t = Loop /\ pc \in {"outside", "callback"}
              /\ call' = call /\ wakeupFd_' = wakeupFd_
<1>1. CASE NeedsWakeup(t)
  <2>1. call'[t] = "wakeup"
    BY <1>1 DEF queueInLoop, TypeOK
  <2> QED
    BY <2>1 DEF WakeupOnItsWay
<1>2. CASE ~NeedsWakeup(t)
  <2>1. t = Loop /\ pc \in {"outside", "callback"}
    BY <1>2 DEF NeedsWakeup, queueInLoop, MayCall, isInLoopThread, InUserCode, BatchInv
  <2>2. call[t] = "none" /\ call' = [call EXCEPT ![t] = "none"] /\ wakeupFd_' = wakeupFd_
    BY <1>2 DEF queueInLoop, MayCall
  <2>3. call' = call
    BY <2>2 DEF TypeOK
  <2> QED
    BY <2>1, <2>2, <2>3
<1> QED
  BY <1>1, <1>2

(* The inductive invariant holds of every behaviour.                       *)
THEOREM Inductive == Spec => []IInv
<1>1. Init => IInv
  <2> SUFFICES ASSUME Init PROVE IInv
    OBVIOUS
  <2>1. TypeOK
    BY EmptySeq DEF Init, TypeOK, PCs, Origins, Threads
  <2>2. DOMAIN pendingFunctors_ = {} /\ DOMAIN functors = {} /\ DOMAIN ran = {}
    BY DEF Init
  <2> QED
    BY <2>1, <2>2 DEF Init, IInv, BatchInv, OriginInv, WakeupInv, QuitInv
<1>2. IInv /\ TypeOK' /\ [Next]_vars => IInv'
  <2> SUFFICES ASSUME IInv, TypeOK', [Next]_vars PROVE IInv'
    OBVIOUS
  <2>0. /\ \A i \in DOMAIN pendingFunctors_ : pendingFunctors_[i] \in Jobs
        /\ \A i \in DOMAIN functors : functors[i] \in Jobs
        /\ \A i \in DOMAIN ran : ran[i] \in Jobs
    BY PendingElements DEF IInv
  <2> USE DEF IInv, BatchInv, OriginInv, WakeupInv, QuitInv, WakeupOnItsWay
  <2>1. CASE loop
    BY <2>1 DEF loop, EnterLoop, TestQuit, PollWakeup, PollEvents, PollTimeout,
                PollReturns, handleRead, HandleEvent, Return, HandledAll
  <2>2. CASE SetCalling \/ ClearCalling
    BY <2>2 DEF SetCalling, ClearCalling
  <2>3. CASE SwapFunctors
    <3>1. DOMAIN pendingFunctors_' = {}
      BY <2>3 DEF SwapFunctors
    <3> QED
      BY <2>3, <3>1 DEF SwapFunctors
  <2>4. CASE RunFunctor
    <3>1. functors \in Seq(Jobs) /\ functors # << >> /\ ran \in Seq(Jobs)
      BY <2>4 DEF RunFunctor, TypeOK
    <3>2. 1 \in DOMAIN functors /\ Head(functors) = functors[1]
      BY <3>1, EmptySeq, LenProperties
    <3>3. \A i \in DOMAIN ran' : origin'[ran'[i]] # "none"
      BY <2>4, <2>0, <3>1, <3>2, AppendElements DEF RunFunctor
    <3>4. \A i \in DOMAIN functors' : origin'[functors'[i]] # "none"
      BY <2>4, <3>1, TailElements DEF RunFunctor
    <3> QED
      BY <2>4, <3>3, <3>4 DEF RunFunctor
  <2>5. ASSUME NEW t \in Threads, NEW j \in Jobs, queueInLoop(t, j)
        PROVE  IInv'
    <3>1. \A i \in DOMAIN pendingFunctors_' :
             \/ i \in DOMAIN pendingFunctors_ /\ pendingFunctors_'[i] = pendingFunctors_[i]
             \/ pendingFunctors_'[i] = j
      BY <2>5, AppendElements DEF queueInLoop, TypeOK
    <3>2. origin' = [origin EXCEPT ![j] = Where(t)] /\ origin[j] = "none"
      BY <2>5 DEF queueInLoop
    <3>3. \A k \in Jobs \ {j} : origin'[k] = origin[k]
      BY <3>2 DEF TypeOK
    <3>4. origin'[j] = Where(t)
      BY <3>2 DEF TypeOK
    <3>5. Where(t) # "none" /\ (t = Loop /\ pc = "outside" => Where(t) = "outside")
      BY <2>5 DEF queueInLoop, MayCall, InUserCode, Where, isInLoopThread
    <3>6. OriginInv'
      BY <2>0, <2>5, <3>1, <3>3, <3>4, <3>5 DEF queueInLoop
    <3>7. \/ WakeupOnItsWay' /\ (WakeupOnItsWay => WakeupOnItsWay')
          \/ /\ t = Loop /\ pc \in {"outside", "callback"}
             /\ call' = call /\ wakeupFd_' = wakeupFd_
      BY <2>5, WakeupReached
    <3>8. WakeupInv'
      BY <2>0, <2>5, <3>1, <3>3, <3>4, <3>5, <3>7 DEF queueInLoop
    <3>9. QuitInv'
      BY <2>5, <3>7 DEF queueInLoop
    <3> QED
      BY <2>5, <3>6, <3>8, <3>9 DEF queueInLoop
  <2>6. ASSUME NEW j \in Jobs, runInLoop(j)
        PROVE  IInv'
    <3>1. \A i \in DOMAIN ran' :
             \/ i \in DOMAIN ran /\ ran'[i] = ran[i]
             \/ ran'[i] = j
      BY <2>6, AppendElements DEF runInLoop, TypeOK
    <3>2. origin' = [origin EXCEPT ![j] = "direct"] /\ origin[j] = "none"
      BY <2>6 DEF runInLoop
    <3>3. origin'[j] = "direct" /\ \A k \in Jobs \ {j} : origin'[k] = origin[k]
      BY <3>2 DEF TypeOK
    <3> QED
      BY <2>0, <2>6, <3>1, <3>2, <3>3 DEF runInLoop
  <2>7. ASSUME NEW t \in Threads, quit(t)
        PROVE  IInv'
    <3>1. CASE t = Loop
      BY <2>7, <3>1 DEF quit, MayCall, isInLoopThread, InUserCode, TypeOK
    <3>2. CASE t # Loop
      <4>1. call'[t] = "wakeup"
        BY <2>7, <3>2 DEF quit, isInLoopThread, TypeOK
      <4> QED
        BY <2>7, <4>1 DEF quit
    <3> QED
      BY <3>1, <3>2
  <2>8. ASSUME NEW t \in Threads, wakeup(t)
        PROVE  IInv'
    BY <2>8 DEF wakeup
  <2>9. CASE UNCHANGED vars
    BY <2>9 DEF vars
  <2> QED
    BY <2>1, <2>2, <2>3, <2>4, <2>5, <2>6, <2>7, <2>8, <2>9
       DEF Next, doPendingFunctors, Calls
<1> QED
  BY <1>1, <1>2, TypeCorrect, PTL DEF Spec

(* queueInLoop() and quit() never leave the loop asleep in poll(2) with    *)
(* something to do: the eventfd is written, or about to be.                *)
THEOREM NoLostWakeup == Spec => []SleepsOnlyIfIdle
<1>1. IInv => SleepsOnlyIfIdle
  BY DEF IInv, WakeupInv, QuitInv, SleepsOnlyIfIdle
<1> QED
  BY <1>1, Inductive, PTL

-----------------------------------------------------------------------------
(* Refinement.                                                             *)

(* The functors queued, as the refinement mapping sees them, and the       *)
(* elements of that queue.                                                 *)
Queue == functors \o pendingFunctors_

LEMMA QueueElements ==
    ASSUME IInv
    PROVE  /\ Queue \in Seq(Jobs)
           /\ \A i \in DOMAIN Queue : origin[Queue[i]] # "none"
<1>1. functors \in Seq(Jobs) /\ pendingFunctors_ \in Seq(Jobs)
  BY DEF IInv, TypeOK
<1>2. DOMAIN functors = 1 .. Len(functors) /\ Len(functors) \in Nat
  BY <1>1, LenProperties
<1>3. DOMAIN pendingFunctors_ = 1 .. Len(pendingFunctors_) /\ Len(pendingFunctors_) \in Nat
  BY <1>1, LenProperties
<1>4. /\ Queue \in Seq(Jobs)
      /\ Len(Queue) = Len(functors) + Len(pendingFunctors_)
      /\ \A i \in 1 .. Len(functors) + Len(pendingFunctors_) :
            Queue[i] = IF i <= Len(functors) THEN functors[i]
                       ELSE pendingFunctors_[i - Len(functors)]
  BY <1>1, ConcatProperties DEF Queue
<1>5. DOMAIN Queue = 1 .. Len(Queue)
  BY <1>4, LenProperties
<1> QED
  BY <1>2, <1>3, <1>4, <1>5 DEF IInv, OriginInv

(* The head and the tail of a concatenation whose first part is not empty. *)
LEMMA ConcatHeadTail ==
    ASSUME NEW S, NEW s \in Seq(S), NEW t \in Seq(S), s # << >>
    PROVE  /\ s \o t # << >>
           /\ Head(s \o t) = Head(s)
           /\ Tail(s \o t) = Tail(s) \o t
<1>1. s \o t # << >>
  BY ConcatEqualIffEmpty
<1>2. Len(s) \in Nat \ {0} /\ Len(t) \in Nat
  BY EmptySeq, LenProperties
<1>3. /\ s \o t \in Seq(S) /\ Len(s \o t) = Len(s) + Len(t)
      /\ \A i \in 1 .. Len(s) + Len(t) :
            (s \o t)[i] = IF i <= Len(s) THEN s[i] ELSE t[i - Len(s)]
  BY ConcatProperties
<1>4. /\ Tail(s) \in Seq(S) /\ Len(Tail(s)) = Len(s) - 1
      /\ \A i \in 1 .. Len(Tail(s)) : Tail(s)[i] = s[i + 1]
  BY HeadTailProperties
<1>5. /\ Tail(s \o t) \in Seq(S) /\ Len(Tail(s \o t)) = Len(s) + Len(t) - 1
      /\ \A i \in 1 .. Len(s) + Len(t) - 1 : Tail(s \o t)[i] = (s \o t)[i + 1]
  BY <1>1, <1>3, HeadTailProperties
<1>6. /\ Tail(s) \o t \in Seq(S) /\ Len(Tail(s) \o t) = Len(s) + Len(t) - 1
      /\ \A i \in 1 .. Len(s) + Len(t) - 1 :
            (Tail(s) \o t)[i] = IF i <= Len(s) - 1 THEN Tail(s)[i]
                                ELSE t[i - (Len(s) - 1)]
  BY <1>2, <1>4, ConcatProperties
<1>7. \A i \in 1 .. Len(s) + Len(t) - 1 : Tail(s \o t)[i] = (Tail(s) \o t)[i]
  BY <1>2, <1>3, <1>4, <1>5, <1>6
<1>8. Tail(s \o t) = Tail(s) \o t
  BY <1>5, <1>6, <1>7, SeqEqual
<1>9. Head(s \o t) = Head(s)
  BY <1>2, <1>3
<1> QED
  BY <1>1, <1>8, <1>9

(* A functor not handed over yet is fresh for the abstract executor.       *)
LEMMA UnhandedIsFresh ==
    ASSUME IInv, NEW j \in Jobs, origin[j] = "none"
    PROVE  TE!Fresh(j)
BY QueueElements DEF TE!Fresh, Queue, IInv, OriginInv

(* loop(), doPendingFunctors(), queueInLoop() and runInLoop() together     *)
(* implement the first-in first-out executor of TaskExecutor.              *)
THEOREM Refinement == Spec => ImplementsTaskExecutor
<1>1. Init => TE!Init
  BY ConcatEmptySeq, EmptySeq DEF Init, TE!Init
<1>2. IInv /\ TypeOK' /\ [Next]_vars => [TE!Next]_TE!vars
  <2> SUFFICES ASSUME IInv, TypeOK', [Next]_vars PROVE [TE!Next]_TE!vars
    OBVIOUS
  <2>0. functors \in Seq(Jobs) /\ pendingFunctors_ \in Seq(Jobs)
    BY DEF IInv, TypeOK
  <2>1. CASE loop \/ SetCalling \/ ClearCalling \/ UNCHANGED vars
    BY <2>1 DEF loop, EnterLoop, TestQuit, PollWakeup, PollEvents, PollTimeout,
                PollReturns, handleRead, HandleEvent, Return, HandledAll,
                SetCalling, ClearCalling, vars, TE!vars
  <2>2. CASE SwapFunctors
    <3>1. functors = << >> /\ functors' = pendingFunctors_ /\ pendingFunctors_' = << >>
      BY <2>2 DEF SwapFunctors, IInv, BatchInv
    <3>2. functors' \o pendingFunctors_' = functors \o pendingFunctors_
      BY <2>0, <3>1, ConcatEmptySeq
    <3> QED
      BY <2>2, <3>2 DEF SwapFunctors, TE!vars
  <2>3. CASE RunFunctor
    <3>1. Queue # << >> /\ Head(Queue) = Head(functors) /\ Tail(Queue) = Queue'
      BY <2>0, <2>3, ConcatHeadTail DEF RunFunctor, Queue
    <3>2. TE!RunHead
      BY <2>3, <3>1 DEF TE!RunHead, RunFunctor, Queue
    <3> QED
      BY <3>2 DEF TE!Next
  <2>4. ASSUME NEW t \in Threads, NEW j \in Jobs, queueInLoop(t, j)
        PROVE  [TE!Next]_TE!vars
    <3>1. TE!Fresh(j)
      BY <2>4, UnhandedIsFresh DEF queueInLoop
    <3>2. Queue' = Append(Queue, j)
      <4>1. Queue' = functors \o (pendingFunctors_ \o << j >>)
        BY <2>0, <2>4, AppendIsConcat DEF queueInLoop, Queue
      <4>2. Queue' = Queue \o << j >>
        BY <2>0, <4>1, ConcatAssociative DEF Queue
      <4> QED
        BY <4>2, QueueElements, AppendIsConcat
    <3>3. TE!Submit(j)
      BY <2>4, <3>1, <3>2 DEF TE!Submit, queueInLoop, Queue
    <3> QED
      BY <3>3 DEF TE!Next
  <2>5. ASSUME NEW j \in Jobs, runInLoop(j)
        PROVE  [TE!Next]_TE!vars
    <3>1. TE!RunNow(j)
      BY <2>5, UnhandedIsFresh DEF runInLoop, TE!RunNow
    <3> QED
      BY <3>1 DEF TE!Next
  <2>6. ASSUME NEW t \in Threads, quit(t)
        PROVE  [TE!Next]_TE!vars
    BY <2>6 DEF quit, TE!Next, TE!Stop
  <2>7. ASSUME NEW t \in Threads, wakeup(t)
        PROVE  [TE!Next]_TE!vars
    BY <2>7 DEF wakeup, TE!vars
  <2> QED
    BY <2>1, <2>2, <2>3, <2>4, <2>5, <2>6, <2>7
       DEF Next, doPendingFunctors, Calls
<1> QED
  BY <1>1, <1>2, TypeCorrect, Inductive, PTL DEF Spec, ImplementsTaskExecutor, TE!Spec

-----------------------------------------------------------------------------
(* What the refinement gives: no functor twice.                            *)

(* All functors that have run or are queued, in the order they run.        *)
All == ran \o Queue

(* Inserting a new element between two sequences keeps all distinct.       *)
LEMMA InsertDistinct ==
    ASSUME NEW S, NEW r \in Seq(S), NEW q \in Seq(S), NEW e \in S,
           \A i \in DOMAIN r : r[i] # e,
           \A i \in DOMAIN q : q[i] # e,
           \A a, b \in DOMAIN (r \o q) : (r \o q)[a] = (r \o q)[b] => a = b
    PROVE  LET s == Append(r, e) \o q
           IN  \A a, b \in DOMAIN s : s[a] = s[b] => a = b
<1> DEFINE s == Append(r, e) \o q
           old == r \o q
           pos(a) == IF a <= Len(r) THEN a ELSE a - 1
<1>1. Len(r) \in Nat /\ Len(q) \in Nat /\ DOMAIN r = 1 .. Len(r) /\ DOMAIN q = 1 .. Len(q)
  BY LenProperties
<1>2. /\ Append(r, e) \in Seq(S) /\ Len(Append(r, e)) = Len(r) + 1
      /\ \A i \in 1 .. Len(r) : Append(r, e)[i] = r[i]
      /\ Append(r, e)[Len(r) + 1] = e
  BY AppendProperties
<1>3. /\ DOMAIN s = 1 .. Len(r) + 1 + Len(q)
      /\ \A i \in 1 .. Len(r) + 1 + Len(q) :
            s[i] = IF i <= Len(r) + 1 THEN Append(r, e)[i] ELSE q[i - (Len(r) + 1)]
  BY <1>2, ConcatProperties, LenProperties
<1>4. /\ DOMAIN old = 1 .. Len(r) + Len(q)
      /\ \A i \in 1 .. Len(r) + Len(q) :
            old[i] = IF i <= Len(r) THEN r[i] ELSE q[i - Len(r)]
  BY ConcatProperties, LenProperties
<1>5. \A a \in DOMAIN s : a # Len(r) + 1
         => pos(a) \in DOMAIN old /\ s[a] = old[pos(a)] /\ s[a] # e
  BY <1>1, <1>2, <1>3, <1>4
<1>6. s[Len(r) + 1] = e
  BY <1>1, <1>2, <1>3
<1>7. \A a, b \in DOMAIN s : a # Len(r) + 1 /\ b # Len(r) + 1 /\ pos(a) = pos(b) => a = b
  BY <1>1, <1>3
<1> HIDE DEF s, old, pos
<1>8. \A a, b \in DOMAIN s : s[a] = s[b] => a = b
  BY <1>5, <1>6, <1>7 DEF old
<1> QED
  BY <1>8 DEF s

(* The two vectors between which doPendingFunctors moves functors never    *)
(* repeat one, nor name one that has run.                                  *)
THEOREM AtMostOnce == Spec => []RunsAtMostOnce
<1>1. Init => RunsAtMostOnce
  BY DEF Init, RunsAtMostOnce, TE!AtMostOnce
<1>2. IInv /\ IInv' /\ RunsAtMostOnce /\ [TE!Next]_TE!vars => RunsAtMostOnce'
  <2> SUFFICES ASSUME IInv, IInv', RunsAtMostOnce, [TE!Next]_TE!vars
               PROVE  RunsAtMostOnce'
    OBVIOUS
  <2>0. ran \in Seq(Jobs) /\ Queue \in Seq(Jobs)
    BY QueueElements DEF IInv, TypeOK
  <2>1. ASSUME NEW j \in Jobs, TE!Submit(j)
        PROVE  RunsAtMostOnce'
    <3>1. ran' = ran /\ Queue' = Append(Queue, j)
      BY <2>1 DEF TE!Submit, Queue
    <3>2. All \in Seq(Jobs) /\ All' = Append(All, j)
      <4>1. All' = ran \o (Queue \o << j >>)
        BY <2>0, <3>1, AppendIsConcat DEF All
      <4>2. All' = All \o << j >>
        BY <2>0, <4>1, ConcatAssociative DEF All
      <4>3. All \in Seq(Jobs)
        BY <2>0, ConcatProperties DEF All
      <4> QED
        BY <4>2, <4>3, AppendIsConcat
    <3>3. All' = Append(All, j) \o << >> /\ All \o << >> = All
      BY <3>2, AppendProperties, ConcatEmptySeq
    <3>4. (\A i \in DOMAIN ran : ran[i] # j) /\ (\A i \in DOMAIN Queue : Queue[i] # j)
      BY <2>1 DEF TE!Submit, TE!Fresh, Queue
    <3>5. \A i \in DOMAIN All : All[i] # j
      <4>1. /\ DOMAIN All = 1 .. Len(ran) + Len(Queue)
            /\ \A i \in 1 .. Len(ran) + Len(Queue) :
                  All[i] = IF i <= Len(ran) THEN ran[i] ELSE Queue[i - Len(ran)]
        BY <2>0, ConcatProperties, LenProperties DEF All
      <4>2. /\ DOMAIN ran = 1 .. Len(ran) /\ Len(ran) \in Nat
            /\ DOMAIN Queue = 1 .. Len(Queue) /\ Len(Queue) \in Nat
        BY <2>0, LenProperties
      <4> QED
        BY <3>4, <4>1, <4>2
    <3>6. \A a, b \in DOMAIN (All \o << >>) :
             (All \o << >>)[a] = (All \o << >>)[b] => a = b
      BY <3>3 DEF RunsAtMostOnce, TE!AtMostOnce, All, Queue
    <3>7. LET s == Append(All, j) \o << >>
          IN  \A a, b \in DOMAIN s : s[a] = s[b] => a = b
      BY <3>2, <3>5, <3>6, EmptySeq, InsertDistinct
    <3> QED
      BY <3>3, <3>7 DEF RunsAtMostOnce, TE!AtMostOnce, All, Queue
  <2>2. ASSUME NEW j \in Jobs, TE!RunNow(j)
        PROVE  RunsAtMostOnce'
    <3>1. \A a, b \in DOMAIN (ran \o Queue) : (ran \o Queue)[a] = (ran \o Queue)[b] => a = b
      BY DEF RunsAtMostOnce, TE!AtMostOnce, Queue
    <3>2. (\A i \in DOMAIN ran : ran[i] # j) /\ (\A i \in DOMAIN Queue : Queue[i] # j)
      BY <2>2 DEF TE!RunNow, TE!Fresh, Queue
    <3>3. ran' = Append(ran, j) /\ Queue' = Queue
      BY <2>2 DEF TE!RunNow, Queue
    <3>4. LET s == Append(ran, j) \o Queue
          IN  \A a, b \in DOMAIN s : s[a] = s[b] => a = b
      BY <2>0, <3>1, <3>2, InsertDistinct
    <3> QED
      BY <3>3, <3>4 DEF RunsAtMostOnce, TE!AtMostOnce, Queue
  <2>3. CASE TE!RunHead
    <3>1. Queue # << >> /\ ran' = Append(ran, Head(Queue)) /\ Queue' = Tail(Queue)
      BY <2>3 DEF TE!RunHead, Queue
    <3>2. Head(Queue) \in Jobs /\ Tail(Queue) \in Seq(Jobs)
      BY <2>0, <3>1, HeadTailProperties
    <3>3. Queue = << Head(Queue) >> \o Tail(Queue)
      BY <2>0, <3>1, SubSeqFull, SubSeqRecursiveFirst, TailIsSubSeq, LenProperties, EmptySeq
    <3>4. All' = (ran \o << Head(Queue) >>) \o Tail(Queue)
      BY <2>0, <3>1, <3>2, AppendIsConcat DEF All
    <3>5. All' = ran \o (<< Head(Queue) >> \o Tail(Queue))
      BY <2>0, <3>2, <3>4, ConcatAssociative
    <3>6. All' = All
      BY <3>3, <3>5 DEF All
    <3> QED
      BY <3>6 DEF RunsAtMostOnce, TE!AtMostOnce, All, Queue
  <2>4. CASE TE!Stop \/ UNCHANGED TE!vars
    BY <2>4 DEF TE!Stop, TE!vars, RunsAtMostOnce, TE!AtMostOnce
  <2> QED
    BY <2>1, <2>2, <2>3, <2>4 DEF TE!Next
<1> QED
  BY <1>1, <1>2, Inductive, Refinement, PTL
     DEF Spec, ImplementsTaskExecutor, TE!Spec

=============================================================================
