--------------------------- MODULE TcpServerProofs ---------------------------
(***************************************************************************)
(* Theorems about TcpServer, for every pool of distinct loops and every    *)
(* finite set of connections.                                              *)
(*                                                                         *)
(* What makes the assertions hold is where the functors of a connection    *)
(* are: the one that sets it up is queued in its loop exactly while it is  *)
(* connecting, the one that takes it apart is queued once, behind that one *)
(* and never before the map has let go of it, and the one that erases it   *)
(* is queued only while it is in the map.  The invariant says so of the    *)
(* positions of the functors in what a loop has yet to run, and a step     *)
(* takes the first of them, or adds one behind them, or both.              *)
(***************************************************************************)
EXTENDS MCTcpServer, SequenceTheorems, FiniteSetTheorems, WellFoundedInduction,
        NaturalsInduction, TLAPS

Ops == {"connectEstablished", "connectDestroyed", "removeConnectionInLoop"}

(* What a loop still has to run, in order, and where in it a functor is.   *)
All(l) == functors[l] \o pendingFunctors_[l]
Pos(l, op, c) == {i \in 1..Len(All(l)) : All(l)[i] = Functor(op, c)}

Serving == server \in {"new", "started"}
(* The functors queued in l may still run.                                 *)
Live(l) == l = Base \/ server # "gone"

(* The pool's threads are joined in order, all before the server is gone.  *)
LoopsInv ==
    /\ loops_ \in Pools
    /\ loops_ # <<>> => next_ < Len(loops_)
    /\ \A i \in 1..joined : pc[loops_[i]] = "exited"
    /\ server = "gone" => joined = Len(loops_)
    /\ server # "destroying" => left = {}

(* A connection's state and its channel go together; the map holds those   *)
(* that are up, and the destructor hands out none that is out of its       *)
(* poller.                                                                 *)
LifeInv ==
    \A c \in Conns :
        /\ <<conn[c].state, conn[c].channel>> \in
              {<<"none", "new">>, <<"kConnecting", "new">>, <<"kConnected", "on">>,
               <<"kDisconnected", "off">>, <<"kDisconnected", "removed">>}
        /\ Serving /\ conn[c].state \in {"kConnecting", "kConnected"} => c \in connections_
        /\ conn[c].loop = Base => conn[c].state # "kConnecting"
        /\ c \in connections_ /\ (Serving \/ c \in left) =>
              /\ conn[c].channel # "removed"
              /\ conn[c].loop = Base => conn[c].channel = "on"

(* Of the three functors, where and when each is queued.                   *)
EstablishedInv ==
    \A l \in Loops, c \in Conns :
        Pos(l, "connectEstablished", c) # {} <=>
            conn[c].loop = l /\ conn[c].state = "kConnecting"

DestroyedAt(l, c, i) ==
    /\ conn[c].loop = l /\ conn[c].state # "none"
    /\ Live(l) =>
          /\ conn[c].channel # "removed" /\ c \notin left
          /\ ~(Serving /\ c \in connections_)
          /\ l = Base => conn[c].channel = "off"
          /\ conn[c].state = "kConnecting" =>
                \E j \in Pos(l, "connectEstablished", c) : j < i
DestroyedInv ==
    \A l \in Loops, c \in Conns : \A i \in Pos(l, "connectDestroyed", c) :
        DestroyedAt(l, c, i)

RemoveInv ==
    \A l \in Loops, c \in Conns : Pos(l, "removeConnectionInLoop", c) # {} =>
        /\ l = Base /\ conn[c].loop # Base
        /\ conn[c].channel \in {"off", "removed"}
        /\ Serving => c \in connections_ /\ conn[c].channel = "off"

(* Each is queued once.  Not so connectDestroyed once the server is gone:  *)
(* removeConnectionInLoop may then queue it again, in a loop that has      *)
(* returned.                                                               *)
UniqueInv ==
    \A l \in Loops, op \in Ops, c \in Conns :
        Live(l) \/ op # "connectDestroyed" =>
            \A i, j \in Pos(l, op, c) : i = j

(* The loops before next_ are one connection ahead of the others.          *)
BalanceInv ==
    \E m \in Nat : \A i \in 1..Len(loops_) :
        Load(loops_[i]) = IF i <= next_ THEN m + 1 ELSE m

QueueInv == EstablishedInv /\ DestroyedInv /\ RemoveInv /\ UniqueInv
IInv == TypeOK /\ NoAssertFails /\ LoopsInv /\ LifeInv /\ QueueInv

-----------------------------------------------------------------------------
LEMMA PushSeq ==
    ASSUME NEW S, NEW a \in Seq(S), NEW b \in Seq(S), NEW f \in S
    PROVE  a \o Append(b, f) = Append(a \o b, f)
<1>1. Append(b, f) = b \o <<f>> /\ a \o b \in Seq(S) /\ <<f>> \in Seq(S)
  BY ConcatProperties
<1>2. Append(a \o b, f) = (a \o b) \o <<f>>
  BY <1>1
<1>3. (a \o b) \o <<f>> = a \o (b \o <<f>>)
  BY <1>1, ConcatAssociative
<1> QED BY <1>1, <1>2, <1>3

LEMMA PopSeq ==
    ASSUME NEW S, NEW a \in Seq(S), NEW b \in Seq(S), a # <<>>
    PROVE  Tail(a) \o b = Tail(a \o b) /\ Head(a \o b) = Head(a) /\ a \o b # <<>>
<1> DEFINE p == Tail(a) \o b
           q == a \o b
<1>1. Len(a) \in Nat /\ Len(a) >= 1 /\ Len(b) \in Nat
  BY LenProperties, EmptySeq
<1>2. Tail(a) \in Seq(S) /\ Len(Tail(a)) = Len(a) - 1 /\ \A i \in 1..(Len(a) - 1) : Tail(a)[i] = a[i + 1]
  BY <1>1, HeadTailProperties
<1>3. /\ q \in Seq(S) /\ Len(q) = Len(a) + Len(b)
      /\ \A i \in 1..(Len(a) + Len(b)) : q[i] = IF i <= Len(a) THEN a[i] ELSE b[i - Len(a)]
  BY ConcatProperties
<1>4. /\ p \in Seq(S) /\ Len(p) = (Len(a) - 1) + Len(b)
      /\ \A i \in 1..((Len(a) - 1) + Len(b)) :
            p[i] = IF i <= Len(a) - 1 THEN Tail(a)[i] ELSE b[i - (Len(a) - 1)]
  BY <1>2, ConcatProperties
<1> HIDE DEF p, q
<1>5. q # <<>>
  BY <1>1, <1>3, EmptySeq
<1>6. Tail(q) \in Seq(S) /\ Len(Tail(q)) = Len(q) - 1 /\ \A i \in 1..(Len(q) - 1) : Tail(q)[i] = q[i + 1]
  BY <1>3, <1>5, HeadTailProperties
<1>7. ASSUME NEW i \in 1..((Len(a) - 1) + Len(b)) PROVE p[i] = Tail(q)[i]
  <2>1. i \in Int /\ i + 1 \in 1..(Len(a) + Len(b)) /\ i \in 1..(Len(q) - 1)
    BY <1>1, <1>3
  <2>2. Tail(q)[i] = q[i + 1]
    BY <1>6, <2>1
  <2>3. CASE i <= Len(a) - 1
    BY <1>1, <1>2, <1>3, <1>4, <2>1, <2>2, <2>3
  <2>4. CASE ~(i <= Len(a) - 1)
    <3>1. ~(i + 1 <= Len(a)) /\ (i + 1) - Len(a) = i - (Len(a) - 1)
      BY <1>1, <2>1, <2>4
    <3> QED BY <1>3, <1>4, <2>1, <2>2, <2>4, <3>1
  <2> QED BY <2>3, <2>4
<1>8. p = Tail(q)
  BY <1>1, <1>3, <1>4, <1>6, <1>7, SeqEqual
<1>9. Head(q) = Head(a)
  <2>1. q[1] = a[1]
    BY <1>1, <1>3
  <2> QED BY <1>3, <2>1
<1> QED BY <1>5, <1>8, <1>9 DEF p, q

(* A step takes the first functor of the loops K and queues f in those of M. *)
Moved(K, M, f) ==
    \A l \in Loops :
        /\ l \in K => All(l) # <<>> /\ l \notin M
        /\ All(l)' = IF l \in K THEN Tail(All(l))
                     ELSE IF l \in M THEN Append(All(l), f) ELSE All(l)

QueuesTyped ==
    /\ functors \in [Loops -> Seq(Functors)] /\ pendingFunctors_ \in [Loops -> Seq(Functors)]

LEMMA AllSeq ==
    ASSUME QueuesTyped, NEW l \in Loops
    PROVE  All(l) \in Seq(Functors) /\ Len(All(l)) \in Nat
BY ConcatProperties, LenProperties DEF QueuesTyped, All

LEMMA AllSeqNext ==
    ASSUME QueuesTyped', NEW l \in Loops'
    PROVE  Len(All(l))' \in Nat
<1>1. functors'[l] \in Seq(Functors) /\ pendingFunctors_'[l] \in Seq(Functors)
  BY DEF QueuesTyped
<1> QED BY <1>1, ConcatProperties, LenProperties DEF All

LEMMA PosFacts ==
    ASSUME QueuesTyped, NEW l \in Loops, NEW op \in Ops, NEW c \in Conns
    PROVE  /\ Pos(l, op, c) \subseteq 1..Len(All(l)) /\ Len(All(l)) \in Nat
           /\ Pos(l, op, c) \subseteq Nat
BY AllSeq DEF Pos

(* Where the functors are after a step.                                    *)
LEMMA MovedPos ==
    ASSUME QueuesTyped, UNCHANGED loops_, NEW K, NEW M, NEW f \in Functors, Moved(K, M, f),
           NEW l \in Loops, NEW op \in Ops, NEW c \in Conns
    PROVE  /\ l \in K => /\ \A i \in Pos(l, op, c)' : i + 1 \in Pos(l, op, c)
                         /\ \A i \in Pos(l, op, c) : i # 1 => i - 1 \in Pos(l, op, c)'
           /\ l \notin K /\ ~(l \in M /\ f = Functor(op, c)) =>
                 Pos(l, op, c)' = Pos(l, op, c)
           /\ l \in M /\ l \notin K /\ f = Functor(op, c) =>
                 Pos(l, op, c)' = Pos(l, op, c) \cup {Len(All(l)) + 1}
<1> DEFINE q == All(l)
           n == Len(All(l))
           Here(t) == {i \in 1..Len(t) : t[i] = Functor(op, c)}
<1>1. q \in Seq(Functors) /\ n \in Nat
  BY AllSeq
<1>2. Pos(l, op, c) = Here(q) /\ Pos(l, op, c)' = Here(All(l)')
  BY DEF Pos, Functor
<1>3. CASE l \in K
  <2>1. All(l)' = Tail(q) /\ q # <<>>
    BY <1>3 DEF Moved
  <2> HIDE DEF q
  <2>2. Len(q) = n
    BY DEF q
  <2>3. Tail(q) \in Seq(Functors) /\ Len(Tail(q)) = n - 1 /\ n >= 1
        /\ \A i \in 1..(n - 1) : Tail(q)[i] = q[i + 1]
    BY <1>1, <2>1, <2>2, HeadTailProperties, EmptySeq
  <2>4. \A i \in Here(Tail(q)) : i + 1 \in Here(q)
    BY <1>1, <2>2, <2>3
  <2>5. \A i \in Here(q) : i # 1 => i - 1 \in Here(Tail(q))
    <3> SUFFICES ASSUME NEW i \in Here(q), i # 1 PROVE i - 1 \in Here(Tail(q))
      OBVIOUS
    <3>1. i - 1 \in 1..(n - 1) /\ (i - 1) + 1 = i
      BY <1>1, <2>2
    <3> QED BY <2>3, <3>1
  <2> QED BY <1>2, <1>3, <2>1, <2>4, <2>5 DEF q
<1>4. CASE l \notin K /\ l \notin M
  <2>1. All(l)' = q
    BY <1>4 DEF Moved
  <2> QED BY <1>2, <1>4, <2>1
<1>5. CASE l \notin K /\ l \in M
  <2>1. All(l)' = Append(q, f)
    BY <1>5 DEF Moved
  <2> HIDE DEF q
  <2>2. Len(q) = n
    BY DEF q
  <2>3. /\ Len(Append(q, f)) = n + 1 /\ Append(q, f)[n + 1] = f
        /\ \A i \in 1..n : Append(q, f)[i] = q[i]
    BY <1>1, <2>2, AppendProperties
  <2>4. Here(Append(q, f)) = Here(q) \cup (IF f = Functor(op, c) THEN {n + 1} ELSE {})
    <3>1. ASSUME NEW i PROVE i \in Here(Append(q, f)) <=>
                              i \in Here(q) \/ (i = n + 1 /\ f = Functor(op, c))
      BY <1>1, <2>2, <2>3
    <3> HIDE DEF Here
    <3> QED BY <3>1
  <2> QED BY <1>2, <1>5, <2>1, <2>4 DEF q
<1> QED BY <1>3, <1>4, <1>5

(* What MovedPos says, for the kinds of step there are: no functor moves;  *)
(* f is queued in k; the first one of b is taken, and, with k, f queued.   *)
Same(l, op, c) == Pos(l, op, c)' = Pos(l, op, c)
Gets(l, op, c) ==
    \E n \in Nat : /\ Pos(l, op, c)' = Pos(l, op, c) \cup {n}
                   /\ \A o \in Ops, d \in Conns : \A i \in Pos(l, o, d) : i < n
Shifts(l, op, c) ==
    /\ \A i \in Pos(l, op, c)' : i + 1 \in Pos(l, op, c)
    /\ \A i \in Pos(l, op, c) : i # 1 => i - 1 \in Pos(l, op, c)'

Stays ==
    \A l \in Loops, op \in Ops, c \in Conns : Same(l, op, c)
Pushes(k, o, d) ==
    \A l \in Loops, op \in Ops, c \in Conns :
        IF l = k /\ op = o /\ c = d THEN Gets(l, op, c) ELSE Same(l, op, c)
Pops(b) ==
    \A l \in Loops, op \in Ops, c \in Conns :
        IF l = b THEN Shifts(l, op, c) ELSE Same(l, op, c)
PopsAndPushes(b, k, o, d) ==
    \A l \in Loops, op \in Ops, c \in Conns :
        IF l = b THEN Shifts(l, op, c)
        ELSE IF l = k /\ op = o /\ c = d THEN Gets(l, op, c) ELSE Same(l, op, c)

LEMMA FunctorFacts ==
    ASSUME NEW o \in Ops, NEW d \in Conns, NEW op \in Ops, NEW c \in Conns
    PROVE  /\ Functor(o, d) \in Functors
           /\ Functor(o, d) = Functor(op, c) <=> o = op /\ d = c
BY DEF Functor, Functors, Ops

LEMMA StayStep ==
    ASSUME QueuesTyped, UNCHANGED loops_, \A l \in Loops : All(l)' = All(l)
    PROVE  Stays
<1> SUFFICES ASSUME NEW l \in Loops, NEW op \in Ops, NEW c \in Conns PROVE Same(l, op, c)
  BY DEF Stays
<1>1. Functor(op, c) \in Functors
  BY FunctorFacts
<1>2. Moved({}, {}, Functor(op, c))
  BY DEF Moved
<1> QED BY <1>1, <1>2, MovedPos DEF Same

LEMMA PushStep ==
    ASSUME QueuesTyped, UNCHANGED <<loops_, functors>>, NEW k \in Loops, NEW o \in Ops,
           NEW d \in Conns, queueInLoop(k, Functor(o, d))
    PROVE  Pushes(k, o, d) /\ QueuesTyped'
<1> DEFINE f == Functor(o, d)
<1>1. f \in Functors
  BY FunctorFacts
<1>2. pendingFunctors_' = [pendingFunctors_ EXCEPT ![k] = Append(@, f)] /\ Loops' = Loops
  BY DEF queueInLoop, Queued, Loops
<1> HIDE DEF f
<1>3. ASSUME NEW l \in Loops
      PROVE  All(l)' = IF l = k THEN Append(All(l), f) ELSE All(l)
  <2>1. functors[l] \in Seq(Functors) /\ pendingFunctors_[l] \in Seq(Functors)
    BY DEF QueuesTyped
  <2>2. functors[l] \o Append(pendingFunctors_[l], f) =
            Append(functors[l] \o pendingFunctors_[l], f)
    <3>1. \A x, y \in Seq(Functors) : x \o Append(y, f) = Append(x \o y, f)
      BY <1>1, PushSeq
    <3> QED BY <2>1, <3>1, Zenon
  <2> QED BY <1>2, <2>2 DEF All, QueuesTyped
<1>4. Moved({}, {k}, f)
  BY <1>3 DEF Moved
<1>5. QueuesTyped'
  BY <1>1, <1>2 DEF QueuesTyped
<1>6. ASSUME NEW l \in Loops, NEW op \in Ops, NEW c \in Conns
      PROVE  IF l = k /\ op = o /\ c = d THEN Gets(l, op, c) ELSE Same(l, op, c)
  <2>1. f = Functor(op, c) <=> o = op /\ d = c
    BY FunctorFacts DEF f
  <2>2. CASE l = k /\ op = o /\ c = d
    <3>1. Pos(l, op, c)' = Pos(l, op, c) \cup {Len(All(l)) + 1}
      BY <1>1, <1>4, <2>1, <2>2, MovedPos
    <3>2. Len(All(l)) + 1 \in Nat
      BY AllSeq
    <3>3. \A oo \in Ops, dd \in Conns : \A i \in Pos(l, oo, dd) : i < Len(All(l)) + 1
      BY PosFacts
    <3> QED BY <2>2, <3>1, <3>2, <3>3 DEF Gets
  <2>3. CASE ~(l = k /\ op = o /\ c = d)
    BY <1>1, <1>4, <2>1, <2>3, MovedPos DEF Same
  <2> QED BY <2>2, <2>3
<1> QED BY <1>5, <1>6 DEF Pushes

LEMMA PopStep ==
    ASSUME QueuesTyped, UNCHANGED <<loops_, pendingFunctors_>>, NEW b \in Loops,
           functors[b] # <<>>, functors' = [functors EXCEPT ![b] = Tail(@)]
    PROVE  Pops(b) /\ QueuesTyped'
<1>1. Loops' = Loops
  BY DEF Loops
<1>2. ASSUME NEW l \in Loops
      PROVE  All(l)' = (IF l = b THEN Tail(All(l)) ELSE All(l)) /\ (l = b => All(l) # <<>>)
  <2>1. functors[l] \in Seq(Functors) /\ pendingFunctors_[l] \in Seq(Functors)
    BY DEF QueuesTyped
  <2>2. l = b => /\ Tail(functors[l]) \o pendingFunctors_[l] = Tail(functors[l] \o pendingFunctors_[l])
                 /\ functors[l] \o pendingFunctors_[l] # <<>>
    BY <2>1, PopSeq
  <2> QED BY <2>2 DEF All, QueuesTyped
<1>3. QueuesTyped'
  BY <1>1, HeadTailProperties DEF QueuesTyped
<1>4. ASSUME NEW l \in Loops, NEW op \in Ops, NEW c \in Conns
      PROVE  IF l = b THEN Shifts(l, op, c) ELSE Same(l, op, c)
  <2>1. Functor(op, c) \in Functors
    BY FunctorFacts
  <2>2. Moved({b}, {}, Functor(op, c))
    BY <1>2 DEF Moved
  <2> QED BY <2>1, <2>2, MovedPos DEF Same, Shifts
<1> QED BY <1>3, <1>4 DEF Pops

LEMMA PopPushStep ==
    ASSUME QueuesTyped, UNCHANGED loops_, NEW b \in Loops, NEW k \in Loops, k # b,
           NEW o \in Ops, NEW d \in Conns, functors[b] # <<>>,
           functors' = [functors EXCEPT ![b] = Tail(@)], queueInLoop(k, Functor(o, d))
    PROVE  PopsAndPushes(b, k, o, d) /\ QueuesTyped'
<1> DEFINE f == Functor(o, d)
<1>1. f \in Functors
  BY FunctorFacts
<1>2. pendingFunctors_' = [pendingFunctors_ EXCEPT ![k] = Append(@, f)] /\ Loops' = Loops
  BY DEF queueInLoop, Queued, Loops
<1> HIDE DEF f
<1>3. ASSUME NEW l \in Loops
      PROVE  /\ All(l)' = IF l = b THEN Tail(All(l))
                          ELSE IF l = k THEN Append(All(l), f) ELSE All(l)
             /\ l = b => All(l) # <<>>
  <2>1. functors[l] \in Seq(Functors) /\ pendingFunctors_[l] \in Seq(Functors)
    BY DEF QueuesTyped
  <2>2. functors[l] \o Append(pendingFunctors_[l], f) =
            Append(functors[l] \o pendingFunctors_[l], f)
    <3>1. \A x, y \in Seq(Functors) : x \o Append(y, f) = Append(x \o y, f)
      BY <1>1, PushSeq
    <3> QED BY <2>1, <3>1, Zenon
  <2>3. l = b => /\ Tail(functors[l]) \o pendingFunctors_[l] = Tail(functors[l] \o pendingFunctors_[l])
                 /\ functors[l] \o pendingFunctors_[l] # <<>>
    BY <2>1, PopSeq
  <2> QED BY <1>2, <2>2, <2>3 DEF All, QueuesTyped
<1>4. Moved({b}, {k}, f)
  BY <1>3 DEF Moved
<1>5. QueuesTyped'
  BY <1>1, <1>2, HeadTailProperties DEF QueuesTyped
<1>6. ASSUME NEW l \in Loops, NEW op \in Ops, NEW c \in Conns
      PROVE  IF l = b THEN Shifts(l, op, c)
             ELSE IF l = k /\ op = o /\ c = d THEN Gets(l, op, c) ELSE Same(l, op, c)
  <2>1. f = Functor(op, c) <=> o = op /\ d = c
    BY FunctorFacts DEF f
  <2>2. CASE l # b /\ l = k /\ op = o /\ c = d
    <3>1. Pos(l, op, c)' = Pos(l, op, c) \cup {Len(All(l)) + 1}
      BY <1>1, <1>4, <2>1, <2>2, MovedPos
    <3>2. Len(All(l)) + 1 \in Nat
      BY AllSeq
    <3>3. \A oo \in Ops, dd \in Conns : \A i \in Pos(l, oo, dd) : i < Len(All(l)) + 1
      BY PosFacts
    <3> QED BY <2>2, <3>1, <3>2, <3>3 DEF Gets
  <2>3. CASE l # b /\ ~(l = k /\ op = o /\ c = d)
    BY <1>1, <1>4, <2>1, <2>3, MovedPos DEF Same
  <2>4. CASE l = b
    BY <1>1, <1>4, <2>1, <2>4, MovedPos DEF Shifts
  <2> QED BY <2>2, <2>3, <2>4
<1> QED BY <1>5, <1>6 DEF PopsAndPushes

-----------------------------------------------------------------------------
LEMMA TypedQueues == TypeOK => QueuesTyped
BY DEF TypeOK, QueuesTyped

LEMMA LoopsKept == UNCHANGED loops_ => Loops' = Loops
BY DEF Loops

(* UNCHANGED loop leaves every functor where it is.                        *)
LEMMA LoopUnchanged ==
    ASSUME TypeOK, UNCHANGED loops_, UNCHANGED <<pendingFunctors_, functors>>
    PROVE  Stays
<1>1. \A l \in Loops : All(l)' = All(l)
  BY DEF All
<1> QED BY <1>1, TypedQueues, StayStep

LEMMA InitStep == Init => IInv
<1> SUFFICES ASSUME Init PROVE IInv
  OBVIOUS
<1>1. TypeOK
  BY ServerAssumption, LenProperties DEF Init, TypeOK, Loops, Functors
<1>2. \A l \in Loops, op \in Ops, c \in Conns : Pos(l, op, c) = {}
  <2> SUFFICES ASSUME NEW l \in Loops, NEW op \in Ops, NEW c \in Conns PROVE Pos(l, op, c) = {}
    OBVIOUS
  <2>1. All(l) = << >>
    BY DEF All, Init
  <2> QED BY <2>1 DEF Pos
<1>3. QueueInv
  <2>1. EstablishedInv
    BY <1>2 DEF EstablishedInv, Ops, Init
  <2>2. DestroyedInv
    BY <1>2 DEF DestroyedInv, DestroyedAt, Ops
  <2>3. RemoveInv
    BY <1>2 DEF RemoveInv, Ops
  <2>4. UniqueInv
    BY <1>2 DEF UniqueInv
  <2> QED BY <2>1, <2>2, <2>3, <2>4 DEF QueueInv
<1>4. LoopsInv
  BY ServerAssumption, LenProperties, EmptySeq DEF LoopsInv, Init
<1>5. LifeInv
  BY DEF LifeInv, Init
<1>6. NoAssertFails
  BY DEF NoAssertFails, Init
<1> QED BY <1>1, <1>3, <1>4, <1>5, <1>6 DEF IInv

LEMMA StartStep == IInv /\ Kept(start) => IInv'
<1> SUFFICES ASSUME IInv, Kept(start) PROVE IInv'
  OBVIOUS
<1>1. Loops' = Loops /\ Stays
  BY LoopsKept, LoopUnchanged DEF IInv, Kept, start, loop
<1>2. TypeOK' /\ NoAssertFails'
  BY <1>1 DEF IInv, Kept, start, loop, TypeOK, NoAssertFails
<1>3. LoopsInv'
  BY DEF IInv, Kept, start, loop, LoopsInv
<1>4. LifeInv'
  BY DEF IInv, Kept, start, loop, LifeInv, Serving
<1>5. EstablishedInv'
  BY <1>1 DEF IInv, QueueInv, Kept, start, loop, EstablishedInv, Stays, Same, Ops
<1>6. DestroyedInv'
  BY <1>1 DEF IInv, QueueInv, Kept, start, loop, DestroyedInv, DestroyedAt, Stays, Same, Ops,
              Live, Serving
<1>7. RemoveInv'
  BY <1>1 DEF IInv, QueueInv, Kept, start, loop, RemoveInv, Stays, Same, Ops, Serving
<1>8. UniqueInv'
  BY <1>1 DEF IInv, QueueInv, Kept, start, loop, UniqueInv, Stays, Same, Live
<1> QED BY <1>2, <1>3, <1>4, <1>5, <1>6, <1>7, <1>8 DEF IInv, QueueInv

(* A step of the loops that runs no functor and handles no event, or of    *)
(* the destructor that only waits.                                         *)
LEMMA QuietStep ==
    ASSUME IInv, Stays,
           UNCHANGED <<server, connections_, conn, left, aborted, loops_>>
    PROVE  LifeInv' /\ QueueInv' /\ NoAssertFails'
<1>1. Loops' = Loops
  BY LoopsKept
<1>2. LifeInv' /\ NoAssertFails'
  BY DEF IInv, LifeInv, Serving, NoAssertFails
<1>3. EstablishedInv'
  BY <1>1 DEF IInv, QueueInv, EstablishedInv, Stays, Same, Ops
<1>4. DestroyedInv'
  BY <1>1 DEF IInv, QueueInv, DestroyedInv, DestroyedAt, Stays, Same, Ops, Live, Serving
<1>5. RemoveInv'
  BY <1>1 DEF IInv, QueueInv, RemoveInv, Stays, Same, Ops, Serving
<1>6. UniqueInv'
  BY <1>1 DEF IInv, QueueInv, UniqueInv, Stays, Same, Live
<1> QED BY <1>2, <1>3, <1>4, <1>5, <1>6 DEF QueueInv

LEMMA QuitStep == IInv /\ Kept(quit) => IInv'
<1> SUFFICES ASSUME IInv, Kept(quit) PROVE IInv'
  OBVIOUS
<1>1. Loops' = Loops /\ Stays
  BY LoopsKept, LoopUnchanged DEF IInv, Kept, quit
<1>2. TypeOK'
  BY <1>1 DEF IInv, Kept, quit, TypeOK
<1>3. LoopsInv'
  BY DEF IInv, Kept, quit, LoopsInv
<1> QED BY <1>1, <1>2, <1>3, QuietStep DEF IInv, Kept, quit

LEMMA QuitThreadStep == IInv /\ Kept(QuitThread) => IInv'
<1> SUFFICES ASSUME IInv, Kept(QuitThread) PROVE IInv'
  OBVIOUS
<1>1. Loops' = Loops /\ Stays
  BY LoopsKept, LoopUnchanged DEF IInv, Kept, QuitThread
<1>2. TypeOK'
  BY <1>1 DEF IInv, Kept, QuitThread, TypeOK
<1>3. LoopsInv'
  BY DEF IInv, Kept, QuitThread, LoopsInv
<1> QED BY <1>1, <1>2, <1>3, QuietStep DEF IInv, Kept, QuitThread

LEMMA JoinThreadStep == IInv /\ Kept(JoinThread) => IInv'
<1> SUFFICES ASSUME IInv, Kept(JoinThread) PROVE IInv'
  OBVIOUS
<1>1. Loops' = Loops /\ Stays
  BY LoopsKept, LoopUnchanged DEF IInv, Kept, JoinThread, loop
<1>2. Len(loops_) \in Nat
  BY ServerAssumption, LenProperties DEF IInv, LoopsInv
<1>3. TypeOK'
  BY <1>1, <1>2 DEF IInv, Kept, JoinThread, TypeOK, loop
<1>4. LoopsInv'
  <2>1. \A i \in 1..(joined + 1) : i \in 1..joined \/ i = joined + 1
    BY <1>2 DEF IInv, TypeOK
  <2> QED BY <2>1 DEF IInv, Kept, JoinThread, LoopsInv, loop
<1> QED BY <1>1, <1>3, <1>4, QuietStep DEF IInv, Kept, JoinThread

LEMMA EndRoundStep ==
    ASSUME IInv, NEW l \in Loops, Kept(EndRound(l))
    PROVE  IInv'
<1>1. Loops' = Loops /\ Stays
  BY LoopsKept, LoopUnchanged DEF IInv, Kept, EndRound
<1>2. TypeOK'
  BY <1>1 DEF IInv, Kept, EndRound, TypeOK
<1>3. LoopsInv'
  <2>1. \A i \in 1..joined : pc'[loops_[i]] = "exited"
    BY DEF IInv, Kept, EndRound, LoopsInv, TypeOK
  <2> QED BY <2>1 DEF IInv, Kept, EndRound, LoopsInv
<1> QED BY <1>1, <1>2, <1>3, QuietStep DEF IInv, Kept, EndRound

LEMMA SwapFunctorsStep ==
    ASSUME IInv, NEW l \in Loops, Kept(SwapFunctors(l))
    PROVE  IInv'
<1>1. Loops' = Loops
  BY LoopsKept DEF Kept
<1>2. TypeOK'
  BY <1>1 DEF IInv, Kept, SwapFunctors, TypeOK
<1>3. ASSUME NEW k \in Loops PROVE All(k)' = All(k)
  <2>1. pendingFunctors_[k] \in Seq(Functors) /\ functors[k] \in Seq(Functors)
    BY DEF IInv, TypeOK
  <2>2. CASE k = l
    <3>1. functors[k] = << >>
      BY <2>2 DEF IInv, TypeOK, Kept, SwapFunctors
    <3>2. functors'[k] = pendingFunctors_[k] /\ pendingFunctors_'[k] = << >>
      BY <2>2 DEF IInv, TypeOK, Kept, SwapFunctors
    <3>3. \A q \in Seq(Functors) : q \o << >> = q /\ << >> \o q = q
      BY ConcatEmptySeq
    <3> QED BY <2>1, <3>1, <3>2, <3>3, Zenon DEF All
  <2>3. CASE k # l
    <3>1. functors'[k] = functors[k] /\ pendingFunctors_'[k] = pendingFunctors_[k]
      BY <2>3 DEF IInv, TypeOK, Kept, SwapFunctors
    <3> QED BY <3>1 DEF All
  <2> QED BY <2>2, <2>3
<1>4. Stays
  BY <1>3, TypedQueues, StayStep DEF IInv, Kept
<1>5. LoopsInv'
  <2>1. \A i \in 1..joined : pc'[loops_[i]] = "exited"
    BY DEF IInv, Kept, SwapFunctors, LoopsInv, TypeOK
  <2> QED BY <2>1 DEF IInv, Kept, SwapFunctors, LoopsInv
<1> QED BY <1>2, <1>4, <1>5, QuietStep DEF IInv, Kept, SwapFunctors

LEMMA BeginDestroyStep == IInv /\ Kept(BeginDestroy) => IInv'
<1> SUFFICES ASSUME IInv, Kept(BeginDestroy) PROVE IInv'
  OBVIOUS
<1>1. Loops' = Loops /\ Stays
  BY LoopsKept, LoopUnchanged DEF IInv, Kept, BeginDestroy, loop
<1>2. TypeOK' /\ NoAssertFails'
  BY <1>1 DEF IInv, Kept, BeginDestroy, loop, TypeOK, NoAssertFails
<1>3. LoopsInv'
  BY DEF IInv, Kept, BeginDestroy, loop, LoopsInv
<1>4. LifeInv'
  BY DEF IInv, Kept, BeginDestroy, loop, LifeInv, Serving
<1>5. EstablishedInv'
  BY <1>1 DEF IInv, QueueInv, Kept, BeginDestroy, loop, EstablishedInv, Stays, Same, Ops
<1>6. DestroyedInv'
  BY <1>1 DEF IInv, QueueInv, Kept, BeginDestroy, loop, DestroyedInv, DestroyedAt, Stays, Same, Ops,
              Live, Serving
<1>7. RemoveInv'
  BY <1>1 DEF IInv, QueueInv, Kept, BeginDestroy, loop, RemoveInv, Stays, Same, Ops, Serving
<1>8. UniqueInv'
  BY <1>1 DEF IInv, QueueInv, Kept, BeginDestroy, loop, UniqueInv, Stays, Same, Live
<1> QED BY <1>2, <1>3, <1>4, <1>5, <1>6, <1>7, <1>8 DEF IInv, QueueInv

LEMMA DestroyMembersStep == IInv /\ Kept(DestroyMembers) => IInv'
<1> SUFFICES ASSUME IInv, Kept(DestroyMembers) PROVE IInv'
  OBVIOUS
<1>1. Loops' = Loops /\ Stays
  BY LoopsKept, LoopUnchanged DEF IInv, Kept, DestroyMembers, loop
<1>2. TypeOK' /\ NoAssertFails'
  BY <1>1 DEF IInv, Kept, DestroyMembers, loop, TypeOK, NoAssertFails
<1>3. LoopsInv'
  BY DEF IInv, Kept, DestroyMembers, loop, LoopsInv
<1>4. LifeInv'
  BY DEF IInv, Kept, DestroyMembers, loop, LifeInv, Serving
<1>5. EstablishedInv'
  BY <1>1 DEF IInv, QueueInv, Kept, DestroyMembers, loop, EstablishedInv, Stays, Same, Ops
<1>6. DestroyedInv'
  BY <1>1 DEF IInv, QueueInv, Kept, DestroyMembers, loop, DestroyedInv, DestroyedAt, Stays,
              Same, Ops, Live, Serving
<1>7. RemoveInv'
  BY <1>1 DEF IInv, QueueInv, Kept, DestroyMembers, loop, RemoveInv, Stays, Same, Ops, Serving
<1>8. UniqueInv'
  BY <1>1 DEF IInv, QueueInv, Kept, DestroyMembers, loop, UniqueInv, Stays, Same, Live
<1> QED BY <1>2, <1>3, <1>4, <1>5, <1>6, <1>7, <1>8 DEF IInv, QueueInv

LEMMA EndDestroyStep == IInv /\ Kept(EndDestroy) => IInv'
<1> SUFFICES ASSUME IInv, Kept(EndDestroy) PROVE IInv'
  OBVIOUS
<1>1. Loops' = Loops /\ Stays
  BY LoopsKept, LoopUnchanged DEF IInv, Kept, EndDestroy, loop
<1>2. TypeOK' /\ NoAssertFails'
  BY <1>1 DEF IInv, Kept, EndDestroy, loop, TypeOK, NoAssertFails
<1>3. LoopsInv'
  BY DEF IInv, Kept, EndDestroy, loop, LoopsInv
<1>4. LifeInv'
  BY DEF IInv, Kept, EndDestroy, loop, LifeInv, Serving
<1>5. EstablishedInv'
  BY <1>1 DEF IInv, QueueInv, Kept, EndDestroy, loop, EstablishedInv, Stays, Same, Ops
<1>6. DestroyedInv'
  BY <1>1 DEF IInv, QueueInv, Kept, EndDestroy, loop, DestroyedInv, DestroyedAt, Stays, Same, Ops,
              Live, Serving
<1>7. RemoveInv'
  BY <1>1 DEF IInv, QueueInv, Kept, EndDestroy, loop, RemoveInv, Stays, Same, Ops, Serving
<1>8. UniqueInv'
  BY <1>1 DEF IInv, QueueInv, Kept, EndDestroy, loop, UniqueInv, Stays, Same, Live
<1> QED BY <1>2, <1>3, <1>4, <1>5, <1>6, <1>7, <1>8 DEF IInv, QueueInv

(* An accepted connection: no functor names it yet.                        *)
LEMMA NewConnectionStep ==
    ASSUME IInv, NEW c \in Conns, NEW l \in Loops, Kept(newConnection(c, l))
    PROVE  IInv'
<1>1. Loops' = Loops
  BY LoopsKept DEF Kept
<1>2. Len(loops_) \in Nat /\ next_' \in 0..Len(loops_) /\ (loops_ # <<>> => next_' < Len(loops_))
  <2>1. Len(loops_) \in Nat /\ (loops_ # <<>> => Len(loops_) >= 1)
    BY ServerAssumption, LenProperties, EmptySeq DEF IInv, LoopsInv
  <2> QED BY <2>1 DEF IInv, LoopsInv, TypeOK, Kept, newConnection, getNextLoop, AfterNext
<1>3. LoopsInv'
  BY <1>2 DEF IInv, Kept, newConnection, LoopsInv
<1>4. NoAssertFails'
  BY DEF IInv, Kept, newConnection, NoAssertFails
<1>5. server = "started" /\ server' = server /\ left' = left /\ connections_' = connections_ \cup {c}
      /\ conn[c].state = "none" /\ conn[c].channel = "new"
  BY DEF IInv, Kept, newConnection, LifeInv
<1>6. \A k \in Loops, op \in Ops : Pos(k, op, c) = {}
  <2> SUFFICES ASSUME NEW k \in Loops, NEW op \in Ops PROVE Pos(k, op, c) = {}
    OBVIOUS
  <2>1. Pos(k, "connectEstablished", c) = {}
    BY <1>5 DEF IInv, QueueInv, EstablishedInv
  <2>2. Pos(k, "connectDestroyed", c) = {}
    BY <1>5 DEF IInv, QueueInv, DestroyedInv, DestroyedAt
  <2>3. Pos(k, "removeConnectionInLoop", c) = {}
    BY <1>5 DEF IInv, QueueInv, RemoveInv
  <2> QED BY <2>1, <2>2, <2>3 DEF Ops
<1>7. CASE l = Base
  <2>1. Stays
    BY <1>7, LoopUnchanged DEF IInv, Kept, newConnection
  <2>2. conn' = [conn EXCEPT ![c] = [state |-> "kConnected", channel |-> "on", loop |-> Base]]
        /\ UNCHANGED pendingFunctors_
    BY <1>7 DEF Kept, newConnection
  <2>3. TypeOK'
    BY <1>1, <1>2, <2>2 DEF IInv, Kept, newConnection, TypeOK
  <2>4. LifeInv'
    BY <1>5, <2>2 DEF IInv, LifeInv, Serving, TypeOK
  <2>5. EstablishedInv'
    BY <1>1, <1>6, <2>1, <2>2 DEF IInv, QueueInv, EstablishedInv, Stays, Same, Ops, TypeOK
  <2>6. DestroyedInv'
    BY <1>1, <1>5, <1>6, <2>1, <2>2 DEF IInv, QueueInv, DestroyedInv, DestroyedAt, Stays, Same,
                                        Ops, TypeOK, Live, Serving
  <2>7. RemoveInv'
    BY <1>1, <1>5, <1>6, <2>1, <2>2 DEF IInv, QueueInv, RemoveInv, Stays, Same, Ops, TypeOK, Serving
  <2>8. UniqueInv'
    BY <1>1, <1>5, <2>1 DEF IInv, QueueInv, UniqueInv, Stays, Same, Live
  <2> QED BY <1>3, <1>4, <2>3, <2>4, <2>5, <2>6, <2>7, <2>8 DEF IInv, QueueInv
<1>8. CASE l # Base
  <2>1. Pushes(l, "connectEstablished", c) /\ QueuesTyped'
    BY <1>8, PushStep, TypedQueues DEF IInv, Kept, newConnection, Ops
  <2>2. conn' = [conn EXCEPT ![c] = [state |-> "kConnecting", channel |-> "new", loop |-> l]]
    BY <1>8 DEF Kept, newConnection
  <2>3. TypeOK'
    BY <1>1, <1>2, <2>1, <2>2 DEF IInv, Kept, newConnection, TypeOK, QueuesTyped
  <2>4. LifeInv'
    BY <1>5, <1>8, <2>2 DEF IInv, LifeInv, Serving, TypeOK
  <2>5. EstablishedInv'
    <3>1. Pos(l, "connectEstablished", c)' # {}
      BY <2>1 DEF Pushes, Gets, Ops
    <3>2. \A k \in Loops, d \in Conns : ~(k = l /\ d = c) =>
              Pos(k, "connectEstablished", d)' = Pos(k, "connectEstablished", d)
      BY <2>1 DEF Pushes, Same, Ops
    <3> QED BY <1>1, <1>6, <2>2, <3>1, <3>2 DEF IInv, QueueInv, EstablishedInv, Ops, TypeOK
  <2>6. DestroyedInv'
    BY <1>1, <1>5, <1>6, <2>1, <2>2 DEF IInv, QueueInv, DestroyedInv, DestroyedAt, Pushes, Same,
                                        Gets, Ops, TypeOK, Live, Serving
  <2>7. RemoveInv'
    BY <1>1, <1>5, <1>6, <2>1, <2>2 DEF IInv, QueueInv, RemoveInv, Pushes, Same, Ops, TypeOK,
                                        Serving
  <2>8. UniqueInv'
    BY <1>1, <1>5, <1>6, <2>1 DEF IInv, QueueInv, UniqueInv, Pushes, Same, Gets, Live
  <2> QED BY <1>3, <1>4, <2>3, <2>4, <2>5, <2>6, <2>7, <2>8 DEF IInv, QueueInv
<1> QED BY <1>7, <1>8

(* A closing connection: nothing is queued for it yet that the new functor *)
(* could meet.                                                             *)
LEMMA HandleCloseStep ==
    ASSUME IInv, NEW c \in Conns, Kept(handleClose(c))
    PROVE  IInv'
<1> DEFINE l == conn[c].loop
<1>1. Loops' = Loops /\ l \in Loops /\ Base \in Loops
  BY LoopsKept DEF Kept, IInv, TypeOK, Loops
<1>2. LoopsInv'
  BY DEF IInv, Kept, handleClose, LoopsInv
<1>3. /\ server' = server /\ left' = left /\ conn[c].channel = "on" /\ conn[c].state = "kConnected"
      /\ conn' = [conn EXCEPT ![c].state = "kDisconnected", ![c].channel = "off"]
      /\ Serving => c \in connections_
  BY DEF IInv, Kept, handleClose, LifeInv
<1>4. /\ conn'[c].state = "kDisconnected" /\ conn'[c].channel = "off" /\ conn'[c].loop = l
      /\ \A d \in Conns : d # c => conn'[d] = conn[d]
      /\ conn' \in [Conns -> [state : {"none", "kConnecting", "kConnected", "kDisconnected"},
                              channel : {"new", "on", "off", "removed"}, loop : Loops]]
  BY <1>1, <1>3, ZenonT(60) DEF IInv, TypeOK
<1>5. \A k \in Loops : /\ Pos(k, "connectEstablished", c) = {}
                       /\ Pos(k, "removeConnectionInLoop", c) = {}
                       /\ Pos(Base, "connectDestroyed", c) = {}
  BY <1>1, <1>3 DEF IInv, QueueInv, EstablishedInv, RemoveInv, DestroyedInv, DestroyedAt, Live
<1>6. CASE l = Base
  <2>1. /\ connections_' = connections_ \ {c}
        /\ aborted' = aborted \cup (CASE server = "gone" -> {"use of TcpServer"}
                                      [] c \in connections_ -> {}
                                      [] OTHER -> {"assert n == 1"})
        /\ server \notin {"destroying", "stopping"}
    BY <1>6 DEF Kept, handleClose, Erase, Running
  <2>2. Serving \/ server = "gone"
    BY <2>1 DEF IInv, TypeOK, Serving
  <2>3. left = {}
    BY <2>1 DEF IInv, LoopsInv
  <2>4. connections_' = connections_ \ {c} /\ server' = server /\ left' = left
    BY <1>3, <2>1
  <2>5. NoAssertFails'
    BY <1>3, <2>1, <2>2 DEF IInv, NoAssertFails, Serving
  <2>6. Pushes(Base, "connectDestroyed", c) /\ QueuesTyped'
    BY <1>1, <1>6, PushStep, TypedQueues DEF IInv, Kept, handleClose, DestroyedIn, Ops
  <2>7. TypeOK'
    BY <1>1, <1>3, <1>4, <2>1, <2>3, <2>6, ZenonT(60)
       DEF IInv, Kept, handleClose, TypeOK, QueuesTyped
  <2>8. LifeInv'
    BY <1>3, <1>4, <2>1, <2>3 DEF IInv, LifeInv, Serving
  <2>9. EstablishedInv'
    BY <1>1, <1>4, <1>5, <2>6 DEF IInv, QueueInv, EstablishedInv, Pushes, Same, Ops
  <2>10. DestroyedInv'
    <3>1. \A k \in Loops, d \in Conns : /\ Same(k, "connectEstablished", d)
                                        /\ ~(k = Base /\ d = c) => Same(k, "connectDestroyed", d)
      BY <2>6 DEF Pushes, Ops
    <3>2. ASSUME NEW k \in Loops, NEW d \in Conns, d # c PROVE
            \A i \in Pos(k, "connectDestroyed", d)' : DestroyedAt(k, d, i)'
      BY <1>1, <1>4, <2>4, <3>1, <3>2
      DEF IInv, QueueInv, DestroyedInv, DestroyedAt, Same, Live, Serving
    <3>3. ASSUME NEW k \in Loops PROVE
            \A i \in Pos(k, "connectDestroyed", c)' : DestroyedAt(k, c, i)'
      <4>1. k # Base => Pos(k, "connectDestroyed", c)' = {}
        BY <1>6, <3>1 DEF IInv, QueueInv, DestroyedInv, DestroyedAt, Same
      <4> QED BY <1>3, <1>4, <1>6, <2>1, <2>3, <4>1 DEF DestroyedAt, Live, Serving
    <3> QED BY <1>1, <3>2, <3>3 DEF DestroyedInv
  <2>11. RemoveInv'
    <3>1. \A k \in Loops, d \in Conns : Same(k, "removeConnectionInLoop", d)
      BY <2>6 DEF Pushes, Ops
    <3> QED BY <1>1, <1>4, <1>5, <2>4, <3>1
        DEF IInv, QueueInv, RemoveInv, Same, Serving
  <2>12. UniqueInv'
    BY <1>1, <1>3, <1>5, <2>6 DEF IInv, QueueInv, UniqueInv, Pushes, Same, Gets, Live
  <2> QED BY <1>2, <2>5, <2>7, <2>8, <2>9, <2>10, <2>11, <2>12 DEF IInv, QueueInv
<1>7. CASE l # Base
  <2>1. connections_' = connections_ /\ aborted' = aborted
    BY <1>7 DEF Kept, handleClose
  <2>2. NoAssertFails'
    BY <2>1 DEF IInv, NoAssertFails
  <2>3. Pushes(Base, "removeConnectionInLoop", c) /\ QueuesTyped'
    BY <1>1, <1>7, PushStep, TypedQueues DEF IInv, Kept, handleClose, Ops
  <2>4. TypeOK'
    BY <1>1, <1>3, <1>4, <2>1, <2>3 DEF IInv, Kept, handleClose, TypeOK, QueuesTyped
  <2>5. LifeInv'
    BY <1>3, <1>4, <1>7, <2>1 DEF IInv, LifeInv, Serving
  <2>6. EstablishedInv'
    BY <1>1, <1>4, <1>5, <2>3 DEF IInv, QueueInv, EstablishedInv, Pushes, Same, Ops
  <2>7. DestroyedInv'
    BY <1>1, <1>3, <1>4, <1>5, <1>7, <2>1, <2>3
    DEF IInv, QueueInv, DestroyedInv, DestroyedAt, Pushes, Same, Ops, Live, Serving
  <2>8. RemoveInv'
    BY <1>1, <1>3, <1>4, <1>5, <1>7, <2>1, <2>3
    DEF IInv, QueueInv, RemoveInv, Pushes, Same, Gets, Ops, Serving
  <2>9. UniqueInv'
    BY <1>1, <1>3, <1>5, <2>3 DEF IInv, QueueInv, UniqueInv, Pushes, Same, Gets, Live
  <2> QED BY <1>2, <2>2, <2>4, <2>5, <2>6, <2>7, <2>8, <2>9 DEF IInv, QueueInv
<1> QED BY <1>6, <1>7

(* A connection that the destructor has yet to hand out has no             *)
(* connectDestroyed queued.                                                *)
LEMMA DestroyOneStep ==
    ASSUME IInv, NEW c \in Conns, Kept(DestroyOne(c))
    PROVE  IInv'
<1> DEFINE l == conn[c].loop
<1>1. Loops' = Loops /\ l \in Loops /\ Base \in Loops
  BY LoopsKept DEF Kept, IInv, TypeOK, Loops
<1>2. /\ server = "destroying" /\ server' = server /\ left' = left \ {c} /\ c \in left
      /\ connections_' = connections_ /\ c \in connections_ /\ conn[c].state # "none"
      /\ conn[c].channel # "removed" /\ (l = Base => conn[c].channel = "on")
  BY DEF IInv, Kept, DestroyOne, LifeInv, TypeOK
<1>3. LoopsInv'
  BY <1>2 DEF IInv, Kept, DestroyOne, LoopsInv
<1>4. Pos(l, "connectDestroyed", c) = {}
  BY <1>1, <1>2 DEF IInv, QueueInv, DestroyedInv, DestroyedAt, Live
<1>5. CASE l = Base
  <2>1. conn[c].state = "kConnected"
    BY <1>2, <1>5 DEF IInv, LifeInv
  <2>2. /\ conn' = [conn EXCEPT ![c].channel = "removed",
                                ![c].state = IF @ = "kConnected" THEN "kDisconnected" ELSE @]
        /\ aborted' = aborted /\ UNCHANGED pendingFunctors_
    BY <1>2, <1>5, <2>1 DEF Kept, DestroyOne, connectDestroyed
  <2>3. /\ conn'[c].state = "kDisconnected" /\ conn'[c].channel = "removed" /\ conn'[c].loop = l
        /\ \A d \in Conns : d # c => conn'[d] = conn[d]
        /\ conn' \in [Conns -> [state : {"none", "kConnecting", "kConnected", "kDisconnected"},
                                channel : {"new", "on", "off", "removed"}, loop : Loops]]
    BY <1>1, <2>1, <2>2, ZenonT(60) DEF IInv, TypeOK
  <2>4. NoAssertFails'
    BY <2>2 DEF IInv, NoAssertFails
  <2>5. Stays
    BY <2>2, LoopUnchanged DEF IInv, Kept, DestroyOne
  <2>6. TypeOK'
    BY <1>1, <1>2, <2>2, <2>3 DEF IInv, Kept, DestroyOne, TypeOK
  <2>7. LifeInv'
    BY <1>2, <2>3 DEF IInv, LifeInv, Serving
  <2>8. EstablishedInv'
    BY <1>1, <2>1, <2>3, <2>5 DEF IInv, QueueInv, EstablishedInv, Stays, Same, Ops
  <2>9. DestroyedInv'
    BY <1>1, <1>2, <1>4, <2>3, <2>5
    DEF IInv, QueueInv, DestroyedInv, DestroyedAt, Stays, Same, Ops, Live, Serving
  <2>10. RemoveInv'
    BY <1>1, <1>2, <1>5, <2>3, <2>5 DEF IInv, QueueInv, RemoveInv, Stays, Same, Ops, Serving
  <2>11. UniqueInv'
    BY <1>1, <1>2, <2>5 DEF IInv, QueueInv, UniqueInv, Stays, Same, Live
  <2> QED BY <1>3, <2>4, <2>6, <2>7, <2>8, <2>9, <2>10, <2>11 DEF IInv, QueueInv
<1>6. CASE l # Base
  <2>1. conn' = conn /\ aborted' = aborted
    BY <1>6 DEF Kept, DestroyOne
  <2>2. NoAssertFails'
    BY <2>1 DEF IInv, NoAssertFails
  <2>3. Pushes(l, "connectDestroyed", c) /\ QueuesTyped'
    BY <1>1, <1>6, PushStep, TypedQueues DEF IInv, Kept, DestroyOne, Ops
  <2>4. TypeOK'
    BY <1>1, <1>2, <2>1, <2>3 DEF IInv, Kept, DestroyOne, TypeOK, QueuesTyped
  <2>5. LifeInv'
    BY <1>2, <2>1 DEF IInv, LifeInv, Serving
  <2>6. EstablishedInv'
    BY <1>1, <2>1, <2>3 DEF IInv, QueueInv, EstablishedInv, Pushes, Same, Ops
  <2>7. DestroyedInv'
    BY <1>1, <1>2, <1>4, <1>6, <2>1, <2>3
    DEF IInv, QueueInv, DestroyedInv, DestroyedAt, EstablishedInv, Pushes, Same, Gets, Ops,
        Live, Serving
  <2>8. RemoveInv'
    BY <1>1, <1>2, <2>1, <2>3 DEF IInv, QueueInv, RemoveInv, Pushes, Same, Ops, Serving
  <2>9. UniqueInv'
    BY <1>1, <1>2, <1>4, <2>3 DEF IInv, QueueInv, UniqueInv, Pushes, Same, Gets, Live
  <2> QED BY <1>3, <2>2, <2>4, <2>5, <2>6, <2>7, <2>8, <2>9 DEF IInv, QueueInv
<1> QED BY <1>5, <1>6

(* The first functor of l is op0 for c0, and a step takes it.              *)
First(l, op0, c0) ==
    /\ 1 \in Pos(l, op0, c0)
    /\ \A op \in Ops, c \in Conns : 1 \in Pos(l, op, c) => op = op0 /\ c = c0

(* The functor that a loop runs is the first of those it has, and a        *)
(* position holds one functor.                                             *)
LEMMA FirstFunctor ==
    ASSUME QueuesTyped, NEW l \in Loops, functors[l] # <<>>
    PROVE  \E op \in Ops, c \in Conns :
              Head(functors[l]) = Functor(op, c) /\ First(l, op, c)
<1>1. functors[l] \in Seq(Functors) /\ pendingFunctors_[l] \in Seq(Functors)
  BY DEF QueuesTyped
<1>2. Head(functors[l]) \in Functors
  BY <1>1, HeadTailProperties
<1>3. PICK op \in Ops, c \in Conns : Head(functors[l]) = Functor(op, c)
  BY <1>2 DEF Functors, Functor, Ops
<1>4. Head(All(l)) = Head(functors[l]) /\ All(l) # <<>>
  BY <1>1, PopSeq DEF All
<1>5. All(l) \in Seq(Functors)
  BY AllSeq
<1>6. All(l)[1] = Functor(op, c) /\ 1 \in 1..Len(All(l))
  <2> DEFINE q == All(l)
  <2>1. q \in Seq(Functors) /\ q # <<>> /\ Head(q) = Functor(op, c)
    BY <1>3, <1>4, <1>5
  <2> HIDE DEF q
  <2>2. Len(q) \in Nat /\ Len(q) # 0
    BY <2>1, LenProperties, EmptySeq
  <2> QED BY <2>1, <2>2 DEF q
<1>7. 1 \in Pos(l, op, c)
  BY <1>6 DEF Pos
<1>8. \A o \in Ops, d \in Conns : 1 \in Pos(l, o, d) => o = op /\ d = c
  BY <1>6, FunctorFacts DEF Pos
<1> QED BY <1>3, <1>7, <1>8 DEF First

LEMMA TakenFacts ==
    ASSUME QueuesTyped, QueuesTyped', UNCHANGED loops_, NEW l \in Loops, NEW op0 \in Ops,
           NEW c0 \in Conns, First(l, op0, c0),
           \A op \in Ops, c \in Conns : Shifts(l, op, c)
    PROVE  \A op \in Ops, c \in Conns :
              /\ Pos(l, op, c)' # {} => Pos(l, op, c) # {}
              /\ ~(op = op0 /\ c = c0) /\ Pos(l, op, c) # {} => Pos(l, op, c)' # {}
              /\ (\A i, j \in Pos(l, op, c) : i = j) =>
                    /\ \A i, j \in Pos(l, op, c)' : i = j
                    /\ op = op0 /\ c = c0 => Pos(l, op, c)' = {}
              /\ \A i \in Pos(l, op, c)' :
                    /\ i + 1 \in Pos(l, op, c)
                    /\ \A o \in Ops : ~(o = op0 /\ c = c0) =>
                          ((\E j \in Pos(l, o, c) : j < i + 1) =>
                               \E j \in Pos(l, o, c)' : j < i)
<1> SUFFICES ASSUME NEW op \in Ops, NEW c \in Conns
             PROVE  /\ Pos(l, op, c)' # {} => Pos(l, op, c) # {}
                    /\ ~(op = op0 /\ c = c0) /\ Pos(l, op, c) # {} => Pos(l, op, c)' # {}
                    /\ (\A i, j \in Pos(l, op, c) : i = j) =>
                          /\ \A i, j \in Pos(l, op, c)' : i = j
                          /\ op = op0 /\ c = c0 => Pos(l, op, c)' = {}
                    /\ \A i \in Pos(l, op, c)' :
                          /\ i + 1 \in Pos(l, op, c)
                          /\ \A o \in Ops : ~(o = op0 /\ c = c0) =>
                                ((\E j \in Pos(l, o, c) : j < i + 1) =>
                                     \E j \in Pos(l, o, c)' : j < i)
  OBVIOUS
<1>1. Loops' = Loops
  BY LoopsKept
<1>2. \A o \in Ops : Pos(l, o, c)' \subseteq Nat \ {0} /\ Pos(l, o, c) \subseteq Nat \ {0}
  <2>1. Len(All(l)) \in Nat /\ Len(All(l))' \in Nat
    BY <1>1, AllSeq, AllSeqNext
  <2> QED BY <2>1 DEF Pos
<1>3. Pos(l, op, c)' # {} => Pos(l, op, c) # {}
  BY DEF Shifts
<1>4. ~(op = op0 /\ c = c0) /\ Pos(l, op, c) # {} => Pos(l, op, c)' # {}
  BY DEF Shifts, First
<1>5. ASSUME \A i, j \in Pos(l, op, c) : i = j
      PROVE  /\ \A i, j \in Pos(l, op, c)' : i = j
             /\ op = op0 /\ c = c0 => Pos(l, op, c)' = {}
  <2>1. \A i, j \in Pos(l, op, c)' : i = j
    BY <1>2, <1>5 DEF Shifts
  <2>2. op = op0 /\ c = c0 => Pos(l, op, c)' = {}
    BY <1>2, <1>5 DEF Shifts, First
  <2> QED BY <2>1, <2>2
<1>6. ASSUME NEW i \in Pos(l, op, c)', NEW o \in Ops, ~(o = op0 /\ c = c0),
             NEW j \in Pos(l, o, c), j < i + 1
      PROVE  \E m \in Pos(l, o, c)' : m < i
  <2>1. j # 1
    BY <1>6 DEF First
  <2>2. j - 1 \in Pos(l, o, c)'
    BY <2>1 DEF Shifts
  <2>3. j - 1 < i
    BY <1>2, <1>6
  <2> QED BY <2>2, <2>3
<1>7. \A i \in Pos(l, op, c)' : i + 1 \in Pos(l, op, c)
  BY DEF Shifts
<1> QED BY <1>3, <1>4, <1>5, <1>6, <1>7

(* Only c moves on, as ConnectionLife lets it.                             *)
Lives(c) ==
    /\ \A d \in Conns : d # c => conn'[d] = conn[d]
    /\ <<Phase(c), Phase(c)'>> \in
          {<<"none", "connecting">>, <<"none", "up">>, <<"connecting", "up">>,
           <<"up", "down">>, <<"down", "destroyed">>, <<"up", "destroyed">>}

LEMMA RunEstablished ==
    ASSUME IInv, NEW l \in Loops, NEW c \in Conns, Pops(l), QueuesTyped', UNCHANGED loops_,
           First(l, "connectEstablished", c),
           connectEstablished(c), UNCHANGED <<server, connections_, left>>
    PROVE  NoAssertFails' /\ LifeInv' /\ QueueInv' /\ Lives(c)
<1> DEFINE E == "connectEstablished"
           D == "connectDestroyed"
           R == "removeConnectionInLoop"
<1>1. Loops' = Loops /\ QueuesTyped /\ E \in Ops /\ D \in Ops /\ R \in Ops
  BY LoopsKept, TypedQueues DEF IInv, Ops
<1>2. conn[c].loop = l /\ conn[c].state = "kConnecting" /\ conn[c].channel = "new" /\ l # Base
  BY DEF IInv, QueueInv, EstablishedInv, LifeInv, First
<1>3. /\ conn'[c].state = "kConnected" /\ conn'[c].channel = "on" /\ conn'[c].loop = l
      /\ \A d \in Conns : d # c => conn'[d] = conn[d]
  BY <1>2 DEF IInv, TypeOK, connectEstablished
<1>4. NoAssertFails'
  BY <1>2 DEF IInv, NoAssertFails, connectEstablished
<1>5. LifeInv'
  BY <1>2, <1>3 DEF IInv, LifeInv, Serving
<1>6. \A op \in Ops, d \in Conns : Shifts(l, op, d)
  BY DEF Pops
<1>7. \A k \in Loops, op \in Ops, d \in Conns : k # l => Pos(k, op, d)' = Pos(k, op, d)
  BY DEF Pops, Same
<1>8. UniqueInv'
  <2>1. ASSUME NEW k \in Loops, NEW op \in Ops, NEW d \in Conns,
               Live(k) \/ op # "connectDestroyed", NEW i \in Pos(k, op, d)', NEW j \in Pos(k, op, d)'
        PROVE  i = j
    <3>1. \A m, n \in Pos(k, op, d) : m = n
      BY <2>1 DEF IInv, QueueInv, UniqueInv
    <3>2. CASE k = l
      BY <1>1, <1>6, <2>1, <3>1, <3>2, TakenFacts
    <3> QED BY <1>7, <2>1, <3>1, <3>2
  <2> QED BY <1>1, <2>1 DEF UniqueInv, Live
<1>9. Pos(l, E, c)' = {}
  <2>1. \A i, j \in Pos(l, E, c) : i = j
    BY <1>1 DEF IInv, QueueInv, UniqueInv
  <2> QED BY <1>1, <1>6, <2>1, TakenFacts
<1>10. EstablishedInv'
  <2>1. \A k \in Loops, d \in Conns : ~(k = l /\ d = c) => (Pos(k, E, d)' # {} <=> Pos(k, E, d) # {})
    BY <1>1, <1>6, <1>7, TakenFacts
  <2> QED BY <1>1, <1>2, <1>3, <1>9, <2>1 DEF IInv, QueueInv, EstablishedInv
<1>11. RemoveInv'
  <2>1. \A k \in Loops, d \in Conns : Pos(k, R, d)' # {} => Pos(k, R, d) # {}
    BY <1>1, <1>6, <1>7, TakenFacts
  <2>2. \A k \in Loops : Pos(k, R, c) = {}
    BY <1>2 DEF IInv, QueueInv, RemoveInv
  <2> QED BY <1>1, <1>3, <2>1, <2>2 DEF IInv, QueueInv, RemoveInv, Serving
<1>12. DestroyedInv'
  <2>1. ASSUME NEW k \in Loops, NEW d \in Conns, NEW i \in Pos(k, D, d)'
        PROVE  DestroyedAt(k, d, i)'
    <3>1. CASE k # l
      <4>1. DestroyedAt(k, d, i) /\ Pos(k, E, d)' = Pos(k, E, d)
        BY <1>1, <1>7, <2>1, <3>1 DEF IInv, QueueInv, DestroyedInv
      <4> QED BY <1>2, <1>3, <3>1, <4>1 DEF DestroyedAt, Live, Serving
    <3>2. CASE k = l
      <4>1. i + 1 \in Pos(l, D, d)
        BY <1>1, <1>6, <2>1, <3>2, TakenFacts
      <4>2. DestroyedAt(l, d, i + 1)
        BY <4>1 DEF IInv, QueueInv, DestroyedInv
      <4>3. d # c => ((\E j \in Pos(l, E, d) : j < i + 1) => \E j \in Pos(l, E, d)' : j < i)
        BY <1>1, <1>6, <2>1, <3>2, TakenFacts
      <4> QED BY <1>2, <1>3, <3>2, <4>2, <4>3 DEF DestroyedAt, Live, Serving
    <3> QED BY <3>1, <3>2
  <2> QED BY <1>1, <2>1 DEF DestroyedInv
<1>13. Lives(c)
  BY <1>2, <1>3 DEF Lives, Phase
<1> QED BY <1>4, <1>5, <1>8, <1>10, <1>11, <1>12, <1>13 DEF QueueInv

(* The functor is in a live loop and behind the one that sets the          *)
(* connection up, so its channel is still in the poller; it is the only    *)
(* one of its kind.                                                        *)
LEMMA RunDestroyed ==
    ASSUME IInv, NEW l \in Loops, Live(l), NEW c \in Conns, Pops(l), QueuesTyped',
           UNCHANGED loops_, First(l, "connectDestroyed", c),
           connectDestroyed(c), UNCHANGED <<server, connections_, left>>
    PROVE  NoAssertFails' /\ LifeInv' /\ QueueInv' /\ Lives(c)
<1> DEFINE E == "connectEstablished"
           D == "connectDestroyed"
           R == "removeConnectionInLoop"
<1>1. Loops' = Loops /\ QueuesTyped /\ E \in Ops /\ D \in Ops /\ R \in Ops
  BY LoopsKept, TypedQueues DEF IInv, Ops
<1>2. DestroyedAt(l, c, 1)
  BY DEF IInv, QueueInv, DestroyedInv, First
<1>3. conn[c].state # "kConnecting"
  <2>1. \A j \in Pos(l, E, c) : ~(j < 1)
    BY <1>1, PosFacts
  <2> QED BY <1>2, <2>1 DEF DestroyedAt
<1>4. /\ conn[c].loop = l /\ conn[c].state \in {"kConnected", "kDisconnected"}
      /\ conn[c].channel \in {"on", "off"} /\ c \notin left
      /\ ~(Serving /\ c \in connections_)
  BY <1>2, <1>3 DEF DestroyedAt, IInv, LifeInv
<1>5. /\ conn'[c].state = "kDisconnected" /\ conn'[c].channel = "removed" /\ conn'[c].loop = l
      /\ \A d \in Conns : d # c => conn'[d] = conn[d]
  BY <1>4 DEF IInv, TypeOK, connectDestroyed
<1>6. NoAssertFails'
  BY <1>4 DEF IInv, NoAssertFails, connectDestroyed
<1>7. LifeInv'
  BY <1>4, <1>5 DEF IInv, LifeInv, Serving
<1>8. \A op \in Ops, d \in Conns : Shifts(l, op, d)
  BY DEF Pops
<1>9. \A k \in Loops, op \in Ops, d \in Conns : k # l => Pos(k, op, d)' = Pos(k, op, d)
  BY DEF Pops, Same
<1>10. UniqueInv'
  <2>1. ASSUME NEW k \in Loops, NEW op \in Ops, NEW d \in Conns,
               Live(k) \/ op # "connectDestroyed", NEW i \in Pos(k, op, d)', NEW j \in Pos(k, op, d)'
        PROVE  i = j
    <3>1. \A m, n \in Pos(k, op, d) : m = n
      BY <2>1 DEF IInv, QueueInv, UniqueInv
    <3>2. CASE k = l
      BY <1>1, <1>8, <2>1, <3>1, <3>2, TakenFacts
    <3> QED BY <1>9, <2>1, <3>1, <3>2
  <2> QED BY <1>1, <2>1 DEF UniqueInv, Live
<1>11. Pos(l, D, c)' = {}
  <2>1. \A i, j \in Pos(l, D, c) : i = j
    BY <1>1 DEF IInv, QueueInv, UniqueInv
  <2> QED BY <1>1, <1>8, <2>1, TakenFacts
<1>12. EstablishedInv'
  <2>1. \A k \in Loops, d \in Conns : Pos(k, E, d)' # {} <=> Pos(k, E, d) # {}
    BY <1>1, <1>8, <1>9, TakenFacts
  <2> QED BY <1>1, <1>4, <1>5, <2>1 DEF IInv, QueueInv, EstablishedInv
<1>13. RemoveInv'
  <2>1. \A k \in Loops, d \in Conns : Pos(k, R, d)' # {} => Pos(k, R, d) # {}
    BY <1>1, <1>8, <1>9, TakenFacts
  <2>2. \A k \in Loops : Serving => Pos(k, R, c) = {}
    BY <1>4 DEF IInv, QueueInv, RemoveInv
  <2> QED BY <1>1, <1>4, <1>5, <2>1, <2>2 DEF IInv, QueueInv, RemoveInv, Serving
<1>14. DestroyedInv'
  <2>1. ASSUME NEW k \in Loops, NEW d \in Conns, NEW i \in Pos(k, D, d)'
        PROVE  DestroyedAt(k, d, i)'
    <3>1. CASE k # l
      <4>1. DestroyedAt(k, d, i) /\ Pos(k, E, d)' = Pos(k, E, d)
        BY <1>1, <1>9, <2>1, <3>1 DEF IInv, QueueInv, DestroyedInv
      <4> QED BY <1>4, <1>5, <3>1, <4>1 DEF DestroyedAt, Live, Serving
    <3>2. CASE k = l
      <4>1. i + 1 \in Pos(l, D, d)
        BY <1>1, <1>8, <2>1, <3>2, TakenFacts
      <4>2. DestroyedAt(l, d, i + 1) /\ d # c
        BY <1>11, <2>1, <3>2, <4>1 DEF IInv, QueueInv, DestroyedInv
      <4>3. (\E j \in Pos(l, E, d) : j < i + 1) => \E j \in Pos(l, E, d)' : j < i
        BY <1>1, <1>8, <2>1, <3>2, TakenFacts
      <4> QED BY <1>5, <3>2, <4>2, <4>3 DEF DestroyedAt, Live, Serving
    <3> QED BY <3>1, <3>2
  <2> QED BY <1>1, <2>1 DEF DestroyedInv
<1>15. Lives(c)
  BY <1>4, <1>5 DEF Lives, Phase
<1> QED BY <1>6, <1>7, <1>10, <1>12, <1>13, <1>14, <1>15 DEF QueueInv

(* While the server serves, the connection is in its map and has no        *)
(* connectDestroyed queued; once it is gone the pool's loops have returned *)
(* and what is queued in them does not run.                                *)
LEMMA RunRemove ==
    ASSUME IInv, NEW l \in Loops, Running(l), NEW c \in Conns, UNCHANGED loops_,
           functors[l] # <<>>, functors' = [functors EXCEPT ![l] = Tail(@)],
           First(l, "removeConnectionInLoop", c), Erase(c),
           queueInLoop(DestroyedIn(c), Functor("connectDestroyed", c)),
           UNCHANGED <<conn, server, left>>
    PROVE  NoAssertFails' /\ LifeInv' /\ QueueInv' /\ QueuesTyped' /\ left = {}
<1> DEFINE E == "connectEstablished"
           D == "connectDestroyed"
           R == "removeConnectionInLoop"
           k == conn[c].loop
<1>1. Loops' = Loops /\ QueuesTyped /\ E \in Ops /\ D \in Ops /\ R \in Ops /\ k \in Loops
  BY LoopsKept, TypedQueues DEF IInv, Ops, TypeOK
<1>2. /\ l = Base /\ k # Base /\ conn[c].channel \in {"off", "removed"}
      /\ Serving => c \in connections_ /\ conn[c].channel = "off"
  BY DEF IInv, QueueInv, RemoveInv, First
<1>3. (Serving \/ server = "gone") /\ left = {}
  BY <1>2 DEF IInv, TypeOK, Running, Serving, LoopsInv
<1>4. conn[c].state = "kDisconnected"
  BY <1>2 DEF IInv, LifeInv
<1>5. connections_' = connections_ \ {c} /\ server' = server /\ left' = left /\ conn' = conn
  BY DEF Erase
<1>6. NoAssertFails'
  BY <1>2, <1>3 DEF IInv, NoAssertFails, Erase, Serving
<1>7. LifeInv'
  BY <1>3, <1>4, <1>5 DEF IInv, LifeInv, Serving
<1>8. PopsAndPushes(Base, k, D, c) /\ QueuesTyped'
  BY <1>1, <1>2, PopPushStep DEF DestroyedIn
<1>9. \A op \in Ops, d \in Conns : Shifts(Base, op, d)
  BY <1>1, <1>2, <1>8 DEF PopsAndPushes
<1>10. \A j \in Loops, op \in Ops, d \in Conns :
          j # Base /\ ~(j = k /\ op = D /\ d = c) => Pos(j, op, d)' = Pos(j, op, d)
  BY <1>8 DEF PopsAndPushes, Same
<1>11. Gets(k, D, c)
  BY <1>1, <1>2, <1>8 DEF PopsAndPushes
<1>12. First(Base, R, c)
  BY <1>2
<1>13. Pos(Base, D, c) = {} /\ (Serving => Pos(k, D, c) = {})
  <2>1. Pos(Base, D, c) = {}
    BY <1>1, <1>2 DEF IInv, QueueInv, DestroyedInv, DestroyedAt
  <2>2. Serving => Pos(k, D, c) = {}
    BY <1>1, <1>2 DEF IInv, QueueInv, DestroyedInv, DestroyedAt, Live, Serving
  <2> QED BY <2>1, <2>2
<1>14. UniqueInv'
  <2>1. ASSUME NEW j \in Loops, NEW op \in Ops, NEW d \in Conns,
               Live(j) \/ op # "connectDestroyed", NEW m \in Pos(j, op, d)', NEW n \in Pos(j, op, d)'
        PROVE  m = n
    <3>1. \A x, y \in Pos(j, op, d) : x = y
      BY <2>1 DEF IInv, QueueInv, UniqueInv
    <3>2. CASE j = Base
      BY <1>1, <1>2, <1>9, <1>12, <2>1, <3>1, <3>2, TakenFacts, <1>8
    <3>3. CASE j = k /\ op = D /\ d = c
      <4>1. Pos(k, D, c) = {}
        BY <1>2, <1>3, <1>13, <2>1, <3>3 DEF Live
      <4> QED BY <1>11, <2>1, <3>3, <4>1 DEF Gets
    <3>4. CASE j # Base /\ ~(j = k /\ op = D /\ d = c)
      BY <1>10, <2>1, <3>1, <3>4
    <3> QED BY <3>2, <3>3, <3>4
  <2> QED BY <1>1, <1>5, <2>1 DEF UniqueInv, Live
<1>15. EstablishedInv'
  <2>1. \A j \in Loops, d \in Conns : Pos(j, E, d)' # {} <=> Pos(j, E, d) # {}
    BY <1>1, <1>2, <1>8, <1>9, <1>10, <1>12, TakenFacts
  <2> QED BY <1>1, <1>5, <2>1 DEF IInv, QueueInv, EstablishedInv
<1>16. RemoveInv'
  <2>1. \A j \in Loops, d \in Conns : Pos(j, R, d)' # {} => Pos(j, R, d) # {}
    BY <1>1, <1>2, <1>8, <1>9, <1>10, <1>12, TakenFacts
  <2>2. Pos(Base, R, c)' = {}
    <3>1. \A i, j \in Pos(Base, R, c) : i = j
      BY <1>1, <1>2 DEF IInv, QueueInv, UniqueInv
    <3> QED BY <1>1, <1>2, <1>8, <1>9, <1>12, <3>1, TakenFacts
  <2> QED BY <1>1, <1>2, <1>5, <2>1, <2>2 DEF IInv, QueueInv, RemoveInv, Serving
<1>17. DestroyedInv'
  <2>1. ASSUME NEW j \in Loops, NEW d \in Conns, NEW i \in Pos(j, D, d)'
        PROVE  DestroyedAt(j, d, i)'
    <3>1. CASE j = Base
      <4>1. i + 1 \in Pos(Base, D, d)
        BY <1>1, <1>2, <1>8, <1>9, <1>12, <2>1, <3>1, TakenFacts
      <4>2. DestroyedAt(Base, d, i + 1)
        BY <1>1, <1>2, <4>1 DEF IInv, QueueInv, DestroyedInv
      <4>3. (\E m \in Pos(Base, E, d) : m < i + 1) => \E m \in Pos(Base, E, d)' : m < i
        BY <1>1, <1>2, <1>8, <1>9, <1>12, <2>1, <3>1, TakenFacts
      <4> QED BY <1>5, <3>1, <4>2, <4>3 DEF DestroyedAt, Live, Serving
    <3>2. CASE j = k /\ d = c
      BY <1>2, <1>3, <1>4, <1>5, <3>2 DEF DestroyedAt, Live, Serving
    <3>3. CASE j # Base /\ ~(j = k /\ d = c)
      <4>1. DestroyedAt(j, d, i) /\ Pos(j, E, d)' = Pos(j, E, d)
        BY <1>1, <1>10, <2>1, <3>3 DEF IInv, QueueInv, DestroyedInv
      <4> QED BY <1>5, <4>1 DEF DestroyedAt, Live, Serving
    <3> QED BY <3>1, <3>2, <3>3
  <2> QED BY <1>1, <2>1 DEF DestroyedInv
<1> QED BY <1>3, <1>6, <1>7, <1>8, <1>14, <1>15, <1>16, <1>17 DEF QueueInv

LEMMA RunFunctorStep ==
    ASSUME IInv, NEW l \in Loops, Kept(RunFunctor(l))
    PROVE  IInv' /\ (conn' = conn \/ \E c \in Conns : Lives(c))
<1>1. Loops' = Loops /\ QueuesTyped
  BY LoopsKept, TypedQueues DEF Kept, IInv
<1>2. /\ Running(l) /\ pc[l] = "run" /\ functors[l] # <<>> /\ UNCHANGED loops_
      /\ functors' = [functors EXCEPT ![l] = Tail(@)]
      /\ UNCHANGED <<server, next_, quit_, pc, left, joined>>
  BY DEF Kept, RunFunctor
<1>3. PICK op \in Ops, c \in Conns : Head(functors[l]) = Functor(op, c) /\ First(l, op, c)
  BY <1>1, <1>2, FirstFunctor
<1>4. Functor(op, c).op = op /\ Functor(op, c).conn = c
  BY DEF Functor
<1>5. Live(l)
  <2>1. ASSUME l # Base, server = "gone" PROVE FALSE
    <3>1. l \in Range(loops_)
      BY <2>1 DEF Loops
    <3>2. PICK i \in DOMAIN loops_ : loops_[i] = l
      BY <3>1 DEF Range
    <3>3. DOMAIN loops_ = 1..Len(loops_)
      BY ServerAssumption, LenProperties DEF IInv, LoopsInv
    <3>4. pc[l] = "exited"
      BY <2>1, <3>2, <3>3 DEF IInv, LoopsInv
    <3> QED BY <1>2, <3>4
  <2> QED BY <2>1 DEF Live
<1>6. LoopsInv'
  BY <1>2 DEF IInv, LoopsInv
<1>7. NoAssertFails' /\ LifeInv' /\ QueueInv' /\ QueuesTyped' /\ (connections_' = connections_ \/ left = {})
      /\ connections_' \subseteq connections_
      /\ (conn' = conn \/ ((connectEstablished(c) \/ connectDestroyed(c)) /\ Lives(c)))
  <2>1. CASE op = "connectEstablished"
    <3>1. connectEstablished(c) /\ UNCHANGED <<connections_, pendingFunctors_>>
      BY <1>3, <1>4, <2>1 DEF Kept, RunFunctor
    <3>2. Pops(l) /\ QueuesTyped'
      BY <1>1, <1>2, <3>1, PopStep
    <3>3. First(l, "connectEstablished", c)
      BY <1>3, <2>1
    <3>4. NoAssertFails' /\ LifeInv' /\ QueueInv' /\ Lives(c)
      BY <1>2, <3>1, <3>2, <3>3, RunEstablished
    <3> QED BY <3>1, <3>2, <3>4
  <2>2. CASE op = "connectDestroyed"
    <3>1. connectDestroyed(c) /\ UNCHANGED <<connections_, pendingFunctors_>>
      BY <1>3, <1>4, <2>2 DEF Kept, RunFunctor
    <3>2. Pops(l) /\ QueuesTyped'
      BY <1>1, <1>2, <3>1, PopStep
    <3>3. First(l, "connectDestroyed", c)
      BY <1>3, <2>2
    <3>4. NoAssertFails' /\ LifeInv' /\ QueueInv' /\ Lives(c)
      BY <1>2, <1>5, <3>1, <3>2, <3>3, RunDestroyed
    <3> QED BY <3>1, <3>2, <3>4
  <2>3. CASE op = "removeConnectionInLoop"
    <3>1. Erase(c) /\ queueInLoop(DestroyedIn(c), Functor("connectDestroyed", c)) /\ UNCHANGED conn
      BY <1>3, <1>4, <2>3 DEF Kept, RunFunctor
    <3>2. First(l, "removeConnectionInLoop", c)
      BY <1>3, <2>3
    <3>3. NoAssertFails' /\ LifeInv' /\ QueueInv' /\ QueuesTyped' /\ left = {}
      BY <1>2, <3>1, <3>2, RunRemove
    <3>4. conn' = conn /\ connections_' \subseteq connections_
      BY <3>1 DEF Erase
    <3> QED BY <3>3, <3>4
  <2> QED BY <2>1, <2>2, <2>3 DEF Ops
<1>8. TypeOK'
  <2>1. /\ conn' \in [Conns -> [state : {"none", "kConnecting", "kConnected", "kDisconnected"},
                                channel : {"new", "on", "off", "removed"}, loop : Loops]]
        /\ \A d \in Conns : conn[d].state # "none" => conn'[d].state # "none"
    <3>1. CASE conn' = conn
      BY <3>1 DEF IInv, TypeOK
    <3>2. CASE connectEstablished(c)
      BY <3>2, ZenonT(60) DEF IInv, TypeOK, connectEstablished
    <3>3. CASE connectDestroyed(c)
      <4> DEFINE s == IF conn[c].state = "kConnected" THEN "kDisconnected" ELSE conn[c].state
                 r == [conn[c] EXCEPT !.channel = "removed", !.state = s]
      <4>1. s \in {"none", "kConnecting", "kConnected", "kDisconnected"}
            /\ (conn[c].state # "none" => s # "none")
        BY DEF IInv, TypeOK
      <4>2. conn' = [conn EXCEPT ![c].channel = "removed", ![c].state = s]
        BY <3>3 DEF connectDestroyed
      <4> HIDE DEF s
      <4>3. r \in [state : {"none", "kConnecting", "kConnected", "kDisconnected"},
                   channel : {"new", "on", "off", "removed"}, loop : Loops]
            /\ r.state = s
        BY <4>1 DEF IInv, TypeOK
      <4>4. conn' = [conn EXCEPT ![c] = r]
        BY <4>2 DEF IInv, TypeOK
      <4> HIDE DEF r
      <4> QED BY <4>1, <4>3, <4>4 DEF IInv, TypeOK
    <3> QED BY <1>7, <3>1, <3>2, <3>3
  <2>2. \A k \in Loops : functors'[k] # <<>> => functors[k] # <<>>
    BY <1>2 DEF IInv, TypeOK
  <2>3. connections_' \subseteq Conns /\ left' \subseteq connections_'
    BY <1>2, <1>7 DEF IInv, TypeOK
  <2>4. \A d \in connections_' : conn'[d].state # "none"
    BY <1>7, <2>1 DEF IInv, TypeOK
  <2> QED BY <1>1, <1>2, <1>7, <2>1, <2>2, <2>3, <2>4 DEF IInv, TypeOK, QueuesTyped
<1> QED BY <1>6, <1>7, <1>8 DEF IInv

(* The invariant is one: it holds at first and every step keeps it.        *)
LEMMA NextStep == IInv /\ [Next]_vars => IInv'
<1> SUFFICES ASSUME IInv, [Next]_vars PROVE IInv'
  OBVIOUS
<1>1. CASE UNCHANGED vars
  <2>1. Loops' = Loops /\ Stays
    BY <1>1, LoopsKept, LoopUnchanged DEF IInv, vars, loop
  <2>2. TypeOK' /\ LoopsInv'
    BY <1>1, <2>1 DEF IInv, TypeOK, LoopsInv, vars, loop
  <2> QED BY <1>1, <2>1, <2>2, QuietStep DEF IInv, vars
<1>2. CASE Kept(start) \/ Kept(quit) \/ Kept(BeginDestroy)
  BY <1>2, StartStep, QuitStep, BeginDestroyStep
<1>3. CASE Kept(Destructor)
  <2>1. \/ \E c \in Conns : Kept(DestroyOne(c))
        \/ Kept(DestroyMembers) \/ Kept(QuitThread) \/ Kept(JoinThread) \/ Kept(EndDestroy)
    BY <1>3 DEF Kept, Destructor
  <2> QED BY <2>1, DestroyOneStep, DestroyMembersStep, QuitThreadStep, JoinThreadStep, EndDestroyStep
<1>4. CASE \E l \in Loops : Kept(LoopSteps(l))
  <2>1. PICK l \in Loops : Kept(LoopSteps(l))
    BY <1>4
  <2>2. Kept(SwapFunctors(l)) \/ Kept(RunFunctor(l)) \/ Kept(EndRound(l))
    BY <2>1 DEF Kept, LoopSteps
  <2> QED BY <2>2, SwapFunctorsStep, RunFunctorStep, EndRoundStep
<1>5. CASE \E l \in Loops, c \in Conns : Kept(newConnection(c, l))
  BY <1>5, NewConnectionStep
<1>6. CASE \E c \in Conns : Kept(handleClose(c))
  BY <1>6, HandleCloseStep
<1>7. \/ UNCHANGED vars \/ Kept(start) \/ Kept(quit) \/ Kept(BeginDestroy) \/ Kept(Destructor)
      \/ \E l \in Loops : Kept(LoopSteps(l))
      \/ \E l \in Loops, c \in Conns : Kept(newConnection(c, l))
      \/ \E c \in Conns : Kept(handleClose(c))
  BY DEF Next, Kept
<1> QED BY <1>1, <1>2, <1>3, <1>4, <1>5, <1>6, <1>7

(* The connections ever dealt to l, of which Load is the number.           *)
Dealt(l) == {c \in Conns : conn[c].state # "none" /\ conn[c].loop = l}

LEMMA LoadFacts ==
    ASSUME NEW l
    PROVE  Load(l) = Cardinality(Dealt(l)) /\ IsFiniteSet(Dealt(l)) /\ Load(l) \in Nat
<1>1. Load(l) = Cardinality(Dealt(l))
  BY DEF Load, Quantify, Dealt
<1>2. IsFiniteSet(Dealt(l))
  BY ServerAssumption, FS_Subset DEF Dealt
<1> QED BY <1>1, <1>2, FS_CardinalityType

LEMMA LoadNext ==
    ASSUME NEW l
    PROVE  Load(l)' = Cardinality(Dealt(l)')
BY DEF Load, Quantify, Dealt

(* No other action than newConnection deals out a connection.              *)
LEMMA OthersDealNone ==
    ASSUME IInv, [Next]_vars, ~\E l \in Loops, c \in Conns : Kept(newConnection(c, l))
    PROVE  /\ loops_' = loops_ /\ next_' = next_
           /\ \A c \in Conns : /\ conn'[c].state = "none" <=> conn[c].state = "none"
                               /\ conn'[c].loop = conn[c].loop
<1> DEFINE Same2(d) == /\ conn'[d].state = "none" <=> conn[d].state = "none"
                      /\ conn'[d].loop = conn[d].loop
<1>1. ASSUME NEW c \in Conns, connectEstablished(c), conn[c].state # "none"
      PROVE  \A d \in Conns : Same2(d)
  BY <1>1 DEF IInv, TypeOK, connectEstablished
<1>2. ASSUME NEW c \in Conns, connectDestroyed(c)
      PROVE  \A d \in Conns : Same2(d)
  <2>1. CASE conn[c].state = "kConnected"
    <3>1. conn' = [conn EXCEPT ![c].channel = "removed", ![c].state = "kDisconnected"]
      BY <1>2, <2>1 DEF IInv, TypeOK, connectDestroyed
    <3> QED BY <2>1, <3>1 DEF IInv, TypeOK
  <2>2. CASE conn[c].state # "kConnected"
    <3>1. conn' = [conn EXCEPT ![c].channel = "removed", ![c].state = conn[c].state]
      BY <1>2, <2>2 DEF IInv, TypeOK, connectDestroyed
    <3> QED BY <3>1 DEF IInv, TypeOK
  <2> QED BY <2>1, <2>2
<1>3. CASE UNCHANGED <<conn, next_, loops_>>
  BY <1>3
<1>4. CASE \E c \in Conns : Kept(handleClose(c))
  <2>1. PICK c \in Conns : Kept(handleClose(c))
    BY <1>4
  <2>2. conn[c].state = "kConnected" /\ next_' = next_ /\ loops_' = loops_
        /\ conn' = [conn EXCEPT ![c].state = "kDisconnected", ![c].channel = "off"]
    BY <2>1 DEF IInv, Kept, handleClose, LifeInv
  <2> QED BY <2>2 DEF IInv, TypeOK
<1>5. CASE \E c \in Conns : Kept(DestroyOne(c))
  <2>1. PICK c \in Conns : Kept(DestroyOne(c))
    BY <1>5
  <2>2. next_' = next_ /\ loops_' = loops_ /\ (conn' = conn \/ connectDestroyed(c))
    BY <2>1 DEF Kept, DestroyOne
  <2> QED BY <1>2, <2>2
<1>6. CASE \E l \in Loops : Kept(RunFunctor(l))
  <2>1. PICK l \in Loops : Kept(RunFunctor(l))
    BY <1>6
  <2>2. functors[l] # <<>> /\ next_' = next_ /\ loops_' = loops_
    BY <2>1 DEF Kept, RunFunctor
  <2>3. PICK op \in Ops, c \in Conns : Head(functors[l]) = Functor(op, c) /\ First(l, op, c)
    BY <2>2, TypedQueues, FirstFunctor DEF IInv
  <2>4. Functor(op, c).op = op /\ Functor(op, c).conn = c
    BY DEF Functor
  <2>5. \/ conn' = conn \/ connectDestroyed(c)
        \/ op = "connectEstablished" /\ connectEstablished(c)
    BY <2>1, <2>3, <2>4 DEF Kept, RunFunctor
  <2>6. op = "connectEstablished" => conn[c].state # "none"
    BY <2>3 DEF IInv, QueueInv, EstablishedInv, First
  <2> QED BY <1>1, <1>2, <2>2, <2>5, <2>6
<1> QED
  BY <1>3, <1>4, <1>5, <1>6
  DEF Next, vars, loop, Kept, start, quit, BeginDestroy, Destructor, DestroyMembers, QuitThread,
      JoinThread, EndDestroy, LoopSteps, SwapFunctors, EndRound

LEMMA BalanceStep ==
    ASSUME IInv, BalanceInv, [Next]_vars
    PROVE  BalanceInv'
<1>1. PICK m \in Nat : \A i \in 1..Len(loops_) :
                          Load(loops_[i]) = IF i <= next_ THEN m + 1 ELSE m
  BY DEF BalanceInv
<1>2. Len(loops_) \in Nat /\ loops_' = loops_ /\ next_ \in Nat
  BY ServerAssumption, LenProperties DEF IInv, LoopsInv, TypeOK, Next, vars, Kept
<1>3. CASE ~\E l \in Loops, c \in Conns : Kept(newConnection(c, l))
  <2>1. ASSUME NEW l PROVE Load(l)' = Load(l)
    <3>1. Dealt(l)' = Dealt(l)
      BY <1>3, OthersDealNone DEF Dealt
    <3> QED BY <3>1, LoadFacts, LoadNext
  <2>2. next_' = next_
    BY <1>3, OthersDealNone
  <2> QED BY <1>1, <1>2, <2>1, <2>2 DEF BalanceInv
<1>4. ASSUME NEW l \in Loops, NEW c \in Conns, Kept(newConnection(c, l))
      PROVE  BalanceInv'
  <2>1. CASE loops_ = <<>>
    BY <1>2, <2>1, EmptySeq DEF BalanceInv
  <2>2. CASE loops_ # <<>>
    <3>1. l = loops_[next_ + 1] /\ next_' = AfterNext /\ next_ + 1 \in 1..Len(loops_)
      BY <1>2, <1>4, <2>2 DEF Kept, newConnection, getNextLoop, IInv, LoopsInv
    <3>2. /\ conn[c].state = "none" /\ conn'[c].state # "none" /\ conn'[c].loop = l
          /\ \A d \in Conns : d # c => conn'[d] = conn[d]
      BY <1>4 DEF Kept, newConnection, IInv, TypeOK
    <3>3. ASSUME NEW k PROVE Load(k)' = IF k = l THEN Load(k) + 1 ELSE Load(k)
      <4>1. Dealt(k)' = (IF k = l THEN Dealt(k) \cup {c} ELSE Dealt(k)) /\ c \notin Dealt(k)
        BY <3>2 DEF Dealt
      <4>2. Cardinality(Dealt(k) \cup {c}) = Cardinality(Dealt(k)) + 1
        BY <4>1, LoadFacts, FS_AddElement
      <4> QED BY <4>1, <4>2, LoadFacts, LoadNext
    <3>4. \A i \in 1..Len(loops_) : loops_[i] = l => i = next_ + 1
      BY <1>2, <3>1, ServerAssumption, LenProperties DEF IInv, LoopsInv, IsInjective
    <3>5. ASSUME NEW i \in 1..Len(loops_), NEW k, k = loops_[i]
          PROVE  Load(k)' = IF i <= next_ + 1 THEN m + 1 ELSE m
      <4>1. Load(k) = IF i <= next_ THEN m + 1 ELSE m
        BY <1>1, <3>5
      <4>2. k = l <=> i = next_ + 1
        BY <3>1, <3>4, <3>5
      <4>3. Load(k)' = IF i = next_ + 1 THEN Load(k) + 1 ELSE Load(k)
        BY <3>3, <4>2
      <4> QED BY <1>1, <1>2, <4>1, <4>3
    <3>6. CASE next_ + 1 < Len(loops_)
      <4>1. next_' = next_ + 1
        BY <1>2, <3>1, <3>6 DEF AfterNext
      <4> QED BY <1>1, <1>2, <3>5, <4>1 DEF BalanceInv
    <3>7. CASE ~(next_ + 1 < Len(loops_))
      <4>1. next_' = 0 /\ \A i \in 1..Len(loops_) : i <= next_ + 1 /\ ~(i <= 0)
        BY <1>2, <3>1, <3>7 DEF AfterNext
      <4>2. ASSUME NEW i \in 1..Len(loops_), NEW k, k = loops_[i]
            PROVE  Load(k)' = m + 1
        BY <3>5, <4>1, <4>2
      <4>3. m + 1 \in Nat
        BY <1>1
      <4> QED BY <1>2, <4>1, <4>2, <4>3 DEF BalanceInv
    <3> QED BY <3>6, <3>7
  <2> QED BY <2>1, <2>2
<1> QED BY <1>3, <1>4

LEMMA LifeStep ==
    ASSUME IInv, [Next]_vars
    PROVE  conn' = conn \/ \E c \in Conns : Lives(c)
<1>1. ASSUME NEW l \in Loops, NEW c \in Conns, Kept(newConnection(c, l))
      PROVE  Lives(c)
  <2>1. /\ conn[c].state = "none" /\ conn[c].channel = "new"
        /\ \A d \in Conns : d # c => conn'[d] = conn[d]
        /\ \/ conn'[c].channel = "on"
           \/ conn'[c].channel = "new" /\ conn'[c].state = "kConnecting"
    <3>1. conn[c].state = "none" /\ conn[c].channel = "new"
      BY <1>1 DEF Kept, newConnection, IInv, LifeInv
    <3>2. \/ conn' = [conn EXCEPT ![c] = [state |-> "kConnected", channel |-> "on", loop |-> l]]
          \/ conn' = [conn EXCEPT ![c] = [state |-> "kConnecting", channel |-> "new", loop |-> l]]
      BY <1>1 DEF Kept, newConnection
    <3> QED BY <3>1, <3>2 DEF IInv, TypeOK
  <2> QED BY <2>1 DEF Lives, Phase
<1>2. ASSUME NEW c \in Conns, Kept(handleClose(c))
      PROVE  Lives(c)
  <2>1. /\ conn[c].channel = "on" /\ conn'[c].channel = "off"
        /\ \A d \in Conns : d # c => conn'[d] = conn[d]
    BY <1>2 DEF Kept, handleClose, IInv, TypeOK
  <2> QED BY <2>1 DEF Lives, Phase
<1>3. ASSUME NEW c \in Conns, Kept(DestroyOne(c))
      PROVE  conn' = conn \/ Lives(c)
  <2>1. CASE conn[c].loop = Base
    <3>1. conn[c].channel = "on" /\ conn[c].state = "kConnected"
      BY <1>3, <2>1 DEF Kept, DestroyOne, IInv, TypeOK, LifeInv
    <3>2. conn' = [conn EXCEPT ![c].channel = "removed", ![c].state = "kDisconnected"]
      BY <1>3, <2>1, <3>1 DEF Kept, DestroyOne, connectDestroyed, IInv, TypeOK
    <3>3. conn'[c].channel = "removed" /\ \A d \in Conns : d # c => conn'[d] = conn[d]
      BY <3>2 DEF IInv, TypeOK
    <3> QED BY <3>1, <3>3 DEF Lives, Phase
  <2>2. CASE conn[c].loop # Base
    BY <1>3, <2>2 DEF Kept, DestroyOne
  <2> QED BY <2>1, <2>2
<1>4. ASSUME NEW l \in Loops, Kept(RunFunctor(l))
      PROVE  conn' = conn \/ \E c \in Conns : Lives(c)
  BY <1>4, RunFunctorStep
<1> QED
  BY <1>1, <1>2, <1>3, <1>4
  DEF Next, vars, loop, Kept, start, quit, BeginDestroy, Destructor, DestroyMembers, QuitThread,
      JoinThread, EndDestroy, LoopSteps, SwapFunctors, EndRound

-----------------------------------------------------------------------------
(* TcpServer.cc:32-123, with the functors of its loops: IInv holds in      *)
(* every state, whatever the pool and the number of connections.           *)
THEOREM Inductive == Spec => []IInv
<1>1. Init => IInv
  BY InitStep
<1>2. IInv /\ [Next]_vars => IInv'
  BY NextStep
<1> QED BY <1>1, <1>2, PTL DEF Spec

(* EventLoopThreadPool.cc:53-67: the connections are dealt out in turn.    *)
THEOREM Dealing == Spec => []BalanceInv
<1>1. Init => BalanceInv
  <2> SUFFICES ASSUME Init PROVE BalanceInv
    OBVIOUS
  <2>1. ASSUME NEW l PROVE Load(l) = 0
    <3>1. Dealt(l) = {}
      BY DEF Init, Dealt
    <3> QED BY <3>1, LoadFacts, FS_EmptySet
  <2>2. \A i \in 1..Len(loops_) : ~(i <= next_)
    BY ServerAssumption, LenProperties DEF Init
  <2> QED BY <2>1, <2>2 DEF BalanceInv
<1>2. IInv /\ BalanceInv /\ [Next]_vars => BalanceInv'
  BY BalanceStep
<1> QED BY <1>1, <1>2, Inductive, PTL DEF Spec

(* TcpServer.cc:32-123: no assertion of the server or of a connection it   *)
(* sets up and takes apart fails, a connection's functors run in its own   *)
(* loop, and no loop of the pool is dealt two connections more than        *)
(* another.                                                                *)
THEOREM Safe == Spec => []ServerSafe
<1>1. IInv => InOwnLoop
  <2> SUFFICES ASSUME IInv, NEW l \in Loops, NEW i \in DOMAIN functors[l],
                      functors[l][i].op \in {"connectEstablished", "connectDestroyed"}
               PROVE  conn[functors[l][i].conn].loop = l
    BY DEF InOwnLoop
  <2>1. functors[l] \in Seq(Functors) /\ pendingFunctors_[l] \in Seq(Functors)
    BY DEF IInv, TypeOK
  <2>2. i \in 1..Len(functors[l]) /\ functors[l][i] \in Functors
    BY <2>1, LenProperties, ElementOfSeq
  <2>3. PICK op \in Ops, c \in Conns : functors[l][i] = Functor(op, c)
    BY <2>2 DEF Functors, Functor, Ops
  <2>4. i \in 1..Len(All(l)) /\ All(l)[i] = functors[l][i]
    <3> DEFINE a == functors[l]
               b == pendingFunctors_[l]
    <3>1. a \in Seq(Functors) /\ b \in Seq(Functors) /\ i \in 1..Len(a)
      BY <2>1, <2>2
    <3> HIDE DEF a, b
    <3>2. Len(a) \in Nat /\ Len(b) \in Nat /\ Len(a \o b) = Len(a) + Len(b)
          /\ \A j \in 1..(Len(a) + Len(b)) : (a \o b)[j] = IF j <= Len(a) THEN a[j] ELSE b[j - Len(a)]
      BY <3>1, ConcatProperties, LenProperties
    <3>3. i \in 1..Len(a \o b) /\ (a \o b)[i] = a[i]
      BY <3>1, <3>2
    <3> QED BY <3>3 DEF a, b, All
  <2>5. i \in Pos(l, op, c)
    BY <2>3, <2>4 DEF Pos
  <2>6. functors[l][i].op = op /\ functors[l][i].conn = c
    BY <2>3 DEF Functor
  <2> QED BY <2>5, <2>6 DEF IInv, QueueInv, EstablishedInv, DestroyedInv, DestroyedAt
<1>2. IInv /\ BalanceInv => Balanced
  <2> SUFFICES ASSUME IInv, BalanceInv, NEW l \in Range(loops_), NEW k \in Range(loops_)
               PROVE  Load(l) <= Load(k) + 1
    BY DEF Balanced
  <2>1. PICK m \in Nat : \A i \in 1..Len(loops_) :
                            Load(loops_[i]) = IF i <= next_ THEN m + 1 ELSE m
    BY DEF BalanceInv
  <2>2. DOMAIN loops_ = 1..Len(loops_)
    BY ServerAssumption, LenProperties DEF IInv, LoopsInv
  <2>3. PICK i \in 1..Len(loops_), j \in 1..Len(loops_) : loops_[i] = l /\ loops_[j] = k
    BY <2>2 DEF Range
  <2>4. Load(l) \in {m, m + 1} /\ Load(k) \in {m, m + 1}
    BY <2>1, <2>3
  <2> QED BY <2>1, <2>4
<1>3. IInv /\ BalanceInv => ServerSafe
  BY <1>1, <1>2 DEF IInv, ServerSafe
<1> QED BY <1>3, Inductive, Dealing, PTL

(* TcpServer.cc:80-123, TcpConnection.cc:308-398: seen from the user's     *)
(* callbacks each connection comes up and goes down once, in that order,   *)
(* and is taken out of its poller after that.                              *)
THEOREM Implements == Spec => ImplementsConnectionLife
<1> DEFINE phase == [c \in Conns |-> Phase(c)]
<1>1. Init => Life!Init
  BY DEF Init, Life!Init, Phase
<1>2. IInv /\ [Next]_vars => [Life!Next]_phase
  <2> SUFFICES ASSUME IInv, [Next]_vars PROVE [Life!Next]_phase
    OBVIOUS
  <2>1. CASE conn' = conn
    <3>1. phase' = phase
      BY <2>1 DEF Phase
    <3> QED BY <3>1
  <2>2. ASSUME NEW c \in Conns, Lives(c)
        PROVE  Life!Next
    <3>1. \A d \in Conns : d # c => Phase(d)' = Phase(d)
      BY <2>2 DEF Lives, Phase
    <3>2. phase' = [phase EXCEPT ![c] = Phase(c)'] /\ phase[c] = Phase(c)
      BY <3>1
    <3> HIDE DEF phase
    <3>3. \/ Phase(c) = "none" /\ Phase(c)' = "connecting"
          \/ Phase(c) = "none" /\ Phase(c)' = "up"
          \/ Phase(c) = "connecting" /\ Phase(c)' = "up"
          \/ Phase(c) = "up" /\ Phase(c)' = "down"
          \/ Phase(c) = "down" /\ Phase(c)' = "destroyed"
          \/ Phase(c) = "up" /\ Phase(c)' = "destroyed"
      BY <2>2 DEF Lives
    <3> QED BY <3>2, <3>3 DEF Life!Next, Life!Step, phase
  <2> QED BY <2>1, <2>2, LifeStep
<1> QED BY <1>1, <1>2, Inductive, PTL DEF Spec, ImplementsConnectionLife, Life!Spec

-----------------------------------------------------------------------------
(* The Acceptor, for any clients and any limit of descriptors.             *)

Reserve == {f \in A!Fds : owner[f] = "idle"}

(* While the acceptor has no descriptor, between two of its calls, none is *)
(* marked as its own; otherwise it is the one in idleFd_.                  *)
ReserveInv ==
    /\ handling \in {"poll", "ready", "failed", "drop"} => Reserve = {idleFd_} \ {A!NoFd}
    /\ handling \in {"room", "reopen", "destroyed"} => Reserve = {}

(* A client that was handed over has a descriptor, and only such a one.    *)
HandedInv == \A c \in Conns : client[c] = "handed" <=> (\E f \in A!Fds : owner[f] = c)

(* If nobody has opened one meanwhile, the descriptor that was given up    *)
(* can be had again.                                                       *)
SpareInv ==
    ~stolen =>
        /\ handling \in {"poll", "ready", "failed"} => idleFd_ # A!NoFd
        /\ handling \in {"room", "reopen"} => A!Free # {}
        /\ handling = "drop" => A!Free # {} \/ idleFd_ # A!NoFd

(* The inductive invariant.                                                *)
AcceptorInv == A!TypeOK /\ wrong = FALSE /\ ReserveInv /\ HandedInv /\ SpareInv

(* A set of naturals has a least element, ...                              *)
LEMMA NatLeast ==
    ASSUME NEW T, T \subseteq Nat, T # {}
    PROVE  \E x \in T : \A y \in T : x <= y
<1>1. PICK x \in T : \A y \in T : <<y, x>> \notin OpToRel(<, Nat)
  BY WFMin, NatLessThanWellFounded, Zenon
<1>2. \A y \in T : ~(y < x)
  BY <1>1 DEF OpToRel
<1> QED BY <1>2

(* ... so the system hands out a descriptor that is free.                  *)
LEMMA LowestFree ==
    ASSUME A!AcceptorAssumption, A!Free # {}
    PROVE  A!Lowest \in A!Free /\ A!Lowest \in A!Fds /\ A!Lowest # A!NoFd /\ owner[A!Lowest] = "free"
<1>1. A!Free \subseteq Nat /\ A!Free \subseteq A!Fds
  BY DEF A!Free, A!Fds, A!AcceptorAssumption
<1>2. A!Lowest \in A!Free
  BY <1>1, NatLeast DEF A!Lowest, A!Min
<1>3. A!Lowest \in A!Fds /\ owner[A!Lowest] = "free"
  BY <1>2 DEF A!Free
<1> HIDE DEF A!Lowest
<1> QED BY <1>2, <1>3 DEF A!Fds, A!NoFd, A!AcceptorAssumption

(* The constructor establishes the invariant.                              *)
LEMMA AcceptorInit == A!AcceptorAssumption /\ A!Init => AcceptorInv
<1> SUFFICES ASSUME A!AcceptorAssumption, A!Init PROVE AcceptorInv
  OBVIOUS
<1>1. 1 \in A!Fds /\ A!NoFd # 1
  BY DEF A!AcceptorAssumption, A!Fds, A!NoFd
<1>2. A!TypeOK
  BY <1>1 DEF A!Init, A!TypeOK
<1>3. ReserveInv
  BY <1>1 DEF A!Init, ReserveInv, Reserve
<1>4. HandedInv
  BY <1>1 DEF A!Init, HandedInv, A!AcceptorAssumption
<1>5. SpareInv
  BY <1>1 DEF A!Init, SpareInv
<1> QED BY <1>2, <1>3, <1>4, <1>5 DEF AcceptorInv, A!Init

(* ::close(idleFd_), whenever it is called, closes the acceptor's own.     *)
LEMMA CloseIdleFacts ==
    ASSUME A!AcceptorAssumption, AcceptorInv, handling \in {"poll", "failed", "drop"}, A!CloseIdle
    PROVE  /\ owner' \in [A!Fds -> {"free", "idle", "other"} \cup Conns]
           /\ wrong' = FALSE
           /\ \A f \in A!Fds : owner'[f] # "idle"
           /\ \A c \in Conns, f \in A!Fds : (owner'[f] = c <=> owner[f] = c)
           /\ \A f \in A!Fds : owner[f] = "free" => owner'[f] = "free"
           /\ idleFd_ # A!NoFd => idleFd_ \in A!Fds /\ owner'[idleFd_] = "free"
<1>1. Reserve = {idleFd_} \ {A!NoFd} /\ wrong = FALSE
  BY DEF AcceptorInv, ReserveInv
<1>2. /\ owner \in [A!Fds -> {"free", "idle", "other"} \cup Conns]
      /\ idleFd_ \in A!Fds \cup {A!NoFd}
      /\ Conns \cap {"free", "idle", "other"} = {}
  BY DEF AcceptorInv, A!TypeOK, A!AcceptorAssumption
<1>3. CASE idleFd_ = A!NoFd
  BY <1>1, <1>2, <1>3 DEF A!CloseIdle, Reserve
<1>4. CASE idleFd_ # A!NoFd
  <2>1. idleFd_ \in A!Fds /\ owner[idleFd_] = "idle"
    BY <1>1, <1>2, <1>4 DEF Reserve
  <2>2. owner' = [owner EXCEPT ![idleFd_] = "free"] /\ wrong' = FALSE
    BY <1>1, <1>4, <2>1 DEF A!CloseIdle
  <2>3. \A f \in A!Fds : f # idleFd_ => owner[f] # "idle"
    BY <1>1 DEF Reserve
  <2> QED BY <1>2, <2>1, <2>2, <2>3
<1> QED BY <1>3, <1>4

(* Every system call of handleRead(), and whatever other threads, clients  *)
(* and users do in between, keeps the invariant.                           *)
LEMMA AcceptorStep ==
    ASSUME A!AcceptorAssumption, AcceptorInv, A!Next \/ UNCHANGED acceptor
    PROVE  AcceptorInv'
<1>0. /\ wrong = FALSE /\ Conns \cap {"free", "idle", "other"} = {} /\ A!TypeOK
      /\ ReserveInv /\ HandedInv /\ SpareInv
  BY DEF AcceptorInv, A!AcceptorAssumption
<1>1. /\ owner \in [A!Fds -> {"free", "idle", "other"} \cup Conns]
      /\ client \in [Conns -> {"none", "queued", "handed", "dropped", "closed", "left"}]
      /\ idleFd_ \in A!Fds \cup {A!NoFd} /\ A!NoFd \notin A!Fds
  BY <1>0 DEF A!TypeOK, A!NoFd, A!Fds, A!AcceptorAssumption
<1>2. ASSUME A!listen /\ UNCHANGED <<newConnectionCallback_, stolen>> PROVE AcceptorInv'
  BY <1>0, <1>2 DEF A!listen, AcceptorInv, A!TypeOK, ReserveInv, HandedInv, SpareInv, Reserve, A!Free
<1>3. ASSUME A!Ready \/ A!AcceptFails \/ A!AcceptFatal, UNCHANGED <<newConnectionCallback_, stolen>>
      PROVE  AcceptorInv'
  <2>1. /\ UNCHANGED <<listenning_, idleFd_, owner, client, wrong>>
        /\ handling \in {"poll", "ready"} /\ handling' \in {"ready", "failed", "aborted"}
    BY <1>3 DEF A!Ready, A!AcceptFails, A!AcceptFatal
  <2>2. A!TypeOK' /\ ReserveInv'
    BY <1>0, <1>3, <2>1 DEF A!TypeOK, ReserveInv, Reserve
  <2>3. HandedInv' /\ SpareInv'
    BY <1>0, <1>3, <2>1 DEF HandedInv, SpareInv, A!Free
  <2> QED BY <1>0, <2>1, <2>2, <2>3 DEF AcceptorInv
<1>4. ASSUME A!AcceptOk, UNCHANGED <<newConnectionCallback_, stolen>> PROVE AcceptorInv'
  <2>1. /\ handling = "ready" /\ handling' = "poll" /\ A!Free # {}
        /\ UNCHANGED <<listenning_, idleFd_, wrong>>
    BY <1>4 DEF A!AcceptOk
  <2>2. PICK c \in A!Queued :
          IF newConnectionCallback_
          THEN /\ client' = [client EXCEPT ![c] = "handed"]
               /\ owner' = [owner EXCEPT ![A!Lowest] = c]
          ELSE client' = [client EXCEPT ![c] = "closed"] /\ UNCHANGED owner
    BY <1>4 DEF A!AcceptOk
  <2>3. c \in Conns /\ client[c] = "queued"
    BY DEF A!Queued
  <2>4. A!Lowest \in A!Fds /\ owner[A!Lowest] = "free"
    BY <2>1, LowestFree
  <2> DEFINE low == A!Lowest
  <2> HIDE DEF low
  <2>5. CASE newConnectionCallback_
    <3>1. /\ client' = [client EXCEPT ![c] = "handed"] /\ low \in A!Fds /\ owner[low] = "free"
          /\ owner' = [owner EXCEPT ![low] = c]
      BY <2>2, <2>4, <2>5 DEF low
    <3>2. A!TypeOK'
      BY <1>0, <1>1, <1>4, <2>1, <2>3, <3>1 DEF A!TypeOK
    <3>3. Reserve' = Reserve
      BY <1>0, <1>1, <2>3, <3>1 DEF Reserve
    <3>4. ReserveInv'
      BY <1>0, <2>1, <3>3 DEF ReserveInv
    <3>5. HandedInv'
      BY <1>0, <1>1, <2>3, <3>1 DEF HandedInv
    <3>6. SpareInv'
      BY <1>0, <1>4, <2>1 DEF SpareInv
    <3> QED BY <1>0, <2>1, <3>2, <3>4, <3>5, <3>6 DEF AcceptorInv
  <2>6. CASE ~newConnectionCallback_
    <3>1. client' = [client EXCEPT ![c] = "closed"] /\ UNCHANGED owner
      BY <2>2, <2>6
    <3>2. A!TypeOK'
      BY <1>0, <1>1, <1>4, <2>1, <2>3, <3>1 DEF A!TypeOK
    <3>4. ReserveInv'
      BY <1>0, <2>1, <3>1 DEF ReserveInv, Reserve
    <3>5. HandedInv'
      BY <1>0, <1>1, <2>3, <3>1 DEF HandedInv
    <3>6. SpareInv'
      BY <1>0, <1>4, <2>1 DEF SpareInv
    <3> QED BY <1>0, <2>1, <3>2, <3>4, <3>5, <3>6 DEF AcceptorInv
  <2> QED BY <2>5, <2>6
<1>5. ASSUME A!MakeRoom \/ A!DropClient \/ A!Destroy, UNCHANGED <<newConnectionCallback_, stolen>>
      PROVE  AcceptorInv'
  <2>1. /\ handling \in {"poll", "failed", "drop"} /\ A!CloseIdle
        /\ UNCHANGED <<listenning_, idleFd_, client>>
        /\ handling' = (IF handling = "failed" THEN "room" ELSE IF handling = "drop" THEN "reopen" ELSE "destroyed")
    BY <1>5 DEF A!MakeRoom, A!DropClient, A!Destroy
  <2>2. /\ owner' \in [A!Fds -> {"free", "idle", "other"} \cup Conns]
        /\ wrong' = FALSE
        /\ \A f \in A!Fds : owner'[f] # "idle"
        /\ \A c \in Conns, f \in A!Fds : (owner'[f] = c <=> owner[f] = c)
        /\ \A f \in A!Fds : owner[f] = "free" => owner'[f] = "free"
        /\ idleFd_ # A!NoFd => idleFd_ \in A!Fds /\ owner'[idleFd_] = "free"
    BY <2>1, CloseIdleFacts
  <2>3. A!TypeOK'
    BY <1>0, <1>5, <2>1, <2>2 DEF A!TypeOK
  <2>4. ReserveInv'
    BY <2>1, <2>2 DEF ReserveInv, Reserve
  <2>5. HandedInv'
    BY <1>0, <2>1, <2>2 DEF HandedInv
  <2>6. SpareInv'
    <3>1. A!Free # {} \/ idleFd_ # A!NoFd => A!Free' # {}
      BY <2>2 DEF A!Free
    <3> QED BY <1>0, <1>5, <2>1, <3>1 DEF SpareInv
  <2> QED BY <2>2, <2>3, <2>4, <2>5, <2>6 DEF AcceptorInv
<1>6. ASSUME A!AcceptAgain, UNCHANGED <<newConnectionCallback_, stolen>> PROVE AcceptorInv'
  <2>1. /\ handling = "room" /\ handling' = "drop" /\ UNCHANGED <<listenning_, wrong>> /\ Reserve = {}
    BY <1>0, <1>6 DEF A!AcceptAgain, ReserveInv
  <2>2. CASE A!Free = {} \/ A!Queued = {}
    <3>1. idleFd_' = A!NoFd /\ UNCHANGED <<owner, client>>
      BY <1>6, <2>2 DEF A!AcceptAgain
    <3>2. A!TypeOK' /\ HandedInv'
      BY <1>0, <1>6, <2>1, <3>1 DEF A!TypeOK, HandedInv
    <3>3. ReserveInv'
      BY <2>1, <3>1 DEF ReserveInv, Reserve
    <3>4. SpareInv'
      BY <1>0, <1>6, <2>1, <3>1 DEF SpareInv, A!Free
    <3> QED BY <1>0, <2>1, <3>2, <3>3, <3>4 DEF AcceptorInv
  <2>3. CASE ~(A!Free = {} \/ A!Queued = {})
    <3> DEFINE low == A!Lowest
    <3>1. low \in A!Fds /\ owner[low] = "free" /\ low # A!NoFd
      BY <2>3, LowestFree
    <3>2. idleFd_' = low /\ owner' = [owner EXCEPT ![low] = "idle"]
      BY <1>6, <2>3 DEF A!AcceptAgain
    <3>3. PICK c \in A!Queued : client' = [client EXCEPT ![c] = "dropped"]
      BY <1>6, <2>3 DEF A!AcceptAgain
    <3>4. c \in Conns /\ client[c] = "queued"
      BY DEF A!Queued
    <3> HIDE DEF low
    <3>5. A!TypeOK'
      BY <1>0, <1>1, <1>6, <2>1, <3>1, <3>2, <3>3, <3>4 DEF A!TypeOK
    <3>6. Reserve' = {low}
      BY <1>1, <2>1, <3>1, <3>2 DEF Reserve
    <3>7. ReserveInv'
      BY <2>1, <3>1, <3>2, <3>6 DEF ReserveInv
    <3>8. HandedInv'
      <4>1. \A d \in Conns : (client'[d] = "handed" <=> client[d] = "handed")
        BY <1>1, <3>3, <3>4
      <4>2. \A d \in Conns, f \in A!Fds : (owner'[f] = d <=> owner[f] = d)
        BY <1>0, <1>1, <3>1, <3>2
      <4> QED BY <1>0, <4>1, <4>2 DEF HandedInv
    <3>9. SpareInv'
      BY <2>1, <3>1, <3>2 DEF SpareInv
    <3> QED BY <1>0, <2>1, <3>5, <3>7, <3>8, <3>9 DEF AcceptorInv
  <2> QED BY <2>2, <2>3
<1>7. ASSUME A!Reopen, UNCHANGED <<newConnectionCallback_, stolen>> PROVE AcceptorInv'
  <2>1. /\ handling = "reopen" /\ handling' = "poll" /\ UNCHANGED <<listenning_, client, wrong>>
        /\ Reserve = {}
    BY <1>0, <1>7 DEF A!Reopen, ReserveInv
  <2>2. CASE A!Free = {}
    <3>1. idleFd_' = A!NoFd /\ UNCHANGED owner
      BY <1>7, <2>2 DEF A!Reopen
    <3>2. A!TypeOK' /\ HandedInv'
      BY <1>0, <1>7, <2>1, <3>1 DEF A!TypeOK, HandedInv
    <3>3. ReserveInv'
      BY <2>1, <3>1 DEF ReserveInv, Reserve
    <3>4. SpareInv'
      BY <1>0, <1>7, <2>1, <2>2 DEF SpareInv
    <3> QED BY <1>0, <2>1, <3>2, <3>3, <3>4 DEF AcceptorInv
  <2>3. CASE A!Free # {}
    <3> DEFINE low == A!Lowest
    <3>1. low \in A!Fds /\ owner[low] = "free" /\ low # A!NoFd
      BY <2>3, LowestFree
    <3>2. idleFd_' = low /\ owner' = [owner EXCEPT ![low] = "idle"]
      BY <1>7, <2>3 DEF A!Reopen
    <3> HIDE DEF low
    <3>5. A!TypeOK'
      BY <1>0, <1>1, <1>7, <2>1, <3>1, <3>2 DEF A!TypeOK
    <3>6. Reserve' = {low}
      BY <1>1, <2>1, <3>1, <3>2 DEF Reserve
    <3>7. ReserveInv'
      BY <2>1, <3>1, <3>2, <3>6 DEF ReserveInv
    <3>8. HandedInv'
      <4>2. \A d \in Conns, f \in A!Fds : (owner'[f] = d <=> owner[f] = d)
        BY <1>0, <1>1, <3>1, <3>2
      <4> QED BY <1>0, <2>1, <4>2 DEF HandedInv
    <3>9. SpareInv'
      BY <2>1, <3>1, <3>2 DEF SpareInv
    <3> QED BY <1>0, <2>1, <3>5, <3>7, <3>8, <3>9 DEF AcceptorInv
  <2> QED BY <2>2, <2>3
<1>8. ASSUME NEW c \in Conns, A!Connect(c) \/ A!Leave(c), UNCHANGED <<newConnectionCallback_, stolen>>
      PROVE  AcceptorInv'
  <2>1. /\ UNCHANGED <<listenning_, idleFd_, owner, handling, wrong>>
        /\ client[c] # "handed"
        /\ \E s \in {"queued", "left"} : client' = [client EXCEPT ![c] = s]
    BY <1>8 DEF A!Connect, A!Leave
  <2>2. \A d \in Conns : (client'[d] = "handed" <=> client[d] = "handed")
    BY <1>1, <2>1
  <2>3. A!TypeOK'
    BY <1>0, <1>1, <1>8, <2>1 DEF A!TypeOK
  <2>4. ReserveInv' /\ HandedInv' /\ SpareInv'
    BY <1>0, <1>8, <2>1, <2>2 DEF ReserveInv, Reserve, HandedInv, SpareInv, A!Free
  <2> QED BY <1>0, <2>1, <2>3, <2>4 DEF AcceptorInv
<1>9. ASSUME NEW c \in Conns, A!Close(c), UNCHANGED <<newConnectionCallback_, stolen>>
      PROVE  AcceptorInv'
  <2>1. /\ UNCHANGED <<listenning_, idleFd_, handling, wrong>>
        /\ client' = [client EXCEPT ![c] = "closed"]
        /\ owner' = [f \in A!Fds |-> IF owner[f] = c THEN "free" ELSE owner[f]]
    BY <1>9 DEF A!Close
  <2>2. /\ c # "idle" /\ c # "free"
        /\ \A f \in A!Fds : (owner'[f] = "idle" <=> owner[f] = "idle")
        /\ \A f \in A!Fds : owner[f] = "free" => owner'[f] = "free"
    BY <1>0, <2>1
  <2>3. A!TypeOK'
    BY <1>0, <1>1, <1>9, <2>1 DEF A!TypeOK
  <2>4. Reserve' = Reserve
    BY <2>2 DEF Reserve
  <2>5. HandedInv'
    BY <1>0, <1>1, <2>1 DEF HandedInv
  <2>6. SpareInv'
    BY <1>0, <1>9, <2>1, <2>2 DEF SpareInv, A!Free
  <2>7. ReserveInv'
    BY <1>0, <2>1, <2>4 DEF ReserveInv
  <2> QED BY <1>0, <2>1, <2>3, <2>5, <2>6, <2>7 DEF AcceptorInv
<1>10. ASSUME NEW f \in A!Fds, A!OtherCloses(f), UNCHANGED <<newConnectionCallback_, stolen>>
       PROVE  AcceptorInv'
  <2>1. /\ UNCHANGED <<listenning_, idleFd_, client, handling, wrong>> /\ owner[f] = "other"
        /\ owner' = [owner EXCEPT ![f] = "free"]
    BY <1>10 DEF A!OtherCloses
  <2>2. A!TypeOK'
    BY <1>0, <1>1, <1>10, <2>1 DEF A!TypeOK
  <2>3. Reserve' = Reserve
    BY <1>1, <2>1 DEF Reserve
  <2>4. HandedInv'
    <3>1. \A d \in Conns, g \in A!Fds : (owner'[g] = d <=> owner[g] = d)
      BY <1>0, <1>1, <2>1
    <3> QED BY <1>0, <2>1, <3>1 DEF HandedInv
  <2>5. SpareInv'
    BY <1>0, <1>1, <1>10, <2>1 DEF SpareInv, A!Free
  <2>6. ReserveInv'
    BY <1>0, <2>1, <2>3 DEF ReserveInv
  <2> QED BY <1>0, <2>1, <2>2, <2>4, <2>5, <2>6 DEF AcceptorInv
<1>11. ASSUME A!OtherOpens PROVE AcceptorInv'
  <2> DEFINE low == A!Lowest
  <2>1. /\ UNCHANGED <<listenning_, newConnectionCallback_, idleFd_, client, handling, wrong>>
        /\ stolen' = (stolen \/ handling \notin {"poll", "ready"})
        /\ owner' = [owner EXCEPT ![low] = "other"]
    BY <1>11 DEF A!OtherOpens
  <2>2. low \in A!Fds /\ owner[low] = "free"
    BY <1>11, LowestFree DEF A!OtherOpens
  <2> HIDE DEF low
  <2>3. A!TypeOK'
    BY <1>0, <1>1, <2>1, <2>2 DEF A!TypeOK
  <2>4. Reserve' = Reserve
    BY <1>1, <2>1, <2>2 DEF Reserve
  <2>5. HandedInv'
    <3>1. \A d \in Conns, g \in A!Fds : (owner'[g] = d <=> owner[g] = d)
      BY <1>0, <1>1, <2>1, <2>2
    <3> QED BY <1>0, <2>1, <3>1 DEF HandedInv
  <2>6. SpareInv'
    BY <1>0, <2>1 DEF SpareInv
  <2>7. ReserveInv'
    BY <1>0, <2>1, <2>4 DEF ReserveInv
  <2> QED BY <1>0, <2>1, <2>3, <2>5, <2>6, <2>7 DEF AcceptorInv
<1>12. CASE UNCHANGED acceptor
  BY <1>0, <1>12
     DEF acceptor, AcceptorInv, A!TypeOK, ReserveInv, Reserve, HandedInv, SpareInv, A!Free
<1> QED
  BY <1>2, <1>3, <1>4, <1>5, <1>6, <1>7, <1>8, <1>9, <1>10, <1>11, <1>12
     DEF A!Next, A!Quietly, A!handleRead

(* The inductive invariant holds in every reachable state.                 *)
THEOREM AcceptorInductive == MCSpec => []AcceptorInv
<1>1. MCInit => AcceptorInv
  BY LimitAssumption, AcceptorInit DEF MCInit
<1>2. AcceptorInv /\ [MCNext]_<<subject, vars, acceptor>> => AcceptorInv'
  BY LimitAssumption, AcceptorStep DEF MCNext
<1> QED BY <1>1, <1>2, PTL DEF MCSpec

(* Acceptor.cc:43-69: whichever of the four calls fail and whatever is     *)
(* opened and closed in between, no descriptor of another owner is closed, *)
(* none is lost, and the reserve is there when handleRead() begins unless  *)
(* it was stolen.                                                          *)
THEOREM KeepsDescriptors == MCSpec => []DescriptorsKept
<1>1. AcceptorInv => DescriptorsKept
  BY DEF AcceptorInv, DescriptorsKept, A!DescriptorsKept, A!ClosesOwnOnly, A!NoLeak,
         A!ReserveHeld, ReserveInv, Reserve, HandedInv, SpareInv
<1> QED BY <1>1, AcceptorInductive, PTL
=============================================================================
