---------------------------- MODULE ClientProofs ----------------------------
(***************************************************************************)
(* Theorems about TcpClient and its Connector, for any users and any       *)
(* number of sockets.                                                      *)
(*                                                                         *)
(* What is an attempt is counted: no step but a connect() adds one.  As    *)
(* long as connect() is only called when all is at rest there is one       *)
(* attempt at most, and where it is says what the others are not.          *)
(***************************************************************************)
EXTENDS TcpClient, SequenceTheorems, FiniteSetTheorems, TLAPS

(* What is queued.                                                         *)
Entry == [op : Ops, sock : Socks \cup {None}]
Closed(s, c) == s \in Socks /\ c[s] \in {"down", "destroyed"}
Down(q, c) == \A i \in DOMAIN q : q[i].op = "connectDestroyed" => Closed(q[i].sock, c)
Starting == Has(pendingFunctors_, "startInLoop") \/ Has(functors, "startInLoop")
Up(s) == conn[s] = "up"
Restarting == pc \in {"restart", "restarted"}

(* The channel is there from connecting() until the one resetChannel() of  *)
(* its removal.                                                            *)
ChannelInv ==
    /\ (watched <=> state_ = "kConnecting") /\ (watched => channel_ \in Socks)
    /\ Queued("resetChannel") <=> ~watched /\ channel_ # None
    /\ ~(Has(pendingFunctors_, "resetChannel") /\ Has(functors, "resetChannel"))
    /\ Count(pendingFunctors_, "resetChannel") <= 1
    /\ Count(functors, "resetChannel") <= 1

(* The functors run in their phase, and connectDestroyed after the close.  *)
LoopInv ==
    /\ pc # "run" => functors = <<>>
    /\ Down(pendingFunctors_, conn) /\ Down(functors, conn)

(* A connection that is up, or about to be made again, is the only one,    *)
(* and resetChannel is over before it can be lost.                         *)
UpInv ==
    /\ \A s \in Socks : Up(s) =>
          /\ state_ = "kConnected" /\ ~Restarting
          /\ \A r \in Socks : Up(r) => r = s
          /\ pc = "run" \/ s \in active => ~Has(pendingFunctors_, "resetChannel")
    /\ pc = "restart" => state_ = "kConnected"
    /\ pc = "restarted" => state_ = "kDisconnected"
    /\ Restarting => retry_ /\ ~Has(pendingFunctors_, "resetChannel")

(* While there is one attempt at most, a start or a timer finds the        *)
(* connector disconnected and its channel reset.                           *)
StartInv ==
    early = 0 =>
       /\ upc = "start" \/ Starting => state_ = "kDisconnected" /\ channel_ = None
       /\ timers > 0 => state_ = "kDisconnected"
       /\ timers > young => ~Has(pendingFunctors_, "resetChannel")

(* The destructor is the last call; before it has run the client knows its *)
(* connection.  A client that its own loop destroys leaves no attempt and  *)
(* no connection that would call it.                                       *)
ClientInv ==
    /\ InLoop => upc = "idle" /\ (client # "alive" => ~Restarting)
    /\ InLoop /\ client = "dying" => connection_ = None
    /\ client # "alive" => done = Len(Calls) /\ upc \in {"idle", "stopLast"}
    /\ upc = "stopLast" => client = "dying" /\ (~retry_ => ~connect_)
    /\ client # "gone" =>
          /\ ~Queued("setCloseCallback") /\ keeper = 0
          /\ \A s \in Socks : closeCallback[s] = "client" /\ (Up(s) <=> connection_ = s)
    /\ client = "gone" => upc = "idle"
    /\ client = "gone" /\ InLoop =>
          /\ \A s \in Socks : Up(s) => closeCallback[s] = "detail"
          /\ early = 0 /\ connect_ => timers = 0 /\ ~watched /\ ~Starting

(* When the destructor has run: the keeper lasts as long as stopInLoop and *)
(* the resetChannel it queues need, and afterwards nothing is queued.      *)
Left == client = "gone" /\ ~dropped /\ (InLoop \/ ~retry_)
LeaveInv ==
    /\ Left /\ keeper = 0 =>
          /\ channel_ = None /\ ~ConnectorQueued
          /\ connect_ /\ timers > 0 => state_ = "kConnected"
    /\ Left /\ keeper > 0 =>
          /\ ~connect_ /\ (watched => Queued("stopInLoop"))
          /\ Has(pendingFunctors_, "stopInLoop") \/ Has(pendingFunctors_, "startInLoop")
                => keeper >= 3
          /\ Has(functors, "stopInLoop") \/ Has(pendingFunctors_, "resetChannel")
                => keeper >= 2

Sound == /\ ChannelInv /\ LoopInv /\ UpInv /\ StartInv /\ ClientInv /\ LeaveInv
         /\ AtMostOne /\ KeepsTrying
IInv == TypeOK /\ SocketsOwned /\ NoAssertFails /\ (aborted = {} => Sound)

-----------------------------------------------------------------------------
(* What append, taking the first, and nothing at all do to a queue.        *)
LEMMA EmptyHas ==
    /\ \A op : ~Has(<<>>, op) /\ Count(<<>>, op) = 0
    /\ \A c : Down(<<>>, c)
    /\ <<>> \in Seq(Entry)
<1>1. \A op : {i \in DOMAIN <<>> : <<>>[i].op = op} = {}
  BY EmptySeq
<1>2. \A op : Count(<<>>, op) = 0
  BY <1>1, FS_EmptySet DEF Count
<1> QED BY <1>2, EmptySeq DEF Has, Down

LEMMA CountIs ==
    ASSUME NEW q \in Seq(Entry), NEW op
    PROVE  /\ {i \in DOMAIN q : q[i].op = op} \subseteq 1..Len(q)
           /\ IsFiniteSet({i \in DOMAIN q : q[i].op = op})
           /\ Count(q, op) \in Nat /\ (Has(q, op) <=> Count(q, op) > 0)
<1> DEFINE S == {i \in DOMAIN q : q[i].op = op}
<1>1. Len(q) \in Nat /\ DOMAIN q = 1..Len(q)
  BY LenProperties
<1>2. S \subseteq 1..Len(q) /\ IsFiniteSet(S)
  <2>1. IsFiniteSet(1..Len(q))
    BY <1>1, FS_Interval
  <2>2. S \subseteq 1..Len(q)
    BY <1>1
  <2> QED BY <2>1, <2>2, FS_Subset
<1>3. Cardinality(S) \in Nat /\ (Cardinality(S) = 0 <=> S = {})
  BY <1>2, FS_CardinalityType, FS_EmptySet
<1>4. Has(q, op) <=> S # {}
  BY DEF Has
<1> QED BY <1>2, <1>3, <1>4 DEF Count

LEMMA AppendHas ==
    ASSUME NEW q \in Seq(Entry), NEW e \in Entry
    PROVE  /\ Append(q, e) \in Seq(Entry)
           /\ \A op : Has(Append(q, e), op) <=> Has(q, op) \/ e.op = op
           /\ \A op : Count(Append(q, e), op) = Count(q, op) + One(e.op = op)
           /\ \A c : Down(q, c) /\ (e.op = "connectDestroyed" => Closed(e.sock, c))
                     => Down(Append(q, e), c)
<1> DEFINE a == Append(q, e)
<1>1. /\ a \in Seq(Entry) /\ Len(q) \in Nat /\ Len(a) = Len(q) + 1
      /\ DOMAIN q = 1..Len(q) /\ DOMAIN a = 1..Len(a)
      /\ \A i \in 1..Len(q) : a[i] = q[i]
      /\ a[Len(q) + 1] = e
  BY AppendProperties, LenProperties
<1> HIDE DEF a
<1>2. \A op : Has(a, op) <=> Has(q, op) \/ e.op = op
  BY <1>1 DEF Has
<1>3. ASSUME NEW op PROVE Count(a, op) = Count(q, op) + One(e.op = op)
  <2> DEFINE S == {i \in DOMAIN q : q[i].op = op}
             T == {i \in DOMAIN a : a[i].op = op}
  <2>1. IsFiniteSet(S) /\ Count(q, op) = Cardinality(S) /\ Cardinality(S) \in Nat
    BY CountIs DEF Count
  <2>2. CASE e.op = op
    <3>1. T = S \cup {Len(q) + 1} /\ Len(q) + 1 \notin S
      BY <1>1, <2>2
    <3>2. Cardinality(T) = Cardinality(S) + 1
      BY <2>1, <3>1, FS_AddElement
    <3> QED BY <2>1, <2>2, <3>2 DEF Count, One
  <2>3. CASE e.op # op
    <3>1. T = S
      BY <1>1, <2>3
    <3>2. Count(a, op) = Cardinality(T) /\ One(e.op = op) = 0
      BY <2>3 DEF Count, One
    <3> HIDE DEF S, T
    <3> QED BY <2>1, <3>1, <3>2
  <2> QED BY <2>2, <2>3
<1>4. \A c : Down(q, c) /\ (e.op = "connectDestroyed" => Closed(e.sock, c))
             => Down(a, c)
  BY <1>1 DEF Down
<1> QED BY <1>1, <1>2, <1>3, <1>4 DEF a

LEMMA TailHas ==
    ASSUME NEW q \in Seq(Entry), q # <<>>
    PROVE  /\ Tail(q) \in Seq(Entry) /\ Head(q) \in Entry
           /\ \A op : Has(q, op) <=> Has(Tail(q), op) \/ Head(q).op = op
           /\ \A op : Count(q, op) = Count(Tail(q), op) + One(Head(q).op = op)
           /\ \A c : Down(q, c) => /\ Down(Tail(q), c)
                                   /\ Head(q).op = "connectDestroyed" =>
                                         Closed(Head(q).sock, c)
<1> DEFINE t == Tail(q)
           h == Head(q)
<1>1. /\ t \in Seq(Entry) /\ Len(q) \in Nat \ {0} /\ Len(t) = Len(q) - 1
      /\ DOMAIN q = 1..Len(q) /\ DOMAIN t = 1..Len(t)
      /\ \A i \in 1..Len(t) : t[i] = q[i + 1]
      /\ h = q[1] /\ h \in Entry
  BY HeadTailProperties, LenProperties, EmptySeq
<1> HIDE DEF t, h
<1>2. \A i \in DOMAIN q : i = 1 \/ (i - 1 \in DOMAIN t /\ t[i - 1] = q[i])
  BY <1>1
<1>3. \A i \in DOMAIN t : i + 1 \in DOMAIN q /\ i + 1 # 1 /\ t[i] = q[i + 1]
  BY <1>1
<1>4. ASSUME NEW op
      PROVE  /\ Has(q, op) <=> Has(t, op) \/ h.op = op
             /\ Count(q, op) = Count(t, op) + One(h.op = op)
  <2> DEFINE Q == {i \in DOMAIN q : q[i].op = op}
             T == {i \in DOMAIN t : t[i].op = op}
             R == Q \ {1}
  <2>1. /\ IsFiniteSet(Q) /\ Count(q, op) = Cardinality(Q) /\ Cardinality(Q) \in Nat
        /\ IsFiniteSet(T) /\ Count(t, op) = Cardinality(T) /\ Cardinality(T) \in Nat
        /\ (Has(q, op) <=> Count(q, op) > 0) /\ (Has(t, op) <=> Count(t, op) > 0)
    BY <1>1, CountIs DEF Count
  <2>2. Cardinality(R) = Cardinality(T)
    <3> DEFINE f == [i \in T |-> i + 1]
    <3>1. f \in [T -> R]
      BY <1>3
    <3>2. \A i, j \in T : f[i] = f[j] => i = j
      BY <1>1
    <3>3. \A r \in R : \E i \in T : f[i] = r
      <4> TAKE r \in R
      <4>1. r - 1 \in T /\ (r - 1) + 1 = r
        BY <1>1, <1>2
      <4> QED BY <4>1
    <3> HIDE DEF f, Q, T, R
    <3>4. f \in Bijection(T, R)
      BY <3>1, <3>2, <3>3 DEF Bijection, Injection, Surjection, IsInjective
    <3> QED BY <2>1, <3>4, FS_Bijection DEF ExistsBijection
  <2>3. CASE h.op = op
    <3>1. 1 \in Q
      BY <1>1, <2>3
    <3>2. Cardinality(R) = Cardinality(Q) - 1
      BY <2>1, <3>1, FS_RemoveElement
    <3> QED BY <2>1, <2>2, <2>3, <3>2 DEF One
  <2>4. CASE h.op # op
    <3>1. R = Q
      BY <1>1, <2>4
    <3>2. One(h.op = op) = 0
      BY <2>4 DEF One
    <3>3. Cardinality(Q) = Cardinality(T)
      BY <2>2, <3>1
    <3>4. Count(q, op) = Count(t, op)
      BY <2>1, <3>3, Zenon
    <3>5. Count(q, op) = Count(t, op) + One(h.op = op)
      BY <2>1, <3>2, <3>4
    <3> QED BY <2>1, <2>4, <3>4, <3>5
  <2> QED BY <2>3, <2>4
<1>5. \A c : Down(q, c) => /\ Down(t, c)
                           /\ h.op = "connectDestroyed" => Closed(h.sock, c)
  BY <1>1, <1>3 DEF Down
<1>6. t \in Seq(Entry) /\ h \in Entry
  BY <1>1
<1> QED BY <1>4, <1>5, <1>6 DEF t, h

(* What a step does to the queues.                                         *)
LEMMA Typed ==
    ASSUME TypeOK
    PROVE  /\ pendingFunctors_ \in Seq(Entry) /\ functors \in Seq(Entry)
           /\ Calls \in Seq({"connect", "stop", "disconnect", "destroy"})
           /\ Len(Calls) \in Nat /\ DOMAIN Calls = 1..Len(Calls)
           /\ InLoop \in BOOLEAN /\ retry_ \in BOOLEAN
           /\ done \in Nat /\ done <= Len(Calls)
           /\ \A i \in DOMAIN Calls : Calls[i] = "destroy" => i = Len(Calls)
<1>1. pendingFunctors_ \in Seq(Entry) /\ functors \in Seq(Entry)
  BY DEF TypeOK, Entry
<1>2. /\ user \in [calls : Seq({"connect", "stop", "disconnect", "destroy"}),
                   inLoop : BOOLEAN, retry : BOOLEAN]
      /\ \A i \in DOMAIN Calls : Calls[i] = "destroy" => i = Len(Calls)
  BY ClientAssumption DEF TypeOK, Calls
<1>3. /\ Calls \in Seq({"connect", "stop", "disconnect", "destroy"})
      /\ InLoop \in BOOLEAN /\ retry_ \in BOOLEAN
  BY <1>2 DEF Calls, InLoop, retry_
<1>4. Len(Calls) \in Nat /\ DOMAIN Calls = 1..Len(Calls)
  BY <1>3, LenProperties
<1>5. done \in 0..Len(Calls)
  BY DEF TypeOK
<1> QED BY <1>1, <1>2, <1>3, <1>4, <1>5

LEMMA Enqueued ==
    ASSUME TypeOK, NEW e \in Entry, pendingFunctors_' = Append(pendingFunctors_, e),
           functors' = functors
    PROVE  /\ pendingFunctors_' \in Seq(Entry)
           /\ \A op : Has(pendingFunctors_', op) <=> Has(pendingFunctors_, op) \/ e.op = op
           /\ \A op : Has(functors', op) <=> Has(functors, op)
           /\ \A op : Queued(op)' <=> Queued(op) \/ e.op = op
           /\ \A op : Count(pendingFunctors_', op)
                         = Count(pendingFunctors_, op) + One(e.op = op)
           /\ \A op : Count(functors', op) = Count(functors, op)
           /\ \A c : Down(pendingFunctors_, c)
                     /\ (e.op = "connectDestroyed" => Closed(e.sock, c))
                     => Down(pendingFunctors_', c)
BY Typed, AppendHas DEF Queued

LEMMA QueuesStay ==
    ASSUME UNCHANGED <<pendingFunctors_, functors>>
    PROVE  /\ \A op : Queued(op)' <=> Queued(op)
           /\ Starts' = Starts /\ (Starting' <=> Starting)
           /\ ConnectorQueued' <=> ConnectorQueued
BY DEF Queued, Starts, Starting, ConnectorQueued

(* The parts of Attempts.                                                  *)
LEMMA UpsAre ==
    ASSUME TypeOK
    PROVE  /\ IsFiniteSet({s \in Socks : conn[s] = "up"}) /\ Ups \in Nat
           /\ Ups > 0 <=> \E s \in Socks : Up(s)
<1> DEFINE U == {s \in Socks : conn[s] = "up"}
<1>1. IsFiniteSet(U)
  BY ClientAssumption, FS_Subset
<1>2. Cardinality(U) \in Nat /\ (Cardinality(U) = 0 <=> U = {})
  BY <1>1, FS_CardinalityType, FS_EmptySet
<1>3. (\E s \in Socks : Up(s)) <=> U # {}
  BY DEF Up
<1> QED BY <1>1, <1>2, <1>3 DEF Ups

LEMMA UpsMove ==
    ASSUME TypeOK, NEW s \in Socks, NEW phase, conn' = [conn EXCEPT ![s] = phase]
    PROVE  Ups' = Ups + One(phase = "up") - One(Up(s))
<1> DEFINE U == {r \in Socks : conn[r] = "up"}
           V == {r \in Socks : conn'[r] = "up"}
<1>1. IsFiniteSet(U) /\ Cardinality(U) \in Nat /\ Ups = Cardinality(U) /\ Ups' = Cardinality(V)
  BY UpsAre DEF Ups
<1>2. conn \in [Socks -> {"none", "up", "down", "destroyed"}]
  BY DEF TypeOK
<1>3. conn'[s] = phase /\ \A r \in Socks : r # s => conn'[r] = conn[r]
  BY <1>2
<1>4. s \in U <=> Up(s)
  BY DEF Up
<1>5. CASE phase = "up"
  <2>1. V = U \cup {s}
    BY <1>3, <1>5
  <2>2. Cardinality(V) = IF s \in U THEN Cardinality(U) ELSE Cardinality(U) + 1
    BY <1>1, <2>1, FS_AddElement
  <2> HIDE DEF U, V
  <2> QED BY <1>1, <1>4, <1>5, <2>2 DEF One
<1>6. CASE phase # "up"
  <2>1. V = U \ {s}
    BY <1>3, <1>6
  <2>2. Cardinality(V) = IF s \in U THEN Cardinality(U) - 1 ELSE Cardinality(U)
    BY <1>1, <2>1, FS_RemoveElement
  <2> HIDE DEF U, V
  <2> QED BY <1>1, <1>4, <1>6, <2>2 DEF One
<1> QED BY <1>5, <1>6

LEMMA Parts ==
    ASSUME TypeOK
    PROVE  /\ Starts \in Nat /\ (Starts > 0 <=> Starting)
           /\ Ups \in Nat /\ (Ups > 0 <=> \E s \in Socks : Up(s))
           /\ One(upc = "start") \in {0, 1} /\ (One(upc = "start") = 1 <=> upc = "start")
           /\ One(watched) \in {0, 1} /\ (One(watched) = 1 <=> watched)
           /\ One(Restarting) \in {0, 1} /\ (One(Restarting) = 1 <=> Restarting)
           /\ timers \in Nat /\ young \in Nat /\ young <= timers /\ early \in Nat
           /\ Attempts = One(upc = "start") + Starts + timers + One(watched) + Ups
                         + One(Restarting)
           /\ Attempts \in Nat
<1>1. /\ Count(pendingFunctors_, "startInLoop") \in Nat
      /\ Count(functors, "startInLoop") \in Nat
      /\ Has(pendingFunctors_, "startInLoop") <=> Count(pendingFunctors_, "startInLoop") > 0
      /\ Has(functors, "startInLoop") <=> Count(functors, "startInLoop") > 0
  BY Typed, CountIs
<1>2. Starts \in Nat /\ (Starts > 0 <=> Starting)
  BY <1>1 DEF Starts, Starting
<1>3. timers \in Nat /\ young \in Nat /\ young <= timers /\ early \in Nat /\ watched \in BOOLEAN
  BY DEF TypeOK
<1>4. /\ One(upc = "start") \in {0, 1} /\ (One(upc = "start") = 1 <=> upc = "start")
      /\ One(watched) \in {0, 1} /\ (One(watched) = 1 <=> watched)
      /\ One(Restarting) \in {0, 1} /\ (One(Restarting) = 1 <=> Restarting)
  BY <1>3 DEF One
<1>5. Attempts = One(upc = "start") + Starts + timers + One(watched) + Ups + One(Restarting)
  BY DEF Attempts, Restarting
<1>6. Attempts \in Nat
  BY <1>2, <1>3, <1>4, <1>5, UpsAre
<1> QED BY <1>2, <1>3, <1>4, <1>5, <1>6, UpsAre

(* As long as connect() is called at rest one part excludes the others.    *)
LEMMA OneToken ==
    ASSUME TypeOK, AtMostOne, aborted = {}, early = 0
    PROVE  /\ timers \in {0, 1} /\ Starts + One(upc = "start") <= 1
           /\ upc = "start" \/ Starting =>
                 timers = 0 /\ ~watched /\ ~Restarting /\ \A s \in Socks : ~Up(s)
           /\ timers > 0 =>
                 /\ upc # "start" /\ ~Starting /\ ~watched /\ ~Restarting
                 /\ \A s \in Socks : ~Up(s)
           /\ watched => upc # "start" /\ ~Starting /\ timers = 0
           /\ (\E s \in Socks : Up(s)) => upc # "start" /\ ~Starting /\ timers = 0 /\ ~watched
           /\ Restarting => upc # "start" /\ ~Starting /\ timers = 0 /\ ~watched
<1>1. One(upc = "start") + Starts + timers + One(watched) + Ups + One(Restarting) <= 1
  BY Parts DEF AtMostOne
<1> DEFINE a == One(upc = "start")
           w == One(watched)
           r == One(Restarting)
<1>2. /\ a \in {0, 1} /\ w \in {0, 1} /\ r \in {0, 1}
      /\ Starts \in Nat /\ Ups \in Nat /\ timers \in Nat
  BY Parts
<1>3. a + Starts + timers + w + Ups + r <= 1
  BY <1>1
<1>4. /\ upc = "start" <=> a = 1
      /\ Starting <=> Starts > 0
      /\ watched <=> w = 1
      /\ Restarting <=> r = 1
      /\ (\E s \in Socks : Up(s)) <=> Ups > 0
  BY Parts
<1> HIDE DEF a, w, r
<1>5. /\ timers \in {0, 1} /\ Starts + a <= 1
      /\ a = 1 \/ Starts > 0 => timers = 0 /\ w # 1 /\ r # 1 /\ ~(Ups > 0)
      /\ timers > 0 => a # 1 /\ ~(Starts > 0) /\ w # 1 /\ r # 1 /\ ~(Ups > 0)
      /\ w = 1 => a # 1 /\ ~(Starts > 0) /\ timers = 0
      /\ Ups > 0 => a # 1 /\ ~(Starts > 0) /\ timers = 0 /\ w # 1
      /\ r = 1 => a # 1 /\ ~(Starts > 0) /\ timers = 0 /\ w # 1
  BY <1>2, <1>3
<1>6. timers \in {0, 1} /\ Starts + One(upc = "start") <= 1
  BY <1>5 DEF a
<1>7. /\ upc = "start" \/ Starting =>
            timers = 0 /\ ~watched /\ ~Restarting /\ \A s \in Socks : ~Up(s)
      /\ timers > 0 => /\ upc # "start" /\ ~Starting /\ ~watched /\ ~Restarting
                       /\ \A s \in Socks : ~Up(s)
  BY <1>4, <1>5
<1>8. /\ watched => upc # "start" /\ ~Starting /\ timers = 0
      /\ (\E s \in Socks : Up(s)) => upc # "start" /\ ~Starting /\ timers = 0 /\ ~watched
      /\ Restarting => upc # "start" /\ ~Starting /\ timers = 0 /\ ~watched
  BY <1>4, <1>5
<1> QED BY <1>6, <1>7, <1>8

LEMMA NoneLeft ==
    ASSUME TypeOK, Attempts = 0
    PROVE  timers = 0 /\ ~watched /\ ~Starting /\ upc # "start" /\ \A s \in Socks : ~Up(s)
<1> DEFINE a == One(upc = "start")
           w == One(watched)
           r == One(Restarting)
<1>1. /\ a \in {0, 1} /\ w \in {0, 1} /\ r \in {0, 1}
      /\ Starts \in Nat /\ Ups \in Nat /\ timers \in Nat
      /\ a + Starts + timers + w + Ups + r = 0
  BY Parts
<1>2. /\ upc = "start" <=> a = 1
      /\ Starting <=> Starts > 0
      /\ watched <=> w = 1
      /\ (\E s \in Socks : Up(s)) <=> Ups > 0
  BY Parts
<1> HIDE DEF a, w, r
<1>3. a # 1 /\ ~(Starts > 0) /\ timers = 0 /\ w # 1 /\ ~(Ups > 0)
  BY <1>1
<1> QED BY <1>2, <1>3

LEMMA Opens ==
    ASSUME IInv, aborted = {}
    PROVE  /\ TypeOK /\ SocketsOwned /\ NoAssertFails /\ ChannelInv /\ LoopInv /\ UpInv
           /\ StartInv /\ ClientInv /\ LeaveInv /\ AtMostOne /\ KeepsTrying
BY DEF IInv, Sound

LEMMA CallsStay ==
    ASSUME UNCHANGED user
    PROVE  Calls' = Calls /\ InLoop' = InLoop /\ retry_' = retry_
BY DEF Calls, InLoop, retry_

LEMMA CallsGoOn ==
    ASSUME IInv, aborted = {}, NEW op, Calling(op), UNCHANGED user
    PROVE  /\ done' \in 0..Len(Calls) /\ upc = "idle" /\ client = "alive"
           /\ op = "destroy" => done' = Len(Calls)
           /\ InLoop => ~Restarting
<1>1. /\ upc = "idle" /\ done < Len(Calls) /\ Calls[done + 1] = op /\ done' = done + 1
      /\ InLoop => pc \in {"poll", "run"}
  BY DEF Calling
<1>2. /\ done \in Nat /\ Len(Calls) \in Nat /\ DOMAIN Calls = 1..Len(Calls)
      /\ \A i \in DOMAIN Calls : Calls[i] = "destroy" => i = Len(Calls)
  BY Typed, Opens
<1>3. done' \in 0..Len(Calls) /\ done + 1 \in DOMAIN Calls /\ done # Len(Calls)
  <2> DEFINE n == Len(Calls)
  <2>1. done \in Nat /\ n \in Nat /\ done < n /\ done' = done + 1 /\ DOMAIN Calls = 1..n
    BY <1>1, <1>2
  <2> HIDE DEF n
  <2>2. done' \in 0..n /\ done + 1 \in 1..n /\ done # n
    BY <2>1
  <2> QED BY <2>1, <2>2 DEF n
<1>4. op = "destroy" => done' = Len(Calls)
  BY <1>1, <1>2, <1>3
<1>5. client = "alive"
  BY <1>3, Opens DEF ClientInv, TypeOK
<1>6. InLoop => ~Restarting
  BY <1>1 DEF Restarting
<1> QED BY <1>1, <1>3, <1>4, <1>5, <1>6

-----------------------------------------------------------------------------
(* The invariant is preserved, one lemma for each action.                  *)
LEMMA Closes ==
    ASSUME TypeOK', SocketsOwned', aborted' = {}, ChannelInv', LoopInv', UpInv', StartInv',
           ClientInv', LeaveInv', AtMostOne', KeepsTrying'
    PROVE  IInv'
BY DEF IInv, Sound, NoAssertFails

(* A step of a caller alone.                                               *)
LEMMA CallerStep ==
    ASSUME IInv, aborted = {}, UNCHANGED <<connector, loop, life, aborted, user>>
    PROVE  /\ SocketsOwned' /\ aborted' = {} /\ ChannelInv' /\ LoopInv' /\ UpInv'
           /\ \A op : Queued(op)' <=> Queued(op)
           /\ Starts' = Starts /\ (Starting' <=> Starting) /\ Ups' = Ups
           /\ (ConnectorQueued' <=> ConnectorQueued)
           /\ Calls' = Calls /\ InLoop' = InLoop /\ retry_' = retry_
           /\ Attempts' = Attempts - One(upc = "start") + One(upc' = "start")
<1>1. /\ UNCHANGED <<state_, channel_, watched, timers, young, sock, pendingFunctors_,
                     functors, pc, active, conn, aborted>>
  BY DEF connector, clock, loop, life
<1>2. /\ \A op : Queued(op)' <=> Queued(op)
      /\ Starts' = Starts /\ (Starting' <=> Starting)
      /\ (ConnectorQueued' <=> ConnectorQueued)
  BY <1>1, QueuesStay
<1>3. Calls' = Calls /\ InLoop' = InLoop /\ retry_' = retry_
  BY CallsStay
<1>4. ChannelInv'
  BY <1>1, <1>2, Opens DEF ChannelInv
<1>5. LoopInv'
  BY <1>1, Opens DEF LoopInv
<1>6. UpInv'
  BY <1>1, <1>3, Opens DEF UpInv, Up, Restarting
<1>7. SocketsOwned'
  BY <1>1, Opens DEF SocketsOwned
<1>8. Ups' = Ups /\ Restarting' = Restarting
  BY <1>1 DEF Ups, Restarting
<1>9. Attempts' = One(upc' = "start") + Starts + timers + One(watched) + Ups + One(Restarting)
  BY <1>1, <1>2, <1>8 DEF Attempts, Restarting
<1>10. Attempts' = Attempts - One(upc = "start") + One(upc' = "start")
  <2>1. One(upc' = "start") \in {0, 1}
    BY DEF One
  <2> QED BY <1>9, <2>1, Parts, Opens
<1> QED BY <1>1, <1>2, <1>3, <1>4, <1>5, <1>6, <1>7, <1>8, <1>10

LEMMA DisconnectKeeps ==
    ASSUME IInv, aborted = {}, UserDisconnect, UNCHANGED user
    PROVE  IInv'
<1>1. /\ Calling("disconnect") /\ wanted' = FALSE
      /\ UNCHANGED <<connect_, connector, loop, aborted, life, client, keeper, upc, history>>
  BY DEF UserDisconnect
<1>2. UNCHANGED <<connect_, connector, loop, life, aborted, client, keeper, upc, early, dropped>>
  BY <1>1 DEF history
<1>3. /\ SocketsOwned' /\ aborted' = {} /\ ChannelInv' /\ LoopInv' /\ UpInv'
      /\ \A op : Queued(op)' <=> Queued(op)
      /\ (Starting' <=> Starting) /\ (ConnectorQueued' <=> ConnectorQueued)
      /\ Calls' = Calls /\ InLoop' = InLoop /\ retry_' = retry_
      /\ Attempts' = Attempts - One(upc = "start") + One(upc' = "start")
  BY <1>2, CallerStep
<1>4. done' \in 0..Len(Calls) /\ client = "alive"
  BY <1>1, CallsGoOn
<1>5. TypeOK'
  BY <1>1, <1>2, <1>3, <1>4, Opens DEF TypeOK, connector, clock, loop, life
<1>6. StartInv'
  BY <1>2, <1>3, Opens DEF StartInv, connector, clock, loop
<1>7. ClientInv'
  BY <1>2, <1>3, <1>4, Opens DEF ClientInv, Up, Restarting, connector, clock, loop, life
<1>8. LeaveInv'
  BY <1>2, <1>4 DEF LeaveInv, Left
<1>9. Attempts' = Attempts
  BY <1>2, <1>3, Parts, Opens
<1>10. AtMostOne' /\ KeepsTrying'
  BY <1>1, <1>2, <1>3, <1>9, Opens DEF AtMostOne, KeepsTrying, Lost, connector
<1> QED BY <1>3, <1>5, <1>6, <1>7, <1>8, <1>10, Closes

LEMMA DestroyUnconnectedKeeps ==
    ASSUME IInv, aborted = {}, DestroyUnconnected, UNCHANGED user
    PROVE  IInv'
<1>1. /\ Calling("destroy") /\ connection_ = None /\ client' = "dying"
      /\ UNCHANGED <<connect_, connector, loop, aborted, life, wanted, keeper, upc, history>>
  BY DEF DestroyUnconnected
<1>2. UNCHANGED <<connect_, connector, loop, life, aborted, wanted, keeper, upc, early, dropped>>
  BY <1>1 DEF history
<1>3. /\ SocketsOwned' /\ aborted' = {} /\ ChannelInv' /\ LoopInv' /\ UpInv'
      /\ \A op : Queued(op)' <=> Queued(op)
      /\ (Starting' <=> Starting) /\ (ConnectorQueued' <=> ConnectorQueued)
      /\ Calls' = Calls /\ InLoop' = InLoop /\ retry_' = retry_
      /\ Attempts' = Attempts - One(upc = "start") + One(upc' = "start")
  BY <1>2, CallerStep
<1>4. /\ done' \in 0..Len(Calls) /\ client = "alive" /\ upc = "idle"
      /\ done' = Len(Calls) /\ (InLoop => ~Restarting)
  BY <1>1, CallsGoOn
<1>5. TypeOK'
  BY <1>1, <1>2, <1>3, <1>4, Opens DEF TypeOK, connector, clock, loop, life
<1>6. StartInv'
  BY <1>2, <1>3, Opens DEF StartInv, connector, clock, loop
<1>7. ClientInv'
  BY <1>1, <1>2, <1>3, <1>4, Opens DEF ClientInv, Up, Restarting, connector, clock, loop, life
<1>8. LeaveInv'
  BY <1>1 DEF LeaveInv, Left
<1>9. Attempts' = Attempts
  BY <1>2, <1>3, Parts, Opens
<1>10. AtMostOne' /\ KeepsTrying'
  BY <1>1, <1>2, <1>3, <1>9, Opens DEF AtMostOne, KeepsTrying, Lost, connector
<1> QED BY <1>3, <1>5, <1>6, <1>7, <1>8, <1>10, Closes

LEMMA KeeperKeeps ==
    ASSUME IInv, aborted = {}, KeeperFires, UNCHANGED user
    PROVE  IInv'
<1>1. /\ keeper = 1 /\ pc = "poll" /\ keeper' = 0
      /\ UNCHANGED <<connect_, connector, loop, aborted, life, wanted, client, done, upc,
                     early, dropped>>
  BY DEF KeeperFires, history
<1>2. /\ SocketsOwned' /\ aborted' = {} /\ ChannelInv' /\ LoopInv' /\ UpInv'
      /\ \A op : Queued(op)' <=> Queued(op)
      /\ (Starting' <=> Starting) /\ (ConnectorQueued' <=> ConnectorQueued)
      /\ Calls' = Calls /\ InLoop' = InLoop /\ retry_' = retry_
      /\ Attempts' = Attempts - One(upc = "start") + One(upc' = "start")
  BY <1>1, CallerStep
<1>3. TypeOK'
  BY <1>1, <1>2, Opens DEF TypeOK, connector, clock, loop, life
<1>4. StartInv'
  BY <1>1, <1>2, Opens DEF StartInv, connector, clock, loop
<1>5. ClientInv'
  BY <1>1, <1>2, Opens DEF ClientInv, Up, Restarting, connector, clock, loop, life
<1>6. LeaveInv'
  <2> SUFFICES ASSUME Left PROVE channel_ = None /\ ~ConnectorQueued /\ ~connect_
    BY <1>1, <1>2 DEF LeaveInv, Left, connector, clock
  <2>1. \A op : ~Has(functors, op)
    BY <1>1, EmptyHas, Opens DEF LoopInv
  <2>2. /\ ~connect_ /\ (watched => Queued("stopInLoop"))
        /\ ~Has(pendingFunctors_, "stopInLoop") /\ ~Has(pendingFunctors_, "startInLoop")
        /\ ~Has(pendingFunctors_, "resetChannel")
    BY <1>1, Opens DEF LeaveInv
  <2>3. ~ConnectorQueued
    BY <2>1, <2>2 DEF ConnectorQueued, Queued
  <2>4. ~watched /\ ~Queued("resetChannel")
    BY <2>1, <2>2 DEF Queued
  <2> QED BY <2>2, <2>3, <2>4, Opens DEF ChannelInv
<1>7. Attempts' = Attempts
  BY <1>1, <1>2, Parts, Opens
<1>8. AtMostOne' /\ KeepsTrying'
  BY <1>1, <1>2, <1>7, Opens DEF AtMostOne, KeepsTrying, Lost, connector
<1> QED BY <1>2, <1>3, <1>4, <1>5, <1>6, <1>8, Closes

LEMMA Stutters ==
    ASSUME IInv, UNCHANGED vars
    PROVE  IInv'
<1>1. UNCHANGED <<connect_, state_, channel_, watched, timers, young, retryDelayMs_, sock,
                  gaveUp, pendingFunctors_, functors, pc, active, aborted, wanted, client,
                  keeper, done, upc, early, dropped, connection_, conn, closeCallback, user>>
  BY DEF vars, connector, clock, loop, callers, history, life
<1>2. TypeOK'
  BY <1>1 DEF IInv, TypeOK, Calls
<1>3. SocketsOwned' /\ NoAssertFails'
  BY <1>1 DEF IInv, SocketsOwned, NoAssertFails, InLoop
<1>4. ASSUME aborted' = {} PROVE Sound'
  <2>1. aborted = {}
    BY <1>1, <1>4
  <2>2. ChannelInv' /\ LoopInv' /\ UpInv' /\ StartInv'
    BY <1>1, <2>1, Opens
       DEF ChannelInv, LoopInv, UpInv, StartInv, Up, Restarting, Starting, Queued, retry_
  <2>3. ClientInv' /\ LeaveInv'
    BY <1>1, <2>1, Opens
       DEF ClientInv, LeaveInv, Left, Up, Restarting, Starting, Queued, ConnectorQueued,
           Calls, InLoop, retry_
  <2>4. Attempts' = Attempts
    BY <1>1 DEF Attempts, Starts, Ups
  <2>5. AtMostOne' /\ KeepsTrying'
    BY <1>1, <2>1, <2>4, Opens DEF AtMostOne, KeepsTrying, Lost, retry_
  <2> QED BY <2>2, <2>3, <2>5 DEF Sound
<1> QED BY <1>2, <1>3, <1>4 DEF IInv

-----------------------------------------------------------------------------
(* What startInLoop() does: a channel, a timer or neither.                 *)
Attempted(c, t) ==
    \/ /\ c /\ state_' = "kConnecting" /\ channel_ = None /\ channel_' \in Socks
       /\ watched' = TRUE /\ timers' = t /\ young' = young
    \/ /\ state_' = "kDisconnected" /\ channel_' = channel_ /\ watched' = FALSE
       /\ \/ c /\ timers' = t + 1 /\ young' = young + 1
          \/ timers' = t /\ young' = young /\ (c => gaveUp' = TRUE)

Typable ==
    /\ state_' \in {"kDisconnected", "kConnecting", "kConnected"} /\ watched' \in BOOLEAN
    /\ channel_' \in Socks \cup {None} /\ timers' \in Nat /\ young' \in 0..timers'
    /\ retryDelayMs_' \in kInitRetryDelayMs..kMaxRetryDelayMs
    /\ sock' \in [Socks -> {"none", "open", "closed", "handed"}]

LEMMA TimerFacts ==
    ASSUME TypeOK, NEW t \in Nat, young <= t, NEW c \in BOOLEAN, retryTimer(c, t)
    PROVE  /\ timers' = t + One(c) /\ young' = young + One(c)
           /\ timers' \in Nat /\ young' \in 0..timers'
           /\ retryDelayMs_' \in kInitRetryDelayMs..kMaxRetryDelayMs
<1>1. young \in Nat /\ retryDelayMs_ \in kInitRetryDelayMs..kMaxRetryDelayMs
  BY DEF TypeOK
<1>2. CASE c = TRUE
  <2>1. /\ timers' = t + 1 /\ young' = young + 1
        /\ retryDelayMs_' = (IF retryDelayMs_ * 2 < kMaxRetryDelayMs
                             THEN retryDelayMs_ * 2 ELSE kMaxRetryDelayMs)
    BY <1>2 DEF retryTimer
  <2>2. retryDelayMs_' \in kInitRetryDelayMs..kMaxRetryDelayMs
    BY <1>1, <2>1, DelayAssumption
  <2>3. One(c) = 1
    BY <1>2 DEF One
  <2> QED BY <1>1, <2>1, <2>2, <2>3
<1>3. CASE c = FALSE
  <2>1. timers' = t /\ young' = young /\ retryDelayMs_' = retryDelayMs_ /\ One(c) = 0
    BY <1>3 DEF retryTimer, One
  <2> QED BY <1>1, <2>1
<1> QED BY <1>2, <1>3

LEMMA ConnectFacts ==
    ASSUME TypeOK, SocketsOwned, watched = FALSE, conn' = conn, aborted = {},
           NEW t \in Nat, young <= t, NEW s \in Fresh, connect(s, t)
    PROVE  /\ SocketsOwned' /\ Typable
           /\ channel_ = None => aborted' = {}
           /\ aborted' = {} => Attempted(TRUE, t)
<1>1. /\ s \in Socks /\ sock \in [Socks -> {"none", "open", "closed", "handed"}]
      /\ sock[s] \in {"none", "closed"} /\ channel_ \in Socks \cup {None}
  BY DEF Fresh, TypeOK
<1>2. /\ {r \in Socks : sock[r] = "open"} = {}
      /\ \A r \in Socks : (sock[r] = "handed") = (conn[r] # "none")
  BY DEF SocketsOwned
<1>3. CASE connecting(s) /\ retryTimer(FALSE, t)
  <2>1. /\ state_' = "kConnecting" /\ channel_' = s /\ watched' = TRUE
        /\ sock' = [sock EXCEPT ![s] = "open"]
        /\ aborted' = IF channel_ = None THEN aborted
                      ELSE aborted \cup {"connecting: assert(!channel_)"}
    BY <1>3 DEF connecting, assert
  <2>2. /\ timers' = t /\ young' = young
        /\ timers' \in Nat /\ young' \in 0..timers'
        /\ retryDelayMs_' \in kInitRetryDelayMs..kMaxRetryDelayMs
    <3>1. t + One(FALSE) = t /\ young + One(FALSE) = young
      BY DEF One, TypeOK
    <3> QED BY <1>3, <3>1, TimerFacts
  <2>3. {r \in Socks : sock'[r] = "open"} = {s}
    BY <1>1, <1>2, <2>1
  <2>4. \A r \in Socks : (sock'[r] = "handed") = (conn[r] # "none")
    BY <1>1, <1>2, <2>1
  <2>5. SocketsOwned'
    BY <2>1, <2>3, <2>4 DEF SocketsOwned
  <2>6. sock' \in [Socks -> {"none", "open", "closed", "handed"}]
    BY <1>1, <2>1
  <2>7. Typable
    BY <1>1, <2>1, <2>2, <2>6 DEF Typable
  <2>8. aborted' = {} <=> channel_ = None
    BY <2>1
  <2> QED BY <1>1, <2>1, <2>2, <2>5, <2>7, <2>8 DEF Attempted
<1>4. ASSUME NEW c \in BOOLEAN, retry(s, c, t), UNCHANGED <<channel_, watched, aborted>>,
             ~c => gaveUp' = TRUE
      PROVE  /\ SocketsOwned' /\ Typable /\ aborted' = {} /\ Attempted(TRUE, t)
  <2>1. /\ state_' = "kDisconnected" /\ channel_' = channel_ /\ watched' = FALSE
        /\ sock' = [sock EXCEPT ![s] = "closed"] /\ aborted' = {} /\ retryTimer(c, t)
    BY <1>4 DEF retry
  <2>2. /\ timers' = t + One(c) /\ young' = young + One(c)
        /\ timers' \in Nat /\ young' \in 0..timers'
        /\ retryDelayMs_' \in kInitRetryDelayMs..kMaxRetryDelayMs
    BY <2>1, TimerFacts
  <2>3. {r \in Socks : sock'[r] = "open"} = {}
    BY <1>1, <1>2, <2>1
  <2>4. \A r \in Socks : (sock'[r] = "handed") = (conn[r] # "none")
    BY <1>1, <1>2, <2>1
  <2>5. SocketsOwned'
    BY <2>1, <2>3, <2>4 DEF SocketsOwned
  <2>6. sock' \in [Socks -> {"none", "open", "closed", "handed"}]
    BY <1>1, <2>1
  <2>7. Typable
    BY <1>1, <2>1, <2>2, <2>6 DEF Typable
  <2>8. Attempted(TRUE, t)
    <3>1. young \in Nat
      BY DEF TypeOK
    <3>2. CASE c = TRUE
      <4>1. timers' = t + 1 /\ young' = young + 1
        BY <2>2, <3>2 DEF One
      <4> QED BY <2>1, <4>1 DEF Attempted
    <3>3. CASE c = FALSE
      <4>1. timers' = t /\ young' = young
        BY <2>2, <3>1, <3>3 DEF One
      <4> QED BY <1>4, <2>1, <3>3, <4>1 DEF Attempted
    <3> QED BY <3>2, <3>3
  <2> QED BY <2>1, <2>5, <2>7, <2>8
<1>5. CASE retry(s, TRUE, t) /\ UNCHANGED <<channel_, watched, aborted>>
  BY <1>4, <1>5
<1>6. CASE retry(s, FALSE, t) /\ gaveUp' = TRUE /\ UNCHANGED <<channel_, watched, aborted>>
  BY <1>4, <1>6
<1> QED BY <1>3, <1>5, <1>6 DEF connect

LEMMA StartFacts ==
    ASSUME TypeOK, SocketsOwned, ChannelInv, conn' = conn, aborted = {},
           NEW t \in Nat, young <= t, NEW c \in BOOLEAN, startInLoop(c, t)
    PROVE  /\ SocketsOwned' /\ Typable
           /\ state_ = "kDisconnected" /\ channel_ = None => aborted' = {}
           /\ aborted' = {} => state_ = "kDisconnected" /\ watched = FALSE /\ Attempted(c, t)
<1>1. state_ = "kDisconnected" => watched = FALSE
  BY DEF ChannelInv, TypeOK
<1>2. CASE c /\ state_ = "kDisconnected" /\ \E s \in Fresh : connect(s, t)
  <2>1. watched = FALSE /\ c = TRUE
    BY <1>1, <1>2
  <2>2. /\ SocketsOwned' /\ Typable /\ (channel_ = None => aborted' = {})
        /\ aborted' = {} => Attempted(TRUE, t)
    BY <1>2, <2>1, ConnectFacts
  <2> QED BY <1>2, <2>1, <2>2
<1>3. CASE /\ state_ # "kDisconnected" \/ ~c
           /\ assert(state_ = "kDisconnected", "startInLoop: assert state_")
           /\ timers' = t
           /\ UNCHANGED <<state_, channel_, watched, young, retryDelayMs_, sock, gaveUp>>
  <2>1. Typable
    <3>1. young \in 0..t
      BY DEF TypeOK
    <3> QED BY <1>3, <3>1 DEF Typable, TypeOK
  <2>2. SocketsOwned'
    BY <1>3 DEF SocketsOwned
  <2>3. aborted' = {} <=> state_ = "kDisconnected"
    BY <1>3 DEF assert
  <2>4. state_ = "kDisconnected" => Attempted(c, t)
    BY <1>1, <1>3 DEF Attempted
  <2> QED BY <1>1, <2>1, <2>2, <2>3, <2>4
<1> QED BY <1>2, <1>3 DEF startInLoop

(* What removeAndResetChannel() does, and with it retry().                 *)
LEMMA RemoveFacts ==
    ASSUME TypeOK, ChannelInv, watched = TRUE, state_' # "kConnecting",
           removeAndResetChannel,
           \A op : op # "stopInLoop" => /\ Has(functors', op) <=> Has(functors, op)
                                        /\ Count(functors', op) = Count(functors, op)
    PROVE  /\ watched' = FALSE /\ channel_' = channel_ /\ channel_ \in Socks /\ ChannelInv'
           /\ pendingFunctors_' \in Seq(Entry)
           /\ \A op : Has(pendingFunctors_', op) <=>
                         Has(pendingFunctors_, op) \/ op = "resetChannel"
           /\ Starts' = Starts /\ (Starting' <=> Starting)
           /\ \A c : Down(pendingFunctors_, c) => Down(pendingFunctors_', c)
<1> DEFINE e == Functor("resetChannel")
<1>1. /\ watched' = FALSE /\ channel_' = channel_ /\ pendingFunctors_' = Append(pendingFunctors_, e)
  BY DEF removeAndResetChannel, queueInLoop
<1>2. e \in Entry /\ e.op = "resetChannel"
  BY DEF Functor, Entry, Ops
<1> HIDE DEF e
<1>3. /\ pendingFunctors_' \in Seq(Entry)
      /\ \A op : Has(pendingFunctors_', op) <=> Has(pendingFunctors_, op) \/ op = "resetChannel"
      /\ \A op : Count(pendingFunctors_', op)
                    = Count(pendingFunctors_, op) + One(op = "resetChannel")
      /\ \A c : Down(pendingFunctors_, c) => Down(pendingFunctors_', c)
  <2>1. \A op : (e.op = op) <=> (op = "resetChannel")
    BY <1>2
  <2>2. \A op : One(e.op = op) = One(op = "resetChannel")
    BY <1>2 DEF One
  <2>3. e.op # "connectDestroyed"
    BY <1>2
  <2> QED BY <1>1, <1>2, <2>1, <2>2, <2>3, Typed, AppendHas
<1>4. Starts' = Starts /\ (Starting' <=> Starting)
  <2>1. Count(pendingFunctors_, "startInLoop") \in Nat
    BY Typed, CountIs
  <2>2. One("startInLoop" = "resetChannel") = 0
    BY DEF One
  <2>3. Count(pendingFunctors_', "startInLoop") = Count(pendingFunctors_, "startInLoop")
    BY <1>3, <2>1, <2>2
  <2>4. Starts' = Starts
    BY <2>3 DEF Starts
  <2>5. Starting' <=> Starting
    BY <1>3 DEF Starting
  <2> QED BY <2>4, <2>5
<1>5. ~Queued("resetChannel") /\ channel_ \in Socks /\ channel_ # None
  BY ClientAssumption DEF ChannelInv
<1>6. Count(pendingFunctors_', "resetChannel") <= 1 /\ Count(functors', "resetChannel") <= 1
  <2>1. ~(Count(pendingFunctors_, "resetChannel") > 0) /\ ~(Count(functors, "resetChannel") > 0)
    BY <1>5, Typed, CountIs DEF Queued
  <2>2. /\ Count(pendingFunctors_, "resetChannel") \in Nat
        /\ Count(functors, "resetChannel") \in Nat
    BY Typed, CountIs
  <2>3. One("resetChannel" = "resetChannel") = 1
    BY DEF One
  <2> QED BY <1>3, <2>1, <2>2, <2>3
<1>7. ChannelInv'
  <2>1. Queued("resetChannel")' /\ ~Has(functors', "resetChannel")
    BY <1>3, <1>5 DEF Queued
  <2> QED BY <1>1, <1>5, <1>6, <2>1 DEF ChannelInv
<1> QED BY <1>1, <1>3, <1>4, <1>5, <1>7

LEMMA GiveUpFacts ==
    ASSUME TypeOK, SocketsOwned, ChannelInv, watched = TRUE, watched' = FALSE, conn' = conn,
           channel_' = channel_, NEW c \in BOOLEAN, retry(channel_, c, timers)
    PROVE  /\ state_' = "kDisconnected" /\ SocketsOwned' /\ Typable
           /\ timers' = timers + One(c) /\ young' = young + One(c)
<1>1. /\ sock' = [sock EXCEPT ![channel_] = "closed"] /\ state_' = "kDisconnected"
      /\ retryTimer(c, timers)
  BY DEF retry
<1>2. /\ channel_ \in Socks /\ sock \in [Socks -> {"none", "open", "closed", "handed"}]
      /\ timers \in Nat /\ young <= timers
  BY DEF ChannelInv, TypeOK
<1>3. /\ timers' = timers + One(c) /\ young' = young + One(c)
      /\ timers' \in Nat /\ young' \in 0..timers'
      /\ retryDelayMs_' \in kInitRetryDelayMs..kMaxRetryDelayMs
  BY <1>1, <1>2, TimerFacts
<1>4. sock' \in [Socks -> {"none", "open", "closed", "handed"}]
  BY <1>1, <1>2
<1>5. Typable
  BY <1>1, <1>2, <1>3, <1>4 DEF Typable
<1>6. SocketsOwned'
  <2>1. {s \in Socks : sock[s] = "open"} = {channel_}
        /\ \A s \in Socks : (sock[s] = "handed") = (conn[s] # "none")
    BY DEF SocketsOwned
  <2>2. {s \in Socks : sock'[s] = "open"} = {}
    BY <1>1, <1>2, <2>1
  <2>3. \A s \in Socks : (sock'[s] = "handed") = (conn[s] # "none")
    <3>1. sock[channel_] = "open"
      BY <2>1
    <3> QED BY <1>1, <1>2, <2>1, <3>1
  <2> QED BY <2>2, <2>3 DEF SocketsOwned
<1> QED BY <1>1, <1>3, <1>5, <1>6

(* The steps that end with startInLoop().                                  *)
LEMMA StartStep ==
    ASSUME IInv, aborted = {}, NEW t \in Nat, young <= t, NEW c \in BOOLEAN, startInLoop(c, t),
           UNCHANGED <<pendingFunctors_, conn, user>>, ~Restarting',
           \A op : op # "startInLoop" => (Has(functors', op) <=> Has(functors, op)),
           Count(functors', "resetChannel") = Count(functors, "resetChannel"),
           early' = 0 => /\ state_ = "kDisconnected" /\ channel_ = None /\ t = 0
                         /\ upc' # "start" /\ ~Starting'
    PROVE  /\ Typable /\ SocketsOwned' /\ NoAssertFails'
           /\ aborted' = {} =>
                 /\ state_ = "kDisconnected" /\ watched = FALSE /\ (\A s \in Socks : ~Up(s))
                 /\ ChannelInv' /\ UpInv' /\ StartInv' /\ Ups' = Ups
                 /\ timers' + One(watched') \in Nat /\ timers' + One(watched') <= t + 1
                 /\ c => timers' + One(watched') > 0 \/ gaveUp'
                 /\ ~c => UNCHANGED <<channel_, watched>> /\ timers' = t
<1>1. /\ Typable /\ SocketsOwned'
      /\ state_ = "kDisconnected" /\ channel_ = None => aborted' = {}
      /\ aborted' = {} => state_ = "kDisconnected" /\ watched = FALSE /\ Attempted(c, t)
  BY StartFacts, Opens
<1>2. NoAssertFails'
  BY <1>1 DEF NoAssertFails
<1>3. ASSUME aborted' = {}
      PROVE  /\ state_ = "kDisconnected" /\ watched = FALSE /\ (\A s \in Socks : ~Up(s))
             /\ ChannelInv' /\ UpInv' /\ StartInv' /\ Ups' = Ups
             /\ timers' + One(watched') \in Nat /\ timers' + One(watched') <= t + 1
             /\ c => timers' + One(watched') > 0 \/ gaveUp'
             /\ ~c => UNCHANGED <<channel_, watched>> /\ timers' = t
  <2>1. state_ = "kDisconnected" /\ watched = FALSE /\ Attempted(c, t)
    BY <1>1, <1>3
  <2>2. \A s \in Socks : ~Up(s)
    BY <2>1, Opens DEF UpInv
  <2>3. UpInv'
    <3>1. \A s \in Socks : ~(Up(s)')
      BY <2>2 DEF Up
    <3>2. pc' # "restart" /\ pc' # "restarted"
      BY DEF Restarting
    <3> QED BY <3>1, <3>2 DEF UpInv
  <2>4. Queued("resetChannel")' <=> Queued("resetChannel")
    BY DEF Queued
  <2>5. ChannelInv'
    <3>1. /\ Queued("resetChannel") <=> ~watched /\ channel_ # None
          /\ ~(Has(pendingFunctors_', "resetChannel") /\ Has(functors', "resetChannel"))
          /\ Count(pendingFunctors_', "resetChannel") <= 1
          /\ Count(functors', "resetChannel") <= 1
      BY Opens DEF ChannelInv
    <3>2. CASE state_' = "kConnecting" /\ channel_ = None /\ channel_' \in Socks /\ watched' = TRUE
      BY <2>4, <3>1, <3>2 DEF ChannelInv
    <3>3. CASE state_' = "kDisconnected" /\ channel_' = channel_ /\ watched' = FALSE
      BY <2>1, <2>4, <3>1, <3>3 DEF ChannelInv
    <3> QED BY <2>1, <3>2, <3>3 DEF Attempted
  <2>6. /\ timers' + One(watched') \in Nat /\ timers' + One(watched') <= t + 1
        /\ c => timers' + One(watched') > 0 \/ gaveUp'
    <3>1. CASE watched' = TRUE /\ timers' = t
      BY <3>1 DEF One
    <3>2. CASE watched' = FALSE /\ timers' = t + 1
      BY <3>2 DEF One
    <3>3. CASE watched' = FALSE /\ timers' = t /\ (c => gaveUp' = TRUE)
      BY <3>3 DEF One
    <3> QED BY <2>1, <3>1, <3>2, <3>3 DEF Attempted
  <2>7. StartInv'
    <3> SUFFICES ASSUME early' = 0
                 PROVE  /\ timers' > 0 => state_' = "kDisconnected"
                        /\ ~(timers' > young')
      BY DEF StartInv
    <3>1. t = 0 /\ young = 0
      BY Opens DEF TypeOK
    <3> QED BY <2>1, <3>1 DEF Attempted
  <2>8. Ups' = Ups
    BY DEF Ups
  <2>9. ~c => UNCHANGED <<channel_, watched>> /\ timers' = t
    BY <2>1 DEF Attempted
  <2> QED BY <2>1, <2>2, <2>3, <2>5, <2>6, <2>7, <2>8, <2>9
<1> QED BY <1>1, <1>2, <1>3

LEMMA StaysBounded ==
    ASSUME IInv, aborted = {}, Attempts' \in Nat, Attempts' <= Attempts, early' = early
    PROVE  AtMostOne'
<1> DEFINE a == Attempts
           b == Attempts'
<1>1. /\ a \in Nat /\ b \in Nat /\ early \in Nat /\ b <= a /\ a <= 1 + early
  BY Parts, Opens DEF AtMostOne
<1> HIDE DEF a, b
<1>2. b <= 1 + early
  BY <1>1
<1> QED BY <1>2 DEF AtMostOne, b

LEMMA AttemptsNext ==
    Attempts' = One(upc' = "start") + Starts' + timers' + One(watched') + Ups' + One(Restarting')
BY DEF Attempts, Restarting

LEMMA TimerKeeps ==
    ASSUME IInv, aborted = {}, Timers, UNCHANGED user
    PROVE  IInv'
<1>1. /\ pc = "poll" /\ timers > young /\ startInLoop(connect_, timers - 1)
      /\ UNCHANGED <<connect_, pendingFunctors_, functors, pc, active, wanted, client, keeper,
                     done, upc, early, dropped, connection_, conn, closeCallback>>
  BY DEF Timers, TimerFires, callers, history, life
<1>2. /\ timers - 1 \in Nat /\ young <= timers - 1 /\ connect_ \in BOOLEAN /\ timers > 0
  BY <1>1, Opens DEF TypeOK
<1>3. ~Restarting /\ ~Restarting'
  BY <1>1 DEF Restarting
<1>4. /\ Calls' = Calls /\ InLoop' = InLoop /\ retry_' = retry_
      /\ \A op : Queued(op)' <=> Queued(op)
      /\ Starts' = Starts /\ (Starting' <=> Starting) /\ (ConnectorQueued' <=> ConnectorQueued)
  BY <1>1, QueuesStay, CallsStay
<1>5. early' = 0 => /\ state_ = "kDisconnected" /\ channel_ = None /\ timers - 1 = 0
                    /\ upc' # "start" /\ ~Starting'
  <2> SUFFICES ASSUME early = 0
               PROVE  /\ state_ = "kDisconnected" /\ channel_ = None /\ timers - 1 = 0
                      /\ upc # "start" /\ ~Starting
    BY <1>1, <1>4
  <2>1. timers = 1 /\ upc # "start" /\ ~Starting /\ ~watched
    BY <1>2, OneToken, Opens
  <2>2. state_ = "kDisconnected" /\ ~Has(pendingFunctors_, "resetChannel")
    BY <1>1, <1>2, Opens DEF StartInv
  <2>3. ~Has(functors, "resetChannel")
    BY <1>1, EmptyHas, Opens DEF LoopInv
  <2>4. channel_ = None
    BY <2>1, <2>2, <2>3, Opens DEF ChannelInv, Queued
  <2> QED BY <2>1, <2>2, <2>4
<1>6. /\ Typable /\ SocketsOwned' /\ NoAssertFails'
      /\ aborted' = {} =>
            /\ state_ = "kDisconnected" /\ watched = FALSE
            /\ ChannelInv' /\ UpInv' /\ StartInv' /\ Ups' = Ups
            /\ timers' + One(watched') \in Nat /\ timers' + One(watched') <= timers
            /\ connect_ => timers' + One(watched') > 0 \/ gaveUp'
            /\ ~connect_ => UNCHANGED <<channel_, watched>> /\ timers' = timers - 1
  <2> DEFINE t == timers - 1
  <2>1. t \in Nat /\ young <= t /\ startInLoop(connect_, t) /\ (early' = 0 => t = 0)
    BY <1>1, <1>2, <1>5
  <2>2. t + 1 = timers
    BY Opens DEF TypeOK
  <2> HIDE DEF t
  <2>3. /\ Typable /\ SocketsOwned' /\ NoAssertFails'
        /\ aborted' = {} =>
              /\ state_ = "kDisconnected" /\ watched = FALSE
              /\ ChannelInv' /\ UpInv' /\ StartInv' /\ Ups' = Ups
              /\ timers' + One(watched') \in Nat /\ timers' + One(watched') <= t + 1
              /\ connect_ => timers' + One(watched') > 0 \/ gaveUp'
              /\ ~connect_ => UNCHANGED <<channel_, watched>> /\ timers' = t
    BY <1>1, <1>2, <1>3, <1>5, <2>1, StartStep
  <2> QED BY <2>2, <2>3 DEF t
<1>7. TypeOK'
  BY <1>1, <1>4, <1>6, Opens DEF TypeOK, Typable
<1>8. ASSUME aborted' = {} PROVE Sound'
  <2>1. LoopInv'
    BY <1>1, Opens DEF LoopInv
  <2>2. client = "gone" /\ InLoop /\ early = 0 => ~connect_
    BY <1>2, Opens DEF ClientInv
  <2>3. ClientInv'
    BY <1>1, <1>3, <1>4, <2>2, Opens DEF ClientInv, Up
  <2>4. Left => ~connect_
    BY <1>2, <1>6, <1>8, Opens DEF LeaveInv, TypeOK
  <2>5. LeaveInv'
    <3> SUFFICES ASSUME Left PROVE LeaveInv'
      BY <1>1, <1>4 DEF LeaveInv, Left
    <3>1. ~connect_ /\ channel_' = channel_ /\ watched' = FALSE
      BY <1>6, <1>8, <2>4
    <3> QED BY <1>1, <1>4, <3>1, Opens DEF LeaveInv
  <2>6. Attempts' = One(upc = "start") + Starts + (timers' + One(watched')) + Ups + One(Restarting)
    BY <1>1, <1>3, <1>4, <1>6, <1>8, AttemptsNext, Parts, Opens DEF One, Typable
  <2>7. Attempts = One(upc = "start") + Starts + timers + Ups + One(Restarting)
    BY <1>6, <1>8, Parts, Opens DEF One
  <2>8. Attempts' <= Attempts /\ (timers' + One(watched') > 0 => Attempts' > 0)
    BY <1>6, <1>8, <2>6, <2>7, Parts, Opens
  <2>9. AtMostOne'
    BY <1>1, <2>6, <2>8, Parts, Opens DEF AtMostOne, Typable
  <2>10. KeepsTrying'
    BY <1>1, <1>6, <1>8, <2>8 DEF KeepsTrying
  <2> QED BY <1>6, <1>8, <2>1, <2>3, <2>5, <2>9, <2>10 DEF Sound
<1> QED BY <1>6, <1>7, <1>8 DEF IInv

LEMMA RestartedKeeps ==
    ASSUME IInv, aborted = {}, Restarted, UNCHANGED user
    PROVE  IInv'
<1>1. /\ pc = "restarted" /\ pc' = "poll" /\ startInLoop(connect_, timers)
      /\ UNCHANGED <<connect_, pendingFunctors_, functors, active, wanted, client, keeper,
                     done, upc, early, dropped, connection_, conn, closeCallback>>
  BY DEF Restarted, callers, history, life
<1>2. timers \in Nat /\ young <= timers /\ connect_ \in BOOLEAN
  BY Opens DEF TypeOK
<1>3. Restarting /\ ~Restarting'
  BY <1>1 DEF Restarting
<1>4. /\ Calls' = Calls /\ InLoop' = InLoop /\ retry_' = retry_
      /\ \A op : Queued(op)' <=> Queued(op)
      /\ Starts' = Starts /\ (Starting' <=> Starting) /\ (ConnectorQueued' <=> ConnectorQueued)
  BY <1>1, QueuesStay, CallsStay
<1>5. early' = 0 => /\ state_ = "kDisconnected" /\ channel_ = None /\ timers = 0
                    /\ upc' # "start" /\ ~Starting'
  <2> SUFFICES ASSUME early = 0
               PROVE  /\ state_ = "kDisconnected" /\ channel_ = None /\ timers = 0
                      /\ upc # "start" /\ ~Starting
    BY <1>1, <1>4
  <2>1. timers = 0 /\ upc # "start" /\ ~Starting /\ ~watched
    BY <1>3, OneToken, Opens
  <2>2. state_ = "kDisconnected" /\ ~Has(pendingFunctors_, "resetChannel")
    BY <1>1, <1>3, Opens DEF UpInv
  <2>3. ~Has(functors, "resetChannel")
    BY <1>1, EmptyHas, Opens DEF LoopInv
  <2>4. channel_ = None
    BY <2>1, <2>2, <2>3, Opens DEF ChannelInv, Queued
  <2> QED BY <2>1, <2>2, <2>4
<1>6. /\ Typable /\ SocketsOwned' /\ NoAssertFails'
      /\ aborted' = {} =>
            /\ state_ = "kDisconnected" /\ watched = FALSE
            /\ ChannelInv' /\ UpInv' /\ StartInv' /\ Ups' = Ups
            /\ timers' + One(watched') \in Nat /\ timers' + One(watched') <= timers + 1
            /\ connect_ => timers' + One(watched') > 0 \/ gaveUp'
  BY <1>1, <1>2, <1>3, <1>5, StartStep
<1>7. TypeOK'
  BY <1>1, <1>4, <1>6, Opens DEF TypeOK, Typable
<1>8. ASSUME aborted' = {} PROVE Sound'
  <2>1. LoopInv'
    BY <1>1, Opens DEF LoopInv
  <2>2. /\ InLoop => client = "alive"
        /\ retry_
    BY <1>3, Opens DEF ClientInv, UpInv
  <2>3. ClientInv'
    BY <1>1, <1>3, <1>4, <2>2, Opens DEF ClientInv, Up
  <2>4. LeaveInv'
    <3>1. ~Left'
      BY <1>1, <1>4, <2>2 DEF Left
    <3> QED BY <3>1 DEF LeaveInv
  <2>5. /\ One(watched) = 0 /\ One(Restarting) = 1 /\ One(Restarting') = 0
    BY <1>3, <1>6, <1>8 DEF One
  <2>6. Attempts' = One(upc = "start") + Starts + (timers' + One(watched')) + Ups
    BY <1>1, <1>4, <1>6, <1>8, <2>5, AttemptsNext, Parts, Opens DEF One, Typable
  <2>7. Attempts = One(upc = "start") + Starts + timers + Ups + 1
    BY <2>5, Parts, Opens
  <2>8. Attempts' <= Attempts /\ (timers' + One(watched') > 0 => Attempts' > 0)
    BY <1>6, <1>8, <2>6, <2>7, Parts, Opens
  <2>9. AtMostOne'
    BY <1>1, <1>6, <1>8, <2>6, <2>8, Parts, Opens DEF AtMostOne
  <2>10. KeepsTrying'
    BY <1>1, <1>6, <1>8, <2>8 DEF KeepsTrying
  <2> QED BY <1>6, <1>8, <2>1, <2>3, <2>4, <2>9, <2>10 DEF Sound
<1> QED BY <1>6, <1>7, <1>8 DEF IInv

(* connect(): at rest there is no attempt, or it is an early one.          *)
LEMMA ConnectKeeps ==
    ASSUME IInv, aborted = {}, UserConnect, UNCHANGED user
    PROVE  IInv'
<1>1. /\ Calling("connect") /\ wanted' = TRUE /\ connect_' = TRUE
      /\ early' = early + One(~AtRest)
      /\ IF InLoop THEN startInLoop(TRUE, timers) /\ UNCHANGED upc
         ELSE upc' = "start" /\ UNCHANGED <<connector, aborted>>
      /\ UNCHANGED <<loop, life, client, keeper, dropped>>
  BY DEF UserConnect, start
<1>2. /\ done' \in 0..Len(Calls) /\ upc = "idle" /\ client = "alive"
      /\ InLoop => ~Restarting
  BY <1>1, CallsGoOn
<1>3. /\ UNCHANGED <<pendingFunctors_, functors, pc, active, connection_, conn, closeCallback>>
  BY <1>1 DEF loop, life
<1>4. /\ Calls' = Calls /\ InLoop' = InLoop /\ retry_' = retry_
      /\ \A op : Queued(op)' <=> Queued(op)
      /\ Starts' = Starts /\ (Starting' <=> Starting) /\ (ConnectorQueued' <=> ConnectorQueued)
  BY <1>3, QueuesStay, CallsStay
<1>5. /\ early \in Nat /\ early' \in Nat /\ early <= early'
      /\ AtRest => early' = early
      /\ ~AtRest => early' = early + 1
  BY <1>1, Opens DEF TypeOK, One
<1>6. early' = 0 => /\ AtRest /\ state_ = "kDisconnected" /\ channel_ = None
                    /\ timers = 0 /\ ~Starting
  <2> SUFFICES ASSUME early' = 0
               PROVE  AtRest /\ timers = 0 /\ ~Starting
    BY DEF AtRest
  <2>1. AtRest /\ Attempts = 0
    BY <1>5 DEF AtRest
  <2>2. timers = 0 /\ ~Starting
    BY <2>1, NoneLeft, Opens
  <2> QED BY <2>1, <2>2
<1>7. Attempts + 1 <= 1 + early'
  <2>1. CASE AtRest
    <3>1. Attempts = 0
      BY <2>1 DEF AtRest
    <3> DEFINE e == early'
               a == Attempts
    <3>2. e \in Nat /\ a = 0
      BY <1>5, <3>1
    <3> HIDE DEF e, a
    <3>3. a + 1 <= 1 + e
      BY <3>2
    <3> QED BY <3>3 DEF e, a
  <2>2. CASE ~AtRest
    <3>1. Attempts <= 1 + early /\ Attempts \in Nat
      BY Parts, Opens DEF AtMostOne
    <3> QED BY <1>5, <2>2, <3>1
  <2> QED BY <2>1, <2>2
<1>8. ~Left'
  BY <1>1, <1>2 DEF Left
<1>9. LeaveInv'
  BY <1>8 DEF LeaveInv
<1>10. LoopInv'
  BY <1>3, Opens DEF LoopInv
<1>11. CASE InLoop
  <2>1. startInLoop(TRUE, timers) /\ upc' = "idle" /\ ~Restarting /\ ~Restarting'
    BY <1>1, <1>2, <1>3, <1>11 DEF Restarting
  <2>2. timers \in Nat /\ young <= timers
    BY Opens DEF TypeOK
  <2>3. early' = 0 => /\ state_ = "kDisconnected" /\ channel_ = None /\ timers = 0
                      /\ upc' # "start" /\ ~Starting'
    BY <1>4, <1>6, <2>1
  <2>4. /\ Typable /\ SocketsOwned' /\ NoAssertFails'
        /\ aborted' = {} =>
              /\ watched = FALSE
              /\ ChannelInv' /\ UpInv' /\ StartInv' /\ Ups' = Ups
              /\ timers' + One(watched') \in Nat /\ timers' + One(watched') <= timers + 1
              /\ timers' + One(watched') > 0 \/ gaveUp'
    BY <1>3, <2>1, <2>2, <2>3, StartStep
  <2>5. TypeOK'
    BY <1>1, <1>2, <1>3, <1>4, <1>5, <2>1, <2>4, Opens DEF TypeOK, Typable
  <2>6. ASSUME aborted' = {} PROVE Sound'
    <3>1. ClientInv'
      BY <1>1, <1>2, <1>3, <1>4, <1>11, <2>1, Opens DEF ClientInv, Up
    <3>2. /\ One(watched) = 0 /\ One(Restarting) = 0 /\ One(Restarting') = 0
          /\ One(upc = "start") = 0 /\ One(upc' = "start") = 0
      BY <1>2, <2>1, <2>4, <2>6 DEF One
    <3>3. Attempts' = Starts + (timers' + One(watched')) + Ups
      BY <1>4, <2>4, <2>6, <3>2, AttemptsNext, Parts, Opens DEF One, Typable
    <3>4. Attempts = Starts + timers + Ups
      BY <3>2, Parts, Opens
    <3>5. Attempts' <= Attempts + 1 /\ (timers' + One(watched') > 0 => Attempts' > 0)
      BY <2>4, <2>6, <3>3, <3>4, Parts, Opens
    <3>6. Attempts' \in Nat
      BY <2>4, <2>6, <3>3, Parts, Opens
    <3>7. AtMostOne'
      <4>1. early' \in Nat /\ Attempts \in Nat /\ Attempts' \in Nat
        BY <1>5, <3>6, Parts, Opens
      <4>2. Attempts' <= 1 + early'
        <5> DEFINE e == early'
                   a == Attempts
                   b == Attempts'
        <5>1. e \in Nat /\ a \in Nat /\ b \in Nat /\ b <= a + 1 /\ a + 1 <= 1 + e
          BY <1>7, <3>5, <4>1
        <5> HIDE DEF e, a, b
        <5>2. b <= 1 + e
          BY <5>1
        <5> QED BY <5>2 DEF e, b
      <4> QED BY <4>2 DEF AtMostOne
    <3>8. KeepsTrying'
      BY <2>4, <2>6, <3>5 DEF KeepsTrying
    <3> QED BY <1>9, <1>10, <2>4, <2>6, <3>1, <3>7, <3>8 DEF Sound
  <2> QED BY <2>4, <2>5, <2>6 DEF IInv
<1>12. CASE ~InLoop
  <2>1. upc' = "start" /\ UNCHANGED <<connector, loop, life, aborted, user>>
    BY <1>1, <1>12
  <2>2. /\ SocketsOwned' /\ aborted' = {} /\ ChannelInv' /\ LoopInv' /\ UpInv'
        /\ Attempts' = Attempts - One(upc = "start") + One(upc' = "start")
    BY <2>1, CallerStep
  <2>3. TypeOK'
    BY <1>1, <1>2, <1>3, <1>4, <1>5, <2>1, <2>2, Opens DEF TypeOK, connector, clock
  <2>4. StartInv'
    <3> SUFFICES ASSUME early' = 0
                 PROVE  state_' = "kDisconnected" /\ channel_' = None /\ timers' = 0 /\ young' = 0
      BY DEF StartInv
    <3>1. timers = 0 /\ young = 0
      BY <1>6, Opens DEF TypeOK
    <3> QED BY <1>6, <2>1, <3>1 DEF connector, clock
  <2>5. ClientInv'
    BY <1>1, <1>2, <1>3, <1>4, <1>12, <2>1, Opens DEF ClientInv, Up
  <2>6. Attempts' = Attempts + 1 /\ Attempts \in Nat
    <3>1. One(upc = "start") = 0 /\ One(upc' = "start") = 1
      BY <1>2, <2>1 DEF One
    <3> QED BY <2>2, <3>1, Parts, Opens
  <2>7. AtMostOne' /\ KeepsTrying'
    BY <1>7, <2>6 DEF AtMostOne, KeepsTrying
  <2> QED BY <1>9, <2>2, <2>3, <2>4, <2>5, <2>7, Closes
<1> QED BY <1>11, <1>12

(* The steps that give up the attempt under way.                           *)
LEMMA StopStep ==
    ASSUME IInv, aborted = {}, watched = TRUE, removeAndResetChannel,
           NEW c \in BOOLEAN, retry(channel_, c, timers),
           UNCHANGED <<conn, user, early, pc, upc>>,
           \A op : op # "stopInLoop" => /\ Has(functors', op) <=> Has(functors, op)
                                        /\ Count(functors', op) = Count(functors, op)
    PROVE  /\ Typable /\ SocketsOwned' /\ ChannelInv' /\ UpInv' /\ StartInv'
           /\ state_' = "kDisconnected" /\ watched' = FALSE /\ timers' = timers + One(c)
           /\ channel_ \in Socks /\ (\A s \in Socks : ~Up(s) /\ ~(Up(s)')) /\ ~Restarting
           /\ pendingFunctors_' \in Seq(Entry)
           /\ \A op : Has(pendingFunctors_', op) <=>
                         Has(pendingFunctors_, op) \/ op = "resetChannel"
           /\ Starting' <=> Starting
           /\ \A d : Down(pendingFunctors_, d) => Down(pendingFunctors_', d)
           /\ Attempts' \in Nat /\ Attempts' <= Attempts /\ (c => Attempts' > 0)
<1>1. state_ = "kConnecting" /\ state_' = "kDisconnected"
  BY Opens DEF ChannelInv, retry
<1>2. /\ watched' = FALSE /\ channel_' = channel_ /\ channel_ \in Socks /\ ChannelInv'
      /\ pendingFunctors_' \in Seq(Entry)
      /\ \A op : Has(pendingFunctors_', op) <=>
                    Has(pendingFunctors_, op) \/ op = "resetChannel"
      /\ Starts' = Starts /\ (Starting' <=> Starting)
      /\ \A d : Down(pendingFunctors_, d) => Down(pendingFunctors_', d)
  BY <1>1, RemoveFacts, Opens
<1>3. /\ SocketsOwned' /\ Typable
      /\ timers' = timers + One(c) /\ young' = young + One(c)
  BY <1>2, GiveUpFacts, Opens
<1>4. (\A s \in Socks : ~Up(s) /\ ~(Up(s)')) /\ ~Restarting /\ ~Restarting'
  BY <1>1, Opens DEF UpInv, Restarting, Up
<1>5. UpInv'
  BY <1>4 DEF UpInv, Restarting
<1>6. StartInv'
  <2> SUFFICES ASSUME early = 0
               PROVE  upc # "start" /\ ~Starting' /\ ~(timers' > young')
    BY <1>1 DEF StartInv
  <2>1. upc # "start" /\ ~Starting /\ timers = 0
    BY OneToken, Opens
  <2>2. young = 0 /\ One(c) \in Nat
    BY <2>1, Opens DEF TypeOK, One
  <2> QED BY <1>2, <1>3, <2>1, <2>2
<1>7. /\ One(watched) = 1 /\ One(watched') = 0 /\ One(Restarting) = 0 /\ One(Restarting') = 0
      /\ Ups' = Ups /\ One(c) \in {0, 1} /\ (c => One(c) = 1)
  BY <1>2, <1>4 DEF One, Ups
<1>8. Attempts' = One(upc = "start") + Starts + (timers + One(c)) + Ups
  BY <1>2, <1>3, <1>7, AttemptsNext, Parts, Opens
<1>9. Attempts = One(upc = "start") + Starts + timers + 1 + Ups
  BY <1>7, Parts, Opens
<1>10. Attempts' \in Nat /\ Attempts' <= Attempts /\ (c => Attempts' > 0)
  BY <1>7, <1>8, <1>9, Parts, Opens
<1> QED BY <1>1, <1>2, <1>3, <1>4, <1>5, <1>6, <1>10

LEMMA RestartKeeps ==
    ASSUME IInv, aborted = {}, Restart, UNCHANGED user
    PROVE  IInv'
<1>1. /\ pc = "restart" /\ pc' = "restarted" /\ connect_' = TRUE
      /\ state_' = "kDisconnected" /\ retryDelayMs_' = kInitRetryDelayMs
      /\ UNCHANGED <<channel_, watched, timers, young, sock, gaveUp, pendingFunctors_,
                     functors, active, aborted, wanted, client, keeper, done, upc, early,
                     dropped, connection_, conn, closeCallback>>
  BY DEF Restart, restart, callers, history, life
<1>2. Restarting /\ Restarting' /\ state_ = "kConnected" /\ retry_
  BY <1>1, Opens DEF Restarting, UpInv
<1>3. /\ Calls' = Calls /\ InLoop' = InLoop /\ retry_' = retry_
      /\ \A op : Queued(op)' <=> Queued(op)
      /\ Starts' = Starts /\ (Starting' <=> Starting) /\ (ConnectorQueued' <=> ConnectorQueued)
  BY <1>1, QueuesStay, CallsStay
<1>4. TypeOK'
  <2>1. retryDelayMs_' \in kInitRetryDelayMs..kMaxRetryDelayMs
    BY <1>1, DelayAssumption
  <2> QED BY <1>1, <1>3, <2>1, Opens DEF TypeOK
<1>5. SocketsOwned' /\ LoopInv'
  BY <1>1, Opens DEF SocketsOwned, LoopInv
<1>6. ChannelInv'
  BY <1>1, <1>2, <1>3, Opens DEF ChannelInv
<1>7. UpInv'
  <2>1. \A s \in Socks : ~Up(s) /\ ~(Up(s)')
    BY <1>1, <1>2, Opens DEF UpInv, Up
  <2> QED BY <1>1, <1>2, <1>3, <2>1, Opens DEF UpInv
<1>8. StartInv'
  BY <1>1, <1>2, <1>3, OneToken, Opens DEF StartInv
<1>9. InLoop => client = "alive"
  BY <1>2, Opens DEF ClientInv
<1>10. ClientInv'
  BY <1>1, <1>2, <1>3, <1>9, Opens DEF ClientInv, Up
<1>11. LeaveInv'
  BY <1>1, <1>2, <1>3, <1>9 DEF LeaveInv, Left
<1>12. Attempts' = Attempts /\ Attempts > 0
  <2>1. Attempts' = Attempts
    BY <1>1, <1>3 DEF Attempts, Ups
  <2>2. One(Restarting) = 1
    BY <1>2 DEF One
  <2> QED BY <2>1, <2>2, Parts, Opens
<1>13. AtMostOne' /\ KeepsTrying'
  BY <1>1, <1>12, Opens DEF AtMostOne, KeepsTrying
<1> QED BY <1>1, <1>4, <1>5, <1>6, <1>7, <1>8, <1>10, <1>11, <1>13, Closes

(* stopInLoop() called in the loop by stop() and by the destructor.        *)
LEMMA StopInLoopFacts ==
    ASSUME IInv, aborted = {}, stopInLoop(FALSE), upc = "idle", InLoop => ~Restarting,
           UNCHANGED <<functors, pc, active, connection_, conn, closeCallback, user, upc,
                       early, dropped>>
    PROVE  /\ Typable /\ SocketsOwned' /\ aborted' = {} /\ ChannelInv' /\ UpInv' /\ StartInv'
           /\ LoopInv' /\ pendingFunctors_' \in Seq(Entry) /\ gaveUp' = gaveUp
           /\ watched' = FALSE
           /\ \A op : op # "resetChannel" => (Queued(op)' <=> Queued(op))
           /\ \A op : op # "resetChannel" =>
                 (Has(pendingFunctors_', op) <=> Has(pendingFunctors_, op))
           /\ Attempts' \in Nat /\ Attempts' <= Attempts
<1>1. CASE state_ = "kConnecting"
  <2>1. /\ removeAndResetChannel /\ retry(channel_, FALSE, timers)
        /\ gaveUp' = gaveUp /\ aborted' = aborted
    BY <1>1 DEF stopInLoop
  <2>2. watched = TRUE
    BY <1>1, Opens DEF ChannelInv, TypeOK
  <2>3. /\ Typable /\ SocketsOwned' /\ ChannelInv' /\ UpInv' /\ StartInv'
        /\ watched' = FALSE /\ pendingFunctors_' \in Seq(Entry)
        /\ \A op : Has(pendingFunctors_', op) <=>
                      Has(pendingFunctors_, op) \/ op = "resetChannel"
        /\ \A d : Down(pendingFunctors_, d) => Down(pendingFunctors_', d)
        /\ Attempts' \in Nat /\ Attempts' <= Attempts
    BY <2>1, <2>2, StopStep
  <2>4. LoopInv'
    BY <2>3, Opens DEF LoopInv
  <2>5. \A op : op # "resetChannel" => (Queued(op)' <=> Queued(op))
    BY <2>3 DEF Queued
  <2> QED BY <2>1, <2>3, <2>4, <2>5
<1>2. CASE state_ # "kConnecting"
  <2>1. UNCHANGED <<connector, loop, life, aborted, user>>
    BY <1>2 DEF stopInLoop, loop, life
  <2>2. /\ SocketsOwned' /\ aborted' = {} /\ ChannelInv' /\ LoopInv' /\ UpInv'
        /\ \A op : Queued(op)' <=> Queued(op)
        /\ Starting' <=> Starting
        /\ Attempts' = Attempts - One(upc = "start") + One(upc' = "start")
    BY <2>1, CallerStep
  <2>3. Attempts' \in Nat /\ Attempts' <= Attempts
    BY <2>2, Parts, Opens
  <2>4. /\ UNCHANGED <<state_, channel_, watched, timers, young, retryDelayMs_, sock, gaveUp,
                       pendingFunctors_>>
    BY <2>1 DEF connector, clock, loop
  <2>5. Typable
    BY <2>4, Opens DEF Typable, TypeOK
  <2>6. StartInv'
    BY <2>2, <2>4, Opens DEF StartInv
  <2>7. watched' = FALSE /\ pendingFunctors_' \in Seq(Entry)
    BY <1>2, <2>4, Typed, Opens DEF ChannelInv, TypeOK
  <2> QED BY <2>2, <2>3, <2>4, <2>5, <2>6, <2>7
<1> QED BY <1>1, <1>2

LEMMA UserStopKeeps ==
    ASSUME IInv, aborted = {}, UserStop, UNCHANGED user
    PROVE  IInv'
<1>1. /\ Calling("stop") /\ wanted' = FALSE /\ connect_' = FALSE
      /\ IF InLoop THEN stopInLoop(FALSE) /\ UNCHANGED upc
         ELSE upc' = "stop" /\ UNCHANGED <<connector, aborted, pendingFunctors_>>
      /\ UNCHANGED <<functors, pc, active, client, keeper, early, dropped, connection_, conn,
                     closeCallback>>
  BY DEF UserStop, stop, history, life
<1>2. /\ done' \in 0..Len(Calls) /\ upc = "idle" /\ client = "alive"
      /\ InLoop => ~Restarting
  BY <1>1, CallsGoOn
<1>3. Calls' = Calls /\ InLoop' = InLoop /\ retry_' = retry_ /\ Restarting' = Restarting
  BY <1>1, CallsStay DEF Restarting
<1>4. LeaveInv'
  BY <1>1, <1>2 DEF LeaveInv, Left
<1>5. KeepsTrying'
  BY <1>1 DEF KeepsTrying
<1>6. CASE InLoop
  <2>1. stopInLoop(FALSE) /\ upc' = "idle" /\ upc' = upc
    BY <1>1, <1>2, <1>6
  <2>2. /\ Typable /\ SocketsOwned' /\ aborted' = {} /\ ChannelInv' /\ UpInv' /\ StartInv'
        /\ LoopInv' /\ pendingFunctors_' \in Seq(Entry) /\ gaveUp' = gaveUp
        /\ \A op : op # "resetChannel" => (Queued(op)' <=> Queued(op))
        /\ Attempts' \in Nat /\ Attempts' <= Attempts
    BY <1>1, <1>2, <2>1, StopInLoopFacts
  <2>3. TypeOK'
    BY <1>1, <1>2, <1>3, <2>1, <2>2, Opens DEF TypeOK, Typable, Entry
  <2>4. ClientInv'
    BY <1>1, <1>2, <1>3, <2>1, <2>2, Opens DEF ClientInv, Up
  <2>5. AtMostOne'
    BY <1>1, <2>2, StaysBounded
  <2> QED BY <1>4, <1>5, <2>2, <2>3, <2>4, <2>5, Closes
<1>7. CASE ~InLoop
  <2>1. upc' = "stop" /\ UNCHANGED <<connector, loop, life, aborted, user>>
    BY <1>1, <1>7 DEF loop, life
  <2>2. /\ SocketsOwned' /\ aborted' = {} /\ ChannelInv' /\ LoopInv' /\ UpInv'
        /\ \A op : Queued(op)' <=> Queued(op)
        /\ Starting' <=> Starting
        /\ Attempts' = Attempts - One(upc = "start") + One(upc' = "start")
    BY <2>1, CallerStep
  <2>3. One(upc = "start") = 0 /\ One(upc' = "start") = 0
    BY <1>2, <2>1 DEF One
  <2>4. Attempts' = Attempts
    BY <2>2, <2>3, Parts, Opens
  <2>5. TypeOK'
    BY <1>1, <1>2, <1>3, <2>1, <2>2, Opens DEF TypeOK, connector, clock, loop
  <2>6. StartInv'
    BY <1>1, <2>1, <2>2, Opens DEF StartInv, connector, clock, loop
  <2>7. ClientInv'
    BY <1>1, <1>2, <1>3, <1>7, <2>1, <2>2, Opens DEF ClientInv, Up
  <2>8. AtMostOne'
    BY <1>1, <2>2, <2>4, Opens DEF AtMostOne
  <2> QED BY <1>4, <1>5, <2>2, <2>5, <2>6, <2>7, <2>8, Closes
<1> QED BY <1>6, <1>7

LEMMA KeeperLasts == KeeperRounds + 1 \in Nat /\ KeeperRounds + 1 >= 3
<1>1. KeeperRounds \in Nat /\ KeeperRounds >= 2
  BY ClientAssumption
<1> QED BY <1>1

LEMMA DestroyStopsKeeps ==
    ASSUME IInv, aborted = {}, DestroyStops, UNCHANGED user
    PROVE  IInv'
<1>1. /\ client = "dying" /\ upc = "idle" /\ connect_' = FALSE
      /\ IF InLoop
         THEN /\ stopInLoop(FALSE) /\ client' = "gone"
              /\ keeper' = KeeperRounds + 1 /\ UNCHANGED upc
         ELSE /\ upc' = "stopLast"
              /\ UNCHANGED <<connector, aborted, pendingFunctors_, client, keeper>>
      /\ UNCHANGED <<functors, pc, active, wanted, done, early, dropped, connection_, conn,
                     closeCallback>>
  BY DEF DestroyStops, stop, history, life
<1>2. /\ InLoop => ~Restarting
      /\ InLoop => connection_ = None
      /\ done = Len(Calls)
      /\ \A s \in Socks : Up(s) <=> connection_ = s
  BY <1>1, Opens DEF ClientInv
<1>3. Calls' = Calls /\ InLoop' = InLoop /\ retry_' = retry_ /\ Restarting' = Restarting
  BY <1>1, CallsStay DEF Restarting
<1>4. KeepsTrying'
  BY <1>1 DEF KeepsTrying
<1>5. CASE InLoop
  <2>1. stopInLoop(FALSE) /\ upc' = "idle" /\ upc' = upc /\ client' = "gone"
        /\ keeper' = KeeperRounds + 1 /\ keeper' \in Nat /\ keeper' >= 3
    BY <1>1, <1>5, KeeperLasts
  <2>2. /\ Typable /\ SocketsOwned' /\ aborted' = {} /\ ChannelInv' /\ UpInv' /\ StartInv'
        /\ LoopInv' /\ pendingFunctors_' \in Seq(Entry) /\ watched' = FALSE
        /\ Attempts' \in Nat /\ Attempts' <= Attempts
    BY <1>1, <1>2, <2>1, StopInLoopFacts
  <2>3. TypeOK'
    BY <1>1, <1>3, <2>1, <2>2, Opens DEF TypeOK, Typable, Entry
  <2>4. ClientInv'
    <3>1. \A s \in Socks : ~Up(s) /\ ~(Up(s)')
      BY <1>1, <1>2, <1>5, ClientAssumption DEF Up
    <3> QED BY <1>1, <1>2, <1>3, <1>5, <2>1, <3>1 DEF ClientInv
  <2>5. LeaveInv'
    BY <1>1, <2>1, <2>2 DEF LeaveInv
  <2>6. AtMostOne'
    BY <1>1, <2>2, StaysBounded
  <2> QED BY <1>4, <2>2, <2>3, <2>4, <2>5, <2>6, Closes
<1>6. CASE ~InLoop
  <2>1. /\ upc' = "stopLast" /\ client' = client /\ keeper' = keeper
        /\ UNCHANGED <<connector, loop, life, aborted, user>>
    BY <1>1, <1>6 DEF loop, life
  <2>2. /\ SocketsOwned' /\ aborted' = {} /\ ChannelInv' /\ LoopInv' /\ UpInv'
        /\ \A op : Queued(op)' <=> Queued(op)
        /\ Starting' <=> Starting
        /\ Attempts' = Attempts - One(upc = "start") + One(upc' = "start")
    BY <2>1, CallerStep
  <2>3. One(upc = "start") = 0 /\ One(upc' = "start") = 0
    BY <1>1, <2>1 DEF One
  <2>4. Attempts' = Attempts
    BY <2>2, <2>3, Parts, Opens
  <2>5. TypeOK'
    BY <1>1, <1>3, <2>1, <2>2, Opens DEF TypeOK, connector, clock, loop
  <2>6. StartInv'
    BY <1>1, <2>1, <2>2, Opens DEF StartInv, connector, clock, loop
  <2>7. ClientInv'
    BY <1>1, <1>3, <1>6, <2>1, <2>2, Opens DEF ClientInv, Up
  <2>8. LeaveInv'
    BY <1>1, <2>1 DEF LeaveInv, Left
  <2>9. AtMostOne'
    BY <1>1, <2>2, <2>4, Opens DEF AtMostOne
  <2> QED BY <1>4, <2>2, <2>5, <2>6, <2>7, <2>8, <2>9, Closes
<1> QED BY <1>5, <1>6

LEMMA UserQueuesKeeps ==
    ASSUME IInv, aborted = {}, UserQueues, UNCHANGED user
    PROVE  IInv'
<1> DEFINE op1 == IF upc = "start" THEN "startInLoop" ELSE "stopInLoop"
           e == Functor(op1)
<1>1. /\ upc \in {"start", "stop", "stopLast"} /\ upc' = "idle"
      /\ pendingFunctors_' = Append(pendingFunctors_, e)
      /\ IF upc = "stopLast" THEN client' = "gone" /\ keeper' = KeeperRounds + 1
         ELSE UNCHANGED <<client, keeper>>
      /\ UNCHANGED <<connect_, state_, channel_, watched, timers, young, retryDelayMs_, sock,
                     gaveUp, functors, pc, active, aborted, wanted, done, early, dropped,
                     connection_, conn, closeCallback>>
  BY DEF UserQueues, queueInLoop, connector, clock, life, history
<1>2. e \in Entry /\ e.op = op1
  BY DEF Functor, Entry, Ops
<1>3. /\ op1 \in {"startInLoop", "stopInLoop"}
      /\ op1 = "startInLoop" <=> upc = "start"
  OBVIOUS
<1> HIDE DEF e, op1
<1>4. /\ pendingFunctors_' \in Seq(Entry)
      /\ \A op : Has(pendingFunctors_', op) <=> Has(pendingFunctors_, op) \/ op = op1
      /\ \A op : Has(functors', op) <=> Has(functors, op)
      /\ \A op : Queued(op)' <=> Queued(op) \/ op = op1
      /\ \A op : Count(pendingFunctors_', op) = Count(pendingFunctors_, op) + One(op = op1)
      /\ \A op : Count(functors', op) = Count(functors, op)
      /\ \A c : Down(pendingFunctors_, c) => Down(pendingFunctors_', c)
  <2>1. \A op : (e.op = op) <=> (op = op1)
    BY <1>2
  <2>2. \A op : One(e.op = op) = One(op = op1)
    BY <1>2 DEF One
  <2>3. e.op # "connectDestroyed"
    BY <1>2, <1>3
  <2> QED BY <1>1, <1>2, <2>1, <2>2, <2>3, Enqueued, Opens
<1>5. /\ Calls' = Calls /\ InLoop' = InLoop /\ retry_' = retry_ /\ Restarting' = Restarting
      /\ ~InLoop
  BY <1>1, CallsStay, Opens DEF Restarting, ClientInv
<1>6. /\ client # "alive" <=> upc = "stopLast"
      /\ upc = "stopLast" => client = "dying" /\ (~retry_ => ~connect_)
  BY <1>1, Opens DEF ClientInv
<1>7. TypeOK'
  BY <1>1, <1>4, <1>5, KeeperLasts, Opens DEF TypeOK, Entry
<1>8. SocketsOwned' /\ LoopInv'
  BY <1>1, <1>4, Opens DEF SocketsOwned, LoopInv
<1>9. ChannelInv'
  <2>1. /\ Has(pendingFunctors_', "resetChannel") <=> Has(pendingFunctors_, "resetChannel")
        /\ Queued("resetChannel")' <=> Queued("resetChannel")
    BY <1>3, <1>4
  <2>2. Count(pendingFunctors_', "resetChannel") = Count(pendingFunctors_, "resetChannel")
    <3>1. One("resetChannel" = op1) = 0
      BY <1>3 DEF One
    <3>2. Count(pendingFunctors_, "resetChannel") \in Nat
      BY Typed, CountIs, Opens
    <3> QED BY <1>4, <3>1, <3>2
  <2> QED BY <1>1, <1>4, <2>1, <2>2, Opens DEF ChannelInv
<1>10. UpInv'
  BY <1>1, <1>3, <1>4, <1>5, Opens DEF UpInv, Up
<1>11. Starting' <=> Starting \/ upc = "start"
  BY <1>3, <1>4 DEF Starting
<1>12. StartInv'
  BY <1>1, <1>3, <1>4, <1>11, Opens DEF StartInv
<1>13. ClientInv'
  BY <1>1, <1>3, <1>4, <1>5, <1>6, Opens DEF ClientInv, Up
<1>14. LeaveInv'
  <2> SUFFICES ASSUME Left' PROVE LeaveInv'
    BY DEF LeaveInv
  <2>1. upc = "stopLast" /\ client' = "gone" /\ ~connect_' /\ keeper' = KeeperRounds + 1
    BY <1>1, <1>5, <1>6 DEF Left
  <2>2. Queued("stopInLoop")' /\ keeper' \in Nat /\ keeper' >= 3
    BY <1>3, <1>4, <2>1, KeeperLasts
  <2> QED BY <2>1, <2>2 DEF LeaveInv
<1>15. Attempts' = Attempts
  <2>1. Count(pendingFunctors_, "startInLoop") \in Nat /\ Count(functors, "startInLoop") \in Nat
    BY Typed, CountIs, Opens
  <2>2. /\ Count(pendingFunctors_', "startInLoop")
              = Count(pendingFunctors_, "startInLoop") + One(upc = "start")
        /\ One(upc' = "start") = 0
    BY <1>1, <1>3, <1>4 DEF One
  <2>3. Starts' = Starts + One(upc = "start")
    BY <1>4, <2>1, <2>2, Parts, Opens DEF Starts
  <2>4. Ups' = Ups
    BY <1>1 DEF Ups
  <2> QED BY <1>1, <1>5, <2>2, <2>3, <2>4, AttemptsNext, Parts, Opens
<1>16. AtMostOne' /\ KeepsTrying'
  <2>1. Lost => Lost'
    BY <1>1, <1>5, <1>6 DEF Lost
  <2> QED BY <1>1, <1>15, <2>1, Opens DEF AtMostOne, KeepsTrying
<1> QED BY <1>1, <1>7, <1>8, <1>9, <1>10, <1>12, <1>13, <1>14, <1>16, Closes

LEMMA DestroyConnectedKeeps ==
    ASSUME IInv, aborted = {}, NEW s \in Socks, DestroyConnected(s), UNCHANGED user
    PROVE  IInv'
<1> DEFINE e == [op |-> "setCloseCallback", sock |-> s]
<1>1. /\ Calling("destroy") /\ s = connection_ /\ client' = "gone"
      /\ dropped' = ConnectorQueued
      /\ IF InLoop
         THEN /\ closeCallback' = [closeCallback EXCEPT ![s] = "detail"]
              /\ UNCHANGED pendingFunctors_
         ELSE /\ pendingFunctors_' = Append(pendingFunctors_, e)
              /\ UNCHANGED closeCallback
      /\ UNCHANGED <<connect_, state_, channel_, watched, timers, young, retryDelayMs_, sock,
                     gaveUp, functors, pc, active, aborted, connection_, conn, wanted, keeper,
                     upc, early>>
  BY DEF DestroyConnected, connector, clock
<1>2. /\ done' \in 0..Len(Calls) /\ client = "alive" /\ upc = "idle"
      /\ done' = Len(Calls) /\ (InLoop => ~Restarting)
  BY <1>1, CallsGoOn
<1>3. Calls' = Calls /\ InLoop' = InLoop /\ retry_' = retry_ /\ Restarting' = Restarting
  BY <1>1, CallsStay DEF Restarting
<1>4. e \in Entry /\ e.op = "setCloseCallback"
  BY DEF Entry, Ops
<1> HIDE DEF e
<1>5. /\ pendingFunctors_' \in Seq(Entry)
      /\ \A op : op # "setCloseCallback" =>
            /\ Has(pendingFunctors_', op) <=> Has(pendingFunctors_, op)
            /\ Queued(op)' <=> Queued(op)
            /\ Count(pendingFunctors_', op) = Count(pendingFunctors_, op)
      /\ Down(pendingFunctors_', conn)
  <2>1. CASE InLoop
    BY <1>1, <2>1, Typed, Opens DEF Queued, LoopInv
  <2>2. CASE ~InLoop
    <3>1. pendingFunctors_' = Append(pendingFunctors_, e) /\ functors' = functors
      BY <1>1, <2>2
    <3>2. /\ pendingFunctors_' \in Seq(Entry)
          /\ \A op : Has(pendingFunctors_', op) <=> Has(pendingFunctors_, op) \/ e.op = op
          /\ \A op : Queued(op)' <=> Queued(op) \/ e.op = op
          /\ \A op : Count(pendingFunctors_', op)
                        = Count(pendingFunctors_, op) + One(e.op = op)
          /\ Down(pendingFunctors_', conn)
      BY <1>4, <3>1, Enqueued, Opens DEF LoopInv
    <3>3. ASSUME NEW op, op # "setCloseCallback"
          PROVE  Count(pendingFunctors_', op) = Count(pendingFunctors_, op)
      <4>1. One(e.op = op) = 0
        BY <1>4, <3>3 DEF One
      <4>2. Count(pendingFunctors_, op) \in Nat
        BY Typed, CountIs, Opens
      <4> QED BY <3>2, <4>1, <4>2
    <3> QED BY <1>4, <3>2, <3>3
  <2> QED BY <2>1, <2>2
<1>6. /\ Queued("resetChannel")' <=> Queued("resetChannel")
      /\ Starting' <=> Starting
      /\ ConnectorQueued' <=> ConnectorQueued
      /\ Starts' = Starts /\ Ups' = Ups
  BY <1>1, <1>5 DEF Starting, ConnectorQueued, Starts, Ups
<1>7. /\ Up(s) /\ state_ = "kConnected" /\ ~watched
      /\ \A r \in Socks : Up(r) => r = s
  BY <1>1, <1>2, Opens DEF ClientInv, UpInv, ChannelInv
<1>8. TypeOK'
  <2>1. closeCallback' \in [Socks -> {"client", "detail"}]
    BY <1>1, Opens DEF TypeOK
  <2>2. dropped' \in BOOLEAN
    BY <1>1 DEF ConnectorQueued
  <2> QED BY <1>1, <1>2, <1>3, <1>5, <2>1, <2>2, Opens DEF TypeOK, Entry
<1>9. SocketsOwned' /\ LoopInv'
  BY <1>1, <1>5, Opens DEF SocketsOwned, LoopInv
<1>10. ChannelInv'
  BY <1>1, <1>5, <1>6, Opens DEF ChannelInv
<1>11. UpInv'
  BY <1>1, <1>3, <1>5, Opens DEF UpInv, Up
<1>12. StartInv'
  BY <1>1, <1>5, <1>6, Opens DEF StartInv
<1>13. ClientInv'
  <2>1. \A r \in Socks : InLoop /\ Up(r) => closeCallback'[r] = "detail"
    BY <1>1, <1>7, Opens DEF TypeOK
  <2>2. early = 0 => timers = 0 /\ ~watched /\ ~Starting
    BY <1>7, OneToken, Opens
  <2> QED BY <1>1, <1>2, <1>3, <1>6, <2>1, <2>2 DEF ClientInv, Up
<1>14. LeaveInv'
  <2> SUFFICES ASSUME Left' PROVE LeaveInv'
    BY DEF LeaveInv
  <2>1. ~ConnectorQueued /\ keeper' = 0
    BY <1>1, <1>2, Opens DEF Left, ClientInv
  <2>2. channel_ = None
    BY <1>7, <2>1, Opens DEF ChannelInv, ConnectorQueued
  <2> QED BY <1>1, <1>6, <1>7, <2>1, <2>2 DEF LeaveInv
<1>15. Attempts' = Attempts
  BY <1>1, <1>3, <1>6, AttemptsNext, Parts, Opens
<1>16. AtMostOne' /\ KeepsTrying'
  BY <1>1, <1>7, <1>15, Opens DEF AtMostOne, KeepsTrying, Lost
<1> QED BY <1>1, <1>8, <1>9, <1>10, <1>11, <1>12, <1>13, <1>14, <1>16, Closes

-----------------------------------------------------------------------------
(* The loop.                                                               *)
LEMMA SwapKeeps ==
    ASSUME IInv, aborted = {}, SwapFunctors, UNCHANGED user
    PROVE  IInv'
<1>1. /\ pc = "poll" /\ functors' = pendingFunctors_ /\ pendingFunctors_' = <<>>
      /\ pc' = "run" /\ active' = {} /\ young' = 0
      /\ keeper' = (IF keeper > 1 THEN keeper - 1 ELSE keeper)
      /\ UNCHANGED <<connect_, state_, channel_, watched, timers, retryDelayMs_, sock, gaveUp,
                     aborted, wanted, client, done, upc, early, dropped, connection_, conn,
                     closeCallback>>
  BY DEF SwapFunctors, life, history
<1>2. functors = <<>> /\ ~Restarting /\ ~Restarting'
  BY <1>1, Opens DEF LoopInv, Restarting
<1>3. /\ \A op : ~Has(functors, op) /\ Count(functors, op) = 0
      /\ \A op : ~Has(pendingFunctors_', op) /\ Count(pendingFunctors_', op) = 0
      /\ \A c : Down(pendingFunctors_', c) /\ pendingFunctors_' \in Seq(Entry)
  BY <1>1, <1>2, EmptyHas
<1>4. /\ \A op : Has(functors', op) <=> Has(pendingFunctors_, op)
      /\ \A op : Queued(op)' <=> Queued(op)
      /\ Starting' <=> Starting
      /\ ConnectorQueued' <=> ConnectorQueued
  BY <1>1, <1>3 DEF Queued, Starting, ConnectorQueued
<1>5. Calls' = Calls /\ InLoop' = InLoop /\ retry_' = retry_
  BY CallsStay
<1>6. /\ keeper \in Nat /\ keeper' \in Nat /\ (keeper' = 0 <=> keeper = 0)
      /\ keeper >= 3 => keeper' >= 2
      /\ keeper' > 0 => keeper > 0
  BY <1>1, Opens DEF TypeOK
<1>7. TypeOK'
  BY <1>1, <1>3, <1>5, <1>6, Typed, Opens DEF TypeOK, Entry
<1>8. SocketsOwned' /\ LoopInv'
  BY <1>1, <1>3, Opens DEF SocketsOwned, LoopInv
<1>9. ChannelInv'
  BY <1>1, <1>3, <1>4, Opens DEF ChannelInv
<1>10. UpInv'
  BY <1>1, <1>2, <1>3, <1>5, Opens DEF UpInv, Up, Restarting
<1>11. StartInv'
  BY <1>1, <1>3, <1>4, Opens DEF StartInv
<1>12. ClientInv'
  BY <1>1, <1>2, <1>4, <1>5, <1>6, Opens DEF ClientInv, Up
<1>13. LeaveInv'
  <2>1. Left' <=> Left
    BY <1>1, <1>5 DEF Left
  <2>2. ASSUME Left, keeper = 0
        PROVE  LeaveInv'
    BY <1>1, <1>4, <1>6, <2>2, Opens DEF LeaveInv
  <2>3. ASSUME Left, keeper > 0
        PROVE  LeaveInv'
    <3>1. /\ ~connect_ /\ (watched => Queued("stopInLoop"))
          /\ Has(pendingFunctors_, "stopInLoop") => keeper >= 3
      BY <2>3, Opens DEF LeaveInv
    <3>2. keeper' # 0
      BY <1>6, <2>3
    <3> QED BY <1>1, <1>3, <1>4, <1>6, <3>1, <3>2 DEF LeaveInv
  <2> QED BY <1>6, <2>1, <2>2, <2>3 DEF LeaveInv
<1>14. Attempts' = Attempts
  <2>1. Count(pendingFunctors_, "startInLoop") \in Nat
    BY Typed, CountIs, Opens
  <2>2. Starts' = Starts
    BY <1>1, <1>3, <2>1 DEF Starts
  <2>3. Ups' = Ups /\ One(Restarting') = One(Restarting)
    BY <1>1, <1>2 DEF Ups, One
  <2> QED BY <1>1, <2>2, <2>3, AttemptsNext, Parts, Opens
<1>15. AtMostOne' /\ KeepsTrying'
  BY <1>1, <1>5, <1>14, Opens DEF AtMostOne, KeepsTrying, Lost
<1> QED BY <1>1, <1>7, <1>8, <1>9, <1>10, <1>11, <1>12, <1>13, <1>15, Closes

LEMMA EndRoundKeeps ==
    ASSUME IInv, aborted = {}, EndRound, UNCHANGED user
    PROVE  IInv'
<1>1. /\ pc = "run" /\ functors = <<>> /\ pc' = "poll" /\ active' \subseteq Socks
      /\ IF pendingFunctors_ = <<>> THEN young' = 0 /\ keeper' = One(keeper > 0)
         ELSE UNCHANGED <<young, keeper>>
      /\ UNCHANGED <<connect_, state_, channel_, watched, timers, retryDelayMs_, sock, gaveUp,
                     pendingFunctors_, functors, aborted, wanted, client, done, upc, early,
                     dropped, connection_, conn, closeCallback>>
  BY DEF EndRound, life, history
<1>2. ~Restarting /\ ~Restarting'
  BY <1>1 DEF Restarting
<1>3. /\ \A op : Queued(op)' <=> Queued(op)
      /\ Starts' = Starts /\ (Starting' <=> Starting) /\ (ConnectorQueued' <=> ConnectorQueued)
      /\ Calls' = Calls /\ InLoop' = InLoop /\ retry_' = retry_
  BY <1>1, QueuesStay, CallsStay
<1>4. pendingFunctors_ = <<>> => \A op : ~Queued(op) /\ ~Has(pendingFunctors_, op)
  BY <1>1, EmptyHas DEF Queued
<1>5. /\ keeper \in Nat /\ keeper' \in Nat /\ (keeper' = 0 <=> keeper = 0)
      /\ young' \in 0..timers'
  BY <1>1, Opens DEF TypeOK, One
<1>6. TypeOK'
  BY <1>1, <1>3, <1>5, Opens DEF TypeOK
<1>7. SocketsOwned' /\ LoopInv'
  BY <1>1, Opens DEF SocketsOwned, LoopInv
<1>8. ChannelInv'
  BY <1>1, <1>3, Opens DEF ChannelInv
<1>9. UpInv'
  BY <1>1, <1>2, <1>3, Opens DEF UpInv, Up, Restarting
<1>10. StartInv'
  BY <1>1, <1>3, <1>4, Opens DEF StartInv
<1>11. ClientInv'
  BY <1>1, <1>2, <1>3, <1>5, Opens DEF ClientInv, Up
<1>12. LeaveInv'
  <2>1. Left' <=> Left
    BY <1>1, <1>3 DEF Left
  <2>2. ASSUME Left, keeper = 0
        PROVE  LeaveInv'
    BY <1>1, <1>3, <1>5, <2>2, Opens DEF LeaveInv
  <2>3. ASSUME Left, keeper > 0
        PROVE  LeaveInv'
    <3>1. /\ ~connect_ /\ (watched => Queued("stopInLoop"))
          /\ Has(pendingFunctors_, "stopInLoop") \/ Has(pendingFunctors_, "startInLoop")
                => keeper >= 3
          /\ Has(functors, "stopInLoop") \/ Has(pendingFunctors_, "resetChannel")
                => keeper >= 2
      BY <2>3, Opens DEF LeaveInv
    <3>2. keeper' # 0
      BY <1>5, <2>3
    <3>3. CASE pendingFunctors_ = <<>>
      <4>1. \A op : ~Has(functors, op)
        BY <1>1, EmptyHas
      <4> QED BY <1>1, <1>3, <1>4, <3>1, <3>2, <3>3, <4>1 DEF LeaveInv
    <3>4. CASE pendingFunctors_ # <<>>
      BY <1>1, <1>3, <3>1, <3>2, <3>4 DEF LeaveInv
    <3> QED BY <3>3, <3>4
  <2> QED BY <1>5, <2>1, <2>2, <2>3 DEF LeaveInv
<1>13. Attempts' = Attempts
  <2>1. Ups' = Ups /\ One(Restarting') = One(Restarting)
    BY <1>1, <1>2 DEF Ups, One
  <2> QED BY <1>1, <1>3, <2>1, AttemptsNext, Parts, Opens
<1>14. AtMostOne' /\ KeepsTrying'
  BY <1>1, <1>3, <1>13, Opens DEF AtMostOne, KeepsTrying, Lost
<1> QED BY <1>1, <1>6, <1>7, <1>8, <1>9, <1>10, <1>11, <1>12, <1>14, Closes

(* A functor is taken.                                                     *)
Takes == pc = "run" /\ functors # <<>> /\ functors' = Tail(functors)

LEMMA TakesFacts ==
    ASSUME IInv, aborted = {}, Takes
    PROVE  /\ functors' \in Seq(Entry) /\ Head(functors) \in Entry
           /\ \A op : Has(functors, op) <=> Has(functors', op) \/ Head(functors).op = op
           /\ \A op : Count(functors, op) = Count(functors', op) + One(Head(functors).op = op)
           /\ \A op : op # Head(functors).op =>
                 /\ Has(functors', op) <=> Has(functors, op)
                 /\ Count(functors', op) = Count(functors, op)
           /\ Down(functors', conn)
           /\ Head(functors).op = "connectDestroyed" => Closed(Head(functors).sock, conn)
           /\ ~Restarting
<1> DEFINE h == Head(functors)
<1>1. /\ functors' \in Seq(Entry) /\ h \in Entry
      /\ \A op : Has(functors, op) <=> Has(functors', op) \/ h.op = op
      /\ \A op : Count(functors, op) = Count(functors', op) + One(h.op = op)
      /\ Down(functors', conn)
      /\ h.op = "connectDestroyed" => Closed(h.sock, conn)
  BY Typed, TailHas, Opens DEF Takes, LoopInv
<1> HIDE DEF h
<1>2. ASSUME NEW op, op # h.op
      PROVE  Count(functors', op) = Count(functors, op)
  <2>1. One(h.op = op) = 0
    BY <1>2 DEF One
  <2>2. Count(functors', op) \in Nat
    BY <1>1, CountIs
  <2> QED BY <1>1, <2>1, <2>2
<1>3. ~Restarting
  BY DEF Takes, Restarting
<1> QED BY <1>1, <1>2, <1>3 DEF h

LEMMA RunStartKeeps ==
    ASSUME IInv, aborted = {}, Takes, Head(functors).op = "startInLoop",
           startInLoop(connect_, timers),
           UNCHANGED <<connect_, pendingFunctors_, pc, active, wanted, client, keeper, done,
                       upc, early, dropped, connection_, conn, closeCallback, user>>
    PROVE  IInv'
<1>1. /\ functors' \in Seq(Entry)
      /\ \A op : Has(functors, op) <=> Has(functors', op) \/ op = "startInLoop"
      /\ \A op : op # "startInLoop" =>
            /\ Has(functors', op) <=> Has(functors, op)
            /\ Count(functors', op) = Count(functors, op)
      /\ Count(functors, "startInLoop") = Count(functors', "startInLoop") + 1
      /\ Down(functors', conn) /\ ~Restarting /\ ~Restarting'
  <2>1. One(Head(functors).op = "startInLoop") = 1
    BY DEF One
  <2> QED BY <2>1, TakesFacts DEF Restarting
<1>2. Calls' = Calls /\ InLoop' = InLoop /\ retry_' = retry_
  BY CallsStay
<1>3. /\ timers \in Nat /\ young <= timers /\ connect_ \in BOOLEAN
  BY Opens DEF TypeOK
<1>4. Starting
  BY <1>1 DEF Starting
<1>5. /\ Starts = Starts' + 1 /\ Starts' \in Nat
      /\ Starting' <=> Starts' > 0
  <2>1. /\ Count(pendingFunctors_, "startInLoop") \in Nat
        /\ Count(functors', "startInLoop") \in Nat
        /\ Has(pendingFunctors_, "startInLoop") <=> Count(pendingFunctors_, "startInLoop") > 0
        /\ Has(functors', "startInLoop") <=> Count(functors', "startInLoop") > 0
    BY <1>1, Typed, CountIs, Opens
  <2>2. Starts' = Count(pendingFunctors_, "startInLoop") + Count(functors', "startInLoop")
    BY DEF Starts
  <2>3. Starts = Count(pendingFunctors_, "startInLoop") + Count(functors', "startInLoop") + 1
    BY <1>1, <2>1 DEF Starts
  <2>4. Starting' <=> Starts' > 0
    BY <2>1, <2>2 DEF Starting
  <2> QED BY <2>1, <2>2, <2>3, <2>4
<1>6. early' = 0 => /\ state_ = "kDisconnected" /\ channel_ = None /\ timers = 0
                    /\ upc' # "start" /\ ~Starting'
  <2> SUFFICES ASSUME early = 0
               PROVE  /\ state_ = "kDisconnected" /\ channel_ = None /\ timers = 0
                      /\ upc # "start" /\ ~Starting'
    OBVIOUS
  <2>1. timers = 0 /\ Starts + One(upc = "start") <= 1
    BY <1>4, OneToken, Opens
  <2>2. One(upc = "start") \in {0, 1} /\ (One(upc = "start") = 1 <=> upc = "start")
    BY Parts, Opens
  <2>3. upc # "start" /\ ~(Starts' > 0)
    BY <1>5, <2>1, <2>2
  <2> QED BY <1>4, <1>5, <2>1, <2>3, Opens DEF StartInv
<1>7. /\ Typable /\ SocketsOwned' /\ NoAssertFails'
      /\ aborted' = {} =>
            /\ state_ = "kDisconnected" /\ watched = FALSE
            /\ ChannelInv' /\ UpInv' /\ StartInv' /\ Ups' = Ups
            /\ timers' + One(watched') \in Nat /\ timers' + One(watched') <= timers + 1
            /\ connect_ => timers' + One(watched') > 0 \/ gaveUp'
            /\ ~connect_ => UNCHANGED <<channel_, watched>> /\ timers' = timers
  BY <1>1, <1>3, <1>6, StartStep
<1>8. TypeOK'
  BY <1>1, <1>2, <1>7, Opens DEF TypeOK, Typable, Entry
<1>9. ASSUME aborted' = {} PROVE Sound'
  <2>1. LoopInv'
    BY <1>1, Opens DEF LoopInv, Takes
  <2>2. Queued("setCloseCallback")' <=> Queued("setCloseCallback")
    BY <1>1 DEF Queued
  <2>3. client = "gone" /\ InLoop /\ early = 0 => ~connect_
    BY <1>4, Opens DEF ClientInv
  <2>4. ClientInv'
    BY <1>1, <1>2, <2>2, <2>3, Opens DEF ClientInv, Up
  <2>5. LeaveInv'
    <3> SUFFICES ASSUME Left PROVE LeaveInv'
      BY <1>2 DEF LeaveInv, Left
    <3>1. ConnectorQueued
      BY <1>4 DEF ConnectorQueued, Starting, Queued
    <3>2. keeper # 0
      BY <3>1, Opens DEF LeaveInv
    <3>3. keeper > 0
      BY <3>2, Opens DEF TypeOK
    <3>4. ~connect_ /\ watched' = FALSE
      BY <1>7, <1>9, <3>3, Opens DEF LeaveInv
    <3> QED BY <1>1, <3>2, <3>3, <3>4, Opens DEF LeaveInv
  <2>6. /\ One(watched) = 0 /\ One(Restarting) = 0 /\ One(Restarting') = 0
    BY <1>1, <1>7, <1>9 DEF One
  <2>7. Attempts' = One(upc = "start") + Starts' + (timers' + One(watched')) + Ups
    BY <1>5, <1>7, <1>9, <2>6, AttemptsNext, Parts, Opens DEF One, Typable
  <2>8. Attempts = One(upc = "start") + Starts' + 1 + timers + Ups
    BY <1>5, <2>6, Parts, Opens
  <2>9. /\ Attempts' <= Attempts /\ (timers' + One(watched') > 0 => Attempts' > 0)
        /\ Attempts' \in Nat
    BY <1>5, <1>7, <1>9, <2>7, <2>8, Parts, Opens
  <2>10. AtMostOne'
    BY <2>9, StaysBounded
  <2>11. KeepsTrying'
    BY <1>7, <1>9, <2>9 DEF KeepsTrying
  <2> QED BY <1>7, <1>9, <2>1, <2>4, <2>5, <2>10, <2>11 DEF Sound
<1> QED BY <1>7, <1>8, <1>9 DEF IInv

LEMMA RunStopKeeps ==
    ASSUME IInv, aborted = {}, Takes, Head(functors).op = "stopInLoop",
           stopInLoop(connect_),
           UNCHANGED <<connect_, pc, active, wanted, client, keeper, done,
                       upc, early, dropped, connection_, conn, closeCallback, user>>
    PROVE  IInv'
<1>1. /\ functors' \in Seq(Entry)
      /\ \A op : Has(functors, op) <=> Has(functors', op) \/ op = "stopInLoop"
      /\ \A op : op # "stopInLoop" =>
            /\ Has(functors', op) <=> Has(functors, op)
            /\ Count(functors', op) = Count(functors, op)
      /\ Down(functors', conn) /\ ~Restarting /\ ~Restarting'
  BY TakesFacts DEF Restarting
<1>2. Calls' = Calls /\ InLoop' = InLoop /\ retry_' = retry_
  BY CallsStay
<1>3. connect_ \in BOOLEAN /\ keeper \in Nat
  BY Opens DEF TypeOK
<1>4. ASSUME Left
      PROVE  /\ keeper > 0 /\ ~connect_ /\ keeper >= 2
             /\ Has(pendingFunctors_, "stopInLoop") \/ Has(pendingFunctors_, "startInLoop")
                   => keeper >= 3
  <2>1. Has(functors, "stopInLoop") /\ ConnectorQueued
    BY <1>1 DEF ConnectorQueued, Queued
  <2>2. keeper > 0
    BY <1>3, <1>4, <2>1, Opens DEF LeaveInv
  <2> QED BY <1>4, <2>1, <2>2, Opens DEF LeaveInv
<1>5. CASE state_ = "kConnecting"
  <2>1. /\ removeAndResetChannel /\ retry(channel_, connect_, timers)
        /\ gaveUp' = gaveUp /\ aborted' = aborted
    BY <1>5 DEF stopInLoop
  <2>2. watched = TRUE
    BY <1>5, Opens DEF ChannelInv, TypeOK
  <2>3. /\ Typable /\ SocketsOwned' /\ ChannelInv' /\ UpInv' /\ StartInv'
        /\ watched' = FALSE /\ pendingFunctors_' \in Seq(Entry)
        /\ timers' = timers + One(connect_)
        /\ \A op : Has(pendingFunctors_', op) <=>
                      Has(pendingFunctors_, op) \/ op = "resetChannel"
        /\ Starting' <=> Starting
        /\ (\A s \in Socks : ~Up(s) /\ ~(Up(s)'))
        /\ \A d : Down(pendingFunctors_, d) => Down(pendingFunctors_', d)
        /\ Attempts' \in Nat /\ Attempts' <= Attempts /\ (connect_ => Attempts' > 0)
    BY <1>1, <1>3, <2>1, <2>2, StopStep
  <2>4. TypeOK'
    BY <1>1, <1>2, <2>3, Opens DEF TypeOK, Typable, Entry
  <2>5. LoopInv'
    BY <1>1, <2>3, Opens DEF LoopInv, Takes
  <2>6. Queued("setCloseCallback")' <=> Queued("setCloseCallback")
    BY <1>1, <2>3 DEF Queued
  <2>7. client = "gone" /\ InLoop /\ early = 0 => ~connect_
    BY <2>2, Opens DEF ClientInv
  <2>8. ClientInv'
    BY <1>1, <1>2, <2>3, <2>6, <2>7, Opens DEF ClientInv, Up
  <2>9. LeaveInv'
    <3> SUFFICES ASSUME Left PROVE LeaveInv'
      BY <1>2 DEF LeaveInv, Left
    <3> QED BY <1>1, <1>3, <1>4, <2>3 DEF LeaveInv
  <2>10. AtMostOne'
    BY <2>3, StaysBounded
  <2>11. KeepsTrying'
    BY <2>3 DEF KeepsTrying
  <2> QED BY <2>1, <2>3, <2>4, <2>5, <2>8, <2>9, <2>10, <2>11, Closes
<1>6. CASE state_ # "kConnecting"
  <2>1. /\ UNCHANGED <<state_, channel_, watched, timers, young, retryDelayMs_, sock, gaveUp,
                       pendingFunctors_, aborted>>
    BY <1>6 DEF stopInLoop, connector, clock
  <2>2. watched = FALSE
    BY <1>6, Opens DEF ChannelInv, TypeOK
  <2>3. /\ Starts' = Starts /\ (Starting' <=> Starting) /\ Ups' = Ups
        /\ Queued("resetChannel")' <=> Queued("resetChannel")
        /\ Queued("setCloseCallback")' <=> Queued("setCloseCallback")
    BY <1>1, <2>1 DEF Starts, Starting, Ups, Queued
  <2>4. TypeOK'
    BY <1>1, <1>2, <2>1, Opens DEF TypeOK, Entry
  <2>5. SocketsOwned' /\ LoopInv'
    BY <1>1, <2>1, Opens DEF SocketsOwned, LoopInv, Takes
  <2>6. ChannelInv'
    BY <1>1, <2>1, <2>3, Opens DEF ChannelInv
  <2>7. UpInv'
    BY <1>1, <1>2, <2>1, Opens DEF UpInv, Up, Restarting
  <2>8. StartInv'
    BY <1>1, <2>1, <2>3, Opens DEF StartInv
  <2>9. ClientInv'
    BY <1>1, <1>2, <2>1, <2>3, Opens DEF ClientInv, Up
  <2>10. LeaveInv'
    <3> SUFFICES ASSUME Left PROVE LeaveInv'
      BY <1>2 DEF LeaveInv, Left
    <3>1. keeper # 0
      BY <1>3, <1>4
    <3> QED BY <1>1, <1>4, <2>1, <2>2, <3>1, Opens DEF LeaveInv
  <2>11. Attempts' = Attempts
    <3>1. One(Restarting') = One(Restarting)
      BY <1>1 DEF One
    <3> QED BY <2>1, <2>3, <3>1, AttemptsNext, Parts, Opens
  <2>12. AtMostOne' /\ KeepsTrying'
    BY <1>2, <2>1, <2>11, Opens DEF AtMostOne, KeepsTrying, Lost
  <2> QED BY <2>1, <2>4, <2>5, <2>6, <2>7, <2>8, <2>9, <2>10, <2>12, Closes
<1> QED BY <1>5, <1>6

LEMMA RunResetKeeps ==
    ASSUME IInv, aborted = {}, Takes, Head(functors).op = "resetChannel", resetChannel,
           UNCHANGED <<connect_, state_, timers, young, retryDelayMs_, sock, gaveUp,
                       pendingFunctors_, pc, active, aborted, wanted, client, keeper, done,
                       upc, early, dropped, connection_, conn, closeCallback, user>>
    PROVE  IInv'
<1>1. /\ functors' \in Seq(Entry)
      /\ \A op : Has(functors, op) <=> Has(functors', op) \/ op = "resetChannel"
      /\ \A op : op # "resetChannel" =>
            /\ Has(functors', op) <=> Has(functors, op)
            /\ Count(functors', op) = Count(functors, op)
      /\ Count(functors, "resetChannel") = Count(functors', "resetChannel") + 1
      /\ Down(functors', conn) /\ ~Restarting /\ ~Restarting'
  <2>1. One(Head(functors).op = "resetChannel") = 1
    BY DEF One
  <2> QED BY <2>1, TakesFacts DEF Restarting
<1>2. Calls' = Calls /\ InLoop' = InLoop /\ retry_' = retry_
  BY CallsStay
<1>3. channel_' = None /\ watched' = FALSE
  BY DEF resetChannel
<1>4. Queued("resetChannel") /\ watched = FALSE
  BY <1>1, Opens DEF ChannelInv, Queued, TypeOK
<1>5. /\ ~Queued("resetChannel")' /\ ~Has(functors', "resetChannel")
      /\ Count(functors', "resetChannel") = 0
  <2>1. /\ Count(functors', "resetChannel") \in Nat
        /\ Has(functors', "resetChannel") <=> Count(functors', "resetChannel") > 0
    BY <1>1, CountIs
  <2>2. Count(functors, "resetChannel") <= 1
    BY Opens DEF ChannelInv
  <2>3. Count(functors', "resetChannel") = 0
    BY <1>1, <2>1, <2>2
  <2>4. ~Has(functors', "resetChannel")
    BY <2>1, <2>3
  <2>5. ~Has(pendingFunctors_, "resetChannel")
    BY <1>1, Opens DEF ChannelInv
  <2> QED BY <2>3, <2>4, <2>5 DEF Queued
<1>6. /\ Starts' = Starts /\ (Starting' <=> Starting) /\ Ups' = Ups
      /\ \A op : op # "resetChannel" => (Queued(op)' <=> Queued(op))
  BY <1>1 DEF Starts, Starting, Ups, Queued
<1>7. TypeOK'
  BY <1>1, <1>2, <1>3, Opens DEF TypeOK, Entry
<1>8. SocketsOwned' /\ LoopInv'
  BY <1>1, <1>3, <1>4, Opens DEF SocketsOwned, LoopInv, Takes
<1>9. ChannelInv'
  BY <1>3, <1>4, <1>5, Opens DEF ChannelInv
<1>10. UpInv'
  BY <1>1, <1>2, Opens DEF UpInv, Up, Restarting
<1>11. StartInv'
  BY <1>3, <1>6, Opens DEF StartInv
<1>12. ClientInv'
  BY <1>1, <1>2, <1>3, <1>6, Opens DEF ClientInv, Up
<1>13. LeaveInv'
  <2> SUFFICES ASSUME Left PROVE LeaveInv'
    BY <1>2 DEF LeaveInv, Left
  <2>1. ConnectorQueued
    BY <1>4 DEF ConnectorQueued
  <2>2. keeper # 0 /\ keeper \in Nat
    BY <2>1, Opens DEF LeaveInv, TypeOK
  <2> QED BY <1>1, <1>3, <2>2, Opens DEF LeaveInv
<1>14. Attempts' = Attempts
  <2>1. One(Restarting') = One(Restarting) /\ One(watched') = One(watched)
    BY <1>1, <1>3, <1>4 DEF One
  <2> QED BY <1>6, <2>1, AttemptsNext, Parts, Opens
<1>15. AtMostOne' /\ KeepsTrying'
  BY <1>2, <1>14, Opens DEF AtMostOne, KeepsTrying, Lost
<1> QED BY <1>7, <1>8, <1>9, <1>10, <1>11, <1>12, <1>13, <1>15, Closes

(* A functor of a connection.                                              *)
LEMMA RunConnectionStep ==
    ASSUME IInv, aborted = {}, Takes,
           Head(functors).op \in {"setCloseCallback", "connectDestroyed"},
           UNCHANGED <<connect_, state_, channel_, watched, timers, young, retryDelayMs_, sock,
                       gaveUp, pendingFunctors_, pc, active, aborted, wanted, client, keeper,
                       done, upc, early, dropped, connection_, user>>,
           conn' \in [Socks -> {"none", "up", "down", "destroyed"}],
           closeCallback' \in [Socks -> {"client", "detail"}],
           \A s \in Socks : /\ (conn'[s] = "up" <=> Up(s))
                            /\ (conn'[s] = "none" <=> conn[s] = "none")
                            /\ (Closed(s, conn) => Closed(s, conn'))
                            /\ (closeCallback[s] = "detail" => closeCallback'[s] = "detail"),
           client # "gone" => closeCallback' = closeCallback
    PROVE  IInv'
<1>1. /\ functors' \in Seq(Entry)
      /\ \A op : Has(functors', op) => Has(functors, op)
      /\ \A op : op \notin {"setCloseCallback", "connectDestroyed"} =>
            /\ Has(functors', op) <=> Has(functors, op)
            /\ Count(functors', op) = Count(functors, op)
      /\ Down(functors', conn) /\ ~Restarting /\ ~Restarting'
  BY TakesFacts DEF Restarting
<1>2. Calls' = Calls /\ InLoop' = InLoop /\ retry_' = retry_
  BY CallsStay
<1>3. /\ Starts' = Starts /\ (Starting' <=> Starting)
      /\ Queued("resetChannel")' <=> Queued("resetChannel")
      /\ Queued("stopInLoop")' <=> Queued("stopInLoop")
      /\ Queued("setCloseCallback")' => Queued("setCloseCallback")
      /\ ConnectorQueued' <=> ConnectorQueued
  BY <1>1 DEF Starts, Starting, Queued, ConnectorQueued
<1>4. \A s \in Socks : Up(s)' <=> Up(s)
  BY DEF Up
<1>5. Ups' = Ups
  <2>1. {s \in Socks : conn'[s] = "up"} = {s \in Socks : conn[s] = "up"}
    BY DEF Up
  <2> QED BY <2>1 DEF Ups
<1>6. TypeOK'
  BY <1>1, <1>2, Opens DEF TypeOK, Entry
<1>7. SocketsOwned'
  BY Opens DEF SocketsOwned
<1>8. LoopInv'
  <2>1. Down(pendingFunctors_, conn) /\ pc = "run"
    BY Opens DEF LoopInv, Takes
  <2>2. Down(pendingFunctors_, conn') /\ Down(functors', conn')
    BY <1>1, <2>1 DEF Down, Closed
  <2> QED BY <2>1, <2>2 DEF LoopInv
<1>9. ChannelInv'
  BY <1>1, <1>3, Opens DEF ChannelInv
<1>10. UpInv'
  BY <1>1, <1>2, <1>4, Opens DEF UpInv, Restarting
<1>11. StartInv'
  BY <1>3, Opens DEF StartInv
<1>12. ClientInv'
  BY <1>1, <1>2, <1>3, <1>4, Opens DEF ClientInv
<1>13. LeaveInv'
  BY <1>1, <1>2, <1>3, Opens DEF LeaveInv, Left
<1>14. Attempts' = Attempts
  <2>1. One(Restarting') = One(Restarting)
    BY <1>1 DEF One
  <2> QED BY <1>3, <1>5, <2>1, AttemptsNext, Parts, Opens
<1>15. AtMostOne' /\ KeepsTrying'
  BY <1>2, <1>14, Opens DEF AtMostOne, KeepsTrying, Lost
<1> QED BY <1>6, <1>7, <1>8, <1>9, <1>10, <1>11, <1>12, <1>13, <1>15, Closes

LEMMA RunFunctorKeeps ==
    ASSUME IInv, aborted = {}, RunFunctor, UNCHANGED user
    PROVE  IInv'
<1> DEFINE f == Head(functors)
<1>1. /\ Takes
      /\ UNCHANGED <<connect_, pc, active, wanted, client, keeper, done, upc, early, dropped>>
  BY DEF RunFunctor, Takes, callers, history
<1>2. CASE f.op = "startInLoop" /\ startInLoop(connect_, timers)
           /\ UNCHANGED <<pendingFunctors_, life>>
  <2>1. UNCHANGED <<connection_, conn, closeCallback, pendingFunctors_>>
    BY <1>2 DEF life
  <2> QED BY <1>1, <1>2, <2>1, RunStartKeeps
<1>3. CASE f.op = "stopInLoop" /\ stopInLoop(connect_) /\ UNCHANGED life
  <2>1. UNCHANGED <<connection_, conn, closeCallback>>
    BY <1>3 DEF life
  <2> QED BY <1>1, <1>3, <2>1, RunStopKeeps
<1>4. CASE /\ f.op = "resetChannel" /\ resetChannel
           /\ UNCHANGED <<state_, clock, sock, gaveUp, pendingFunctors_, aborted, life>>
  <2>1. UNCHANGED <<state_, timers, young, retryDelayMs_, sock, gaveUp, pendingFunctors_,
                    aborted, connection_, conn, closeCallback>>
    BY <1>4 DEF life, clock
  <2> QED BY <1>1, <1>4, <2>1, RunResetKeeps
<1>5. CASE /\ f.op = "setCloseCallback"
           /\ closeCallback' = [closeCallback EXCEPT ![f.sock] = "detail"]
           /\ UNCHANGED <<connector, pendingFunctors_, aborted, connection_, conn>>
  <2>1. UNCHANGED <<state_, channel_, watched, timers, young, retryDelayMs_, sock, gaveUp,
                    pendingFunctors_, aborted, connection_, conn>>
    BY <1>5 DEF connector, clock
  <2>2. closeCallback \in [Socks -> {"client", "detail"}]
    BY Opens DEF TypeOK
  <2>3. /\ closeCallback' \in [Socks -> {"client", "detail"}]
        /\ \A s \in Socks : closeCallback[s] = "detail" => closeCallback'[s] = "detail"
    BY <1>5, <2>2
  <2>4. Has(functors, "setCloseCallback")
    BY <1>1, <1>5, TakesFacts
  <2>5. client = "gone"
    BY <2>4, Opens DEF ClientInv, Queued
  <2>6. /\ conn' \in [Socks -> {"none", "up", "down", "destroyed"}]
        /\ \A s \in Socks : /\ (conn'[s] = "up" <=> Up(s))
                            /\ (conn'[s] = "none" <=> conn[s] = "none")
                            /\ (Closed(s, conn) => Closed(s, conn'))
    BY <2>1, Opens DEF TypeOK, Up
  <2> QED BY <1>1, <1>5, <2>1, <2>3, <2>5, <2>6, RunConnectionStep
<1>6. CASE /\ f.op = "connectDestroyed"
           /\ conn' = [conn EXCEPT ![f.sock] = "destroyed"]
           /\ UNCHANGED <<connector, pendingFunctors_, aborted, connection_, closeCallback>>
  <2>1. UNCHANGED <<state_, channel_, watched, timers, young, retryDelayMs_, sock, gaveUp,
                    pendingFunctors_, aborted, connection_, closeCallback>>
    BY <1>6 DEF connector, clock
  <2>2. Closed(f.sock, conn)
    BY <1>1, <1>6, TakesFacts
  <2>3. /\ conn \in [Socks -> {"none", "up", "down", "destroyed"}]
        /\ closeCallback \in [Socks -> {"client", "detail"}]
    BY Opens DEF TypeOK
  <2>4. /\ conn' \in [Socks -> {"none", "up", "down", "destroyed"}]
        /\ \A s \in Socks : /\ (conn'[s] = "up" <=> Up(s))
                            /\ (conn'[s] = "none" <=> conn[s] = "none")
                            /\ (Closed(s, conn) => Closed(s, conn'))
    BY <1>6, <2>2, <2>3 DEF Up, Closed
  <2> QED BY <1>1, <1>6, <2>1, <2>3, <2>4, RunConnectionStep
<1> QED BY <1>2, <1>3, <1>4, <1>5, <1>6 DEF RunFunctor

-----------------------------------------------------------------------------
(* The peer.                                                               *)
LEMMA AttemptFailsKeeps ==
    ASSUME IInv, aborted = {}, AttemptFails, UNCHANGED <<callers, life, user>>
    PROVE  IInv'
<1>1. /\ pc = "poll" /\ watched = TRUE /\ removeAndResetChannel
      /\ retry(channel_, connect_, timers)
      /\ assert(state_ = "kConnecting", "handleError: assert state_")
      /\ active' = active \ {channel_}
      /\ UNCHANGED <<connect_, gaveUp, functors, pc, wanted, client, keeper, done, upc, early,
                     dropped, connection_, conn, closeCallback>>
  BY Opens DEF AttemptFails, callers, life, history, TypeOK
<1>2. Calls' = Calls /\ InLoop' = InLoop /\ retry_' = retry_ /\ connect_ \in BOOLEAN
  BY CallsStay, Opens DEF TypeOK
<1>3. /\ Typable /\ SocketsOwned' /\ ChannelInv' /\ UpInv' /\ StartInv'
      /\ watched' = FALSE /\ pendingFunctors_' \in Seq(Entry) /\ channel_ \in Socks
      /\ timers' = timers + One(connect_)
      /\ \A op : Has(pendingFunctors_', op) <=>
                    Has(pendingFunctors_, op) \/ op = "resetChannel"
      /\ Starting' <=> Starting
      /\ (\A s \in Socks : ~Up(s) /\ ~(Up(s)')) /\ ~Restarting
      /\ \A d : Down(pendingFunctors_, d) => Down(pendingFunctors_', d)
      /\ Attempts' \in Nat /\ Attempts' <= Attempts /\ (connect_ => Attempts' > 0)
  BY <1>1, <1>2, StopStep
<1>4. aborted' = {}
  BY <1>1, Opens DEF assert, ChannelInv
<1>5. TypeOK'
  BY <1>1, <1>2, <1>3, <1>4, Opens DEF TypeOK, Typable, Entry
<1>6. LoopInv'
  BY <1>1, <1>3, Opens DEF LoopInv
<1>7. Queued("setCloseCallback")' <=> Queued("setCloseCallback")
  BY <1>1, <1>3 DEF Queued
<1>8. client = "gone" /\ InLoop /\ early = 0 => ~connect_
  BY <1>1, Opens DEF ClientInv
<1>9. ClientInv'
  BY <1>1, <1>2, <1>3, <1>7, <1>8, Opens DEF ClientInv, Up, Restarting
<1>10. \A op : ~Has(functors, op)
  BY <1>1, EmptyHas, Opens DEF LoopInv
<1>11. LeaveInv'
  <2> SUFFICES ASSUME Left PROVE LeaveInv'
    BY <1>1, <1>2 DEF LeaveInv, Left
  <2>1. keeper # 0 /\ keeper \in Nat
    BY <1>3, ClientAssumption, Opens DEF LeaveInv, TypeOK
  <2>2. keeper > 0
    BY <2>1
  <2>3. ~connect_ /\ Has(pendingFunctors_, "stopInLoop")
    BY <1>1, <1>10, <2>2, Opens DEF LeaveInv, Queued
  <2>4. keeper >= 3
    BY <2>2, <2>3, Opens DEF LeaveInv
  <2>5. keeper >= 2
    BY <2>1, <2>4
  <2>6. /\ connect_' = connect_ /\ keeper' = keeper /\ watched' = FALSE
        /\ \A op : ~Has(functors', op)
    BY <1>1, <1>3, <1>10
  <2> QED BY <2>1, <2>3, <2>4, <2>5, <2>6 DEF LeaveInv
<1>12. AtMostOne'
  BY <1>1, <1>3, StaysBounded
<1>13. KeepsTrying'
  BY <1>1, <1>3 DEF KeepsTrying
<1> QED BY <1>3, <1>4, <1>5, <1>6, <1>9, <1>11, <1>12, <1>13, Closes

LEMMA ConnectedKeeps ==
    ASSUME IInv, aborted = {}, NEW s \in Socks, Connected(s), UNCHANGED user,
           InLoop => client # "dying"
    PROVE  IInv'
<1>1. /\ pc = "poll" /\ watched = TRUE /\ s = channel_ /\ state_ = "kConnecting"
      /\ removeAndResetChannel /\ state_' = "kConnected"
      /\ sock' = [sock EXCEPT ![s] = IF connect_ THEN "handed" ELSE "closed"]
      /\ active' = active \ {s}
      /\ IF connect_
         THEN /\ connection_' = s /\ conn' = [conn EXCEPT ![s] = "up"]
              /\ aborted' = (IF client # "gone" THEN aborted
                             ELSE aborted \cup {"newConnection: use of TcpClient"})
         ELSE UNCHANGED <<connection_, conn, aborted>>
      /\ UNCHANGED <<connect_, timers, young, retryDelayMs_, gaveUp, functors, pc,
                     closeCallback, wanted, client, keeper, done, upc, early, dropped>>
  BY Opens
     DEF Connected, AttemptSucceeds, newConnection, assert, clock, callers, history, TypeOK
<1>2. Calls' = Calls /\ InLoop' = InLoop /\ retry_' = retry_
  BY CallsStay
<1>3. /\ watched' = FALSE /\ channel_' = channel_ /\ ChannelInv'
      /\ pendingFunctors_' \in Seq(Entry)
      /\ \A op : Has(pendingFunctors_', op) <=>
                    Has(pendingFunctors_, op) \/ op = "resetChannel"
      /\ Starts' = Starts /\ (Starting' <=> Starting)
      /\ \A c : Down(pendingFunctors_, c) => Down(pendingFunctors_', c)
  BY <1>1, RemoveFacts, Opens
<1>4. ~Restarting /\ ~Restarting' /\ \A r \in Socks : ~Up(r)
  BY <1>1, Opens DEF UpInv, Restarting
<1>5. /\ sock \in [Socks -> {"none", "open", "closed", "handed"}]
      /\ conn \in [Socks -> {"none", "up", "down", "destroyed"}]
      /\ {r \in Socks : sock[r] = "open"} = {s}
      /\ \A r \in Socks : (sock[r] = "handed") = (conn[r] # "none")
  BY <1>1, Opens DEF TypeOK, SocketsOwned
<1>6. sock[s] = "open" /\ conn[s] = "none"
  BY <1>5
<1>7. SocketsOwned'
  <2>1. {r \in Socks : sock'[r] = "open"} = {}
    BY <1>1, <1>5
  <2>2. \A r \in Socks : (sock'[r] = "handed") = (conn'[r] # "none")
    BY <1>1, <1>5, <1>6
  <2> QED BY <1>3, <2>1, <2>2 DEF SocketsOwned
<1>8. TypeOK'
  <2>1. sock' \in [Socks -> {"none", "open", "closed", "handed"}]
    BY <1>1, <1>5
  <2>2. conn' \in [Socks -> {"none", "up", "down", "destroyed"}]
    BY <1>1, <1>5
  <2>3. connection_' \in Socks \cup {None} /\ channel_' \in Socks \cup {None}
    BY <1>1, <1>3, Opens DEF TypeOK
  <2> QED BY <1>1, <1>2, <1>3, <2>1, <2>2, <2>3, Opens DEF TypeOK, Entry
<1>9. client = "gone" /\ InLoop /\ early = 0 => ~connect_
  BY <1>1, Opens DEF ClientInv
<1>10. NoAssertFails'
  BY <1>1, <1>2, <1>9 DEF NoAssertFails
<1>11. ASSUME aborted' = {} PROVE Sound'
  <2>1. connect_ => client # "gone"
    BY <1>1, <1>11
  <2>2. LoopInv'
    <3>1. Down(pendingFunctors_, conn)
      BY Opens DEF LoopInv
    <3>2. Down(pendingFunctors_, conn')
      BY <1>1, <1>5, <1>6, <3>1 DEF Down, Closed
    <3>3. functors' = <<>> /\ pc' # "run"
      BY <1>1, Opens DEF LoopInv
    <3> QED BY <1>3, <3>2, <3>3, EmptyHas DEF LoopInv
  <2>3. /\ connect_ => \A r \in Socks : Up(r)' <=> r = s
        /\ ~connect_ => \A r \in Socks : ~(Up(r)')
    BY <1>1, <1>4, <1>5 DEF Up
  <2>4. UpInv'
    BY <1>1, <1>4, <2>3 DEF UpInv, Restarting
  <2>5. StartInv'
    <3>1. early = 0 => upc # "start" /\ ~Starting /\ timers = 0
      BY <1>1, OneToken, Opens
    <3>2. young \in Nat /\ young <= timers /\ timers \in Nat
      BY Opens DEF TypeOK
    <3>3. timers = 0 => ~(timers > 0) /\ ~(timers > young)
      BY <3>2
    <3> QED BY <1>1, <1>3, <3>1, <3>3 DEF StartInv
  <2>6. Queued("setCloseCallback")' <=> Queued("setCloseCallback")
    BY <1>1, <1>3 DEF Queued
  <2>7. ClientInv'
    <3>1. client # "gone" =>
            \A r \in Socks : closeCallback[r] = "client" /\ (Up(r)' <=> connection_' = r)
      BY <1>1, <1>4, <2>3, Opens DEF ClientInv
    <3>2. client = "gone" => \A r \in Socks : ~(Up(r)')
      BY <2>1, <2>3
    <3>3. client = "gone" /\ InLoop /\ early = 0 => ~connect_
      BY <1>9
    <3> QED BY <1>1, <1>2, <1>4, <2>6, <3>1, <3>2, <3>3, Opens DEF ClientInv
  <2>8. \A op : ~Has(functors, op)
    BY <1>1, EmptyHas, Opens DEF LoopInv
  <2>9. LeaveInv'
    <3> SUFFICES ASSUME Left PROVE LeaveInv'
      BY <1>1, <1>2 DEF LeaveInv, Left
    <3>1. keeper # 0 /\ keeper \in Nat
      BY <1>1, ClientAssumption, Opens DEF LeaveInv, TypeOK
    <3>2. keeper > 0
      BY <3>1
    <3>3. ~connect_ /\ Has(pendingFunctors_, "stopInLoop")
      BY <1>1, <2>8, <3>2, Opens DEF LeaveInv, Queued
    <3>4. keeper >= 3
      BY <3>2, <3>3, Opens DEF LeaveInv
    <3>5. keeper >= 2
      BY <3>1, <3>4
    <3>6. /\ connect_' = connect_ /\ keeper' = keeper /\ watched' = FALSE
          /\ \A op : ~Has(functors', op)
      BY <1>1, <1>3, <2>8
    <3> QED BY <3>1, <3>3, <3>4, <3>5, <3>6 DEF LeaveInv
  <2>10. Ups' = Ups + One(connect_)
    <3>1. CASE connect_
      <4>1. Ups' = Ups + One("up" = "up") - One(Up(s))
        BY <1>1, <3>1, UpsMove, Opens
      <4>2. One("up" = "up") = 1 /\ One(Up(s)) = 0 /\ One(connect_) = 1
        BY <1>4, <3>1 DEF One
      <4> QED BY <4>1, <4>2, Parts, Opens
    <3>2. CASE ~connect_
      <4>1. Ups' = Ups /\ One(connect_) = 0
        BY <1>1, <3>2 DEF Ups, One
      <4> QED BY <4>1, Parts, Opens
    <3> QED BY <3>1, <3>2
  <2>11. /\ One(watched) = 1 /\ One(watched') = 0 /\ One(Restarting') = One(Restarting)
         /\ One(connect_) \in {0, 1} /\ (connect_ => One(connect_) = 1)
    BY <1>1, <1>3, <1>4 DEF One
  <2>12. Attempts' = One(upc = "start") + Starts + timers + 0 + (Ups + One(connect_))
                     + One(Restarting)
    BY <1>1, <1>3, <2>10, <2>11, AttemptsNext
  <2>13. Attempts = One(upc = "start") + Starts + timers + 1 + Ups + One(Restarting)
    BY <2>11, Parts, Opens
  <2>14. Attempts' \in Nat /\ Attempts' <= Attempts /\ (connect_ => Attempts' > 0)
    <3> DEFINE c == One(connect_)
    <3>1. c \in {0, 1} /\ (connect_ => c = 1)
      BY <2>11
    <3>2. /\ One(upc = "start") \in {0, 1} /\ Starts \in Nat /\ timers \in Nat
          /\ Ups \in Nat /\ One(Restarting) \in {0, 1}
      BY Parts, Opens
    <3> HIDE DEF c
    <3>3. Attempts' = One(upc = "start") + Starts + timers + 0 + (Ups + c) + One(Restarting)
      BY <2>12 DEF c
    <3> QED BY <2>13, <3>1, <3>2, <3>3
  <2>15. AtMostOne'
    BY <1>1, <2>14, StaysBounded
  <2>16. KeepsTrying'
    BY <1>1, <2>14 DEF KeepsTrying
  <2> QED BY <1>3, <2>2, <2>4, <2>5, <2>7, <2>9, <2>15, <2>16 DEF Sound
<1> QED BY <1>7, <1>8, <1>10, <1>11 DEF IInv

LEMMA CloseKeeps ==
    ASSUME IInv, aborted = {}, NEW s \in Socks, handleClose(s), UNCHANGED user,
           InLoop => client # "dying"
    PROVE  IInv'
<1> DEFINE e == [op |-> "connectDestroyed", sock |-> s]
           kept == closeCallback[s] = "client"
<1>1. /\ pc = "poll" /\ Up(s) /\ s \in active /\ active' = active \ {s}
      /\ conn' = [conn EXCEPT ![s] = "down"]
      /\ pendingFunctors_' = Append(pendingFunctors_, e)
      /\ IF kept
         THEN /\ aborted' = (IF client # "gone" /\ connection_ = s THEN aborted
                             ELSE aborted \cup {"removeConnection"})
              /\ pc' = (IF retry_ /\ wanted THEN "restart" ELSE pc)
              /\ connection_' = None
         ELSE UNCHANGED <<connection_, aborted, pc>>
      /\ UNCHANGED <<connect_, state_, channel_, watched, timers, young, retryDelayMs_, sock,
                     gaveUp, functors, closeCallback, wanted, client, keeper, done, upc,
                     early, dropped>>
  BY DEF handleClose, removeConnection, assert, Up, connector, clock, callers, history
<1>2. Calls' = Calls /\ InLoop' = InLoop /\ retry_' = retry_
  BY CallsStay
<1>3. e \in Entry /\ e.op = "connectDestroyed" /\ e.sock = s
  BY DEF Entry, Ops
<1> HIDE DEF e, kept
<1>4. /\ pendingFunctors_' \in Seq(Entry)
      /\ \A op : op # "connectDestroyed" =>
            /\ Has(pendingFunctors_', op) <=> Has(pendingFunctors_, op)
            /\ Queued(op)' <=> Queued(op)
            /\ Count(pendingFunctors_', op) = Count(pendingFunctors_, op)
      /\ \A c : Down(pendingFunctors_, c) /\ Closed(s, c) => Down(pendingFunctors_', c)
  <2>1. /\ pendingFunctors_' \in Seq(Entry)
        /\ \A op : Has(pendingFunctors_', op) <=> Has(pendingFunctors_, op) \/ e.op = op
        /\ \A op : Queued(op)' <=> Queued(op) \/ e.op = op
        /\ \A op : Count(pendingFunctors_', op) = Count(pendingFunctors_, op) + One(e.op = op)
        /\ \A c : Down(pendingFunctors_, c) /\ Closed(s, c) => Down(pendingFunctors_', c)
    BY <1>1, <1>3, Enqueued, Opens
  <2>2. ASSUME NEW op, op # "connectDestroyed"
        PROVE  Count(pendingFunctors_', op) = Count(pendingFunctors_, op)
    <3>1. One(e.op = op) = 0
      BY <1>3, <2>2 DEF One
    <3>2. Count(pendingFunctors_, op) \in Nat
      BY Typed, CountIs, Opens
    <3> QED BY <2>1, <3>1, <3>2
  <2> QED BY <1>3, <2>1, <2>2
<1>5. /\ Queued("resetChannel")' <=> Queued("resetChannel")
      /\ Queued("setCloseCallback")' <=> Queued("setCloseCallback")
      /\ Queued("stopInLoop")' <=> Queued("stopInLoop")
      /\ Starts' = Starts /\ (Starting' <=> Starting)
      /\ ConnectorQueued' <=> ConnectorQueued
  BY <1>1, <1>4 DEF Starts, Starting, ConnectorQueued
<1>6. /\ state_ = "kConnected" /\ ~Restarting /\ ~Has(pendingFunctors_, "resetChannel")
      /\ functors = <<>> /\ functors' = <<>> /\ pc' # "run"
      /\ \A r \in Socks : Up(r) => r = s
  BY <1>1, Opens DEF UpInv, LoopInv
<1>7. /\ conn \in [Socks -> {"none", "up", "down", "destroyed"}]
      /\ conn' \in [Socks -> {"none", "up", "down", "destroyed"}]
      /\ conn'[s] = "down" /\ \A r \in Socks : r # s => conn'[r] = conn[r]
      /\ \A r \in Socks : ~(Up(r)')
  BY <1>1, <1>6, Opens DEF TypeOK, Up
<1>8. SocketsOwned'
  <2>1. \A r \in Socks : conn'[r] = "none" <=> conn[r] = "none"
    BY <1>1, <1>7 DEF Up
  <2> QED BY <1>1, <2>1, Opens DEF SocketsOwned
<1>9. TypeOK'
  <2>1. connection_' \in Socks \cup {None} /\ pc' \in {"poll", "run", "restart", "restarted"}
    BY <1>1, Opens DEF TypeOK
  <2> QED BY <1>1, <1>2, <1>4, <1>7, <2>1, Opens DEF TypeOK, Entry
<1>10. client # "gone" => kept /\ connection_ = s
  BY <1>1, Opens DEF ClientInv, kept
<1>11. client = "gone" /\ InLoop => ~kept
  BY <1>1, Opens DEF ClientInv, kept
<1>12. NoAssertFails'
  BY <1>1, <1>2, <1>10, <1>11 DEF NoAssertFails
<1>13. ASSUME aborted' = {} PROVE Sound'
  <2>1. kept <=> client # "gone"
    BY <1>1, <1>10, <1>13
  <2>2. LoopInv'
    <3>1. Down(pendingFunctors_, conn) /\ Closed(s, conn')
      BY <1>7, Opens DEF LoopInv, Closed
    <3>2. Down(pendingFunctors_, conn')
      BY <1>7, <3>1 DEF Down, Closed
    <3> QED BY <1>4, <1>6, <3>1, <3>2, EmptyHas DEF LoopInv
  <2>3. ChannelInv'
    BY <1>1, <1>4, <1>5, Opens DEF ChannelInv
  <2>4. /\ pc' \in {"poll", "restart"}
        /\ pc' = "restart" <=> kept /\ retry_ /\ wanted
        /\ Restarting' <=> kept /\ retry_ /\ wanted
    BY <1>1 DEF Restarting
  <2>5. UpInv'
    <3>1. ~Has(pendingFunctors_', "resetChannel") /\ pc' # "restarted"
      BY <1>4, <1>6, <2>4
    <3> QED BY <1>1, <1>2, <1>6, <1>7, <2>4, <3>1 DEF UpInv
  <2>6. StartInv'
    <3>1. early = 0 => upc # "start" /\ ~Starting /\ timers = 0
      BY <1>1, OneToken, Opens
    <3>2. young \in Nat /\ young <= timers /\ timers \in Nat
      BY Opens DEF TypeOK
    <3>3. timers = 0 => ~(timers > 0) /\ ~(timers > young)
      BY <3>2
    <3> QED BY <1>1, <1>5, <3>1, <3>3 DEF StartInv
  <2>7. ClientInv'
    <3>1. client # "gone" => connection_' = None
      BY <1>1, <2>1
    <3>2. None \notin Socks
      BY ClientAssumption
    <3>3. InLoop /\ client # "alive" => ~Restarting'
      BY <2>1, <2>4, Opens DEF TypeOK
    <3> QED BY <1>1, <1>2, <1>5, <1>7, <3>1, <3>2, <3>3, Opens DEF ClientInv
  <2>8. LeaveInv'
    BY <1>1, <1>2, <1>4, <1>5, Opens DEF LeaveInv, Left
  <2>9. Ups = Ups' + 1 /\ Ups' \in Nat
    <3>1. Ups' = Ups + One("down" = "up") - One(Up(s))
      BY <1>1, UpsMove, Opens
    <3>2. One("down" = "up") = 0 /\ One(Up(s)) = 1
      BY <1>1 DEF One
    <3>3. Ups \in Nat /\ Ups > 0
      BY <1>1, Parts, Opens
    <3> QED BY <3>1, <3>2, <3>3
  <2>11. /\ One(Restarting) = 0 /\ One(Restarting') \in {0, 1}
         /\ Restarting' => One(Restarting') = 1
    BY <1>6 DEF One
  <2>12. Attempts' = One(upc = "start") + Starts + timers + One(watched) + Ups'
                     + One(Restarting')
    BY <1>1, <1>5, AttemptsNext
  <2>13. Attempts = One(upc = "start") + Starts + timers + One(watched) + (Ups' + 1) + 0
    BY <2>9, <2>11, Parts, Opens
  <2>14. /\ Attempts' \in Nat /\ Attempts' <= Attempts /\ (Restarting' => Attempts' > 0)
    <3> DEFINE u == Ups'
               v == One(Restarting')
    <3>1. u \in Nat /\ v \in {0, 1} /\ (Restarting' => v = 1)
      BY <2>9, <2>11
    <3>2. /\ One(upc = "start") \in {0, 1} /\ Starts \in Nat /\ timers \in Nat
          /\ One(watched) \in {0, 1}
      BY Parts, Opens
    <3> HIDE DEF u, v
    <3>3. /\ Attempts' = One(upc = "start") + Starts + timers + One(watched) + u + v
          /\ Attempts = One(upc = "start") + Starts + timers + One(watched) + (u + 1) + 0
      BY <2>12, <2>13 DEF u, v
    <3> QED BY <3>1, <3>2, <3>3
  <2>15. AtMostOne'
    BY <1>1, <2>14, StaysBounded
  <2>16. KeepsTrying'
    <3>1. Restarting' \/ Lost'
      BY <1>1, <1>2, <1>6, <2>1, <2>4 DEF Lost
    <3> QED BY <2>14, <3>1 DEF KeepsTrying
  <2> QED BY <2>2, <2>3, <2>5, <2>6, <2>7, <2>8, <2>15, <2>16 DEF Sound
<1> QED BY <1>8, <1>9, <1>12, <1>13 DEF IInv

-----------------------------------------------------------------------------
LEMMA Initial ==
    ASSUME Init
    PROVE  IInv
<1>1. /\ user \in Users /\ connect_ = FALSE /\ state_ = "kDisconnected" /\ gaveUp = FALSE
      /\ retryDelayMs_ = kInitRetryDelayMs
      /\ channel_ = None /\ watched = FALSE /\ timers = 0 /\ young = 0
      /\ sock = [s \in Socks |-> "none"] /\ aborted = {}
      /\ pendingFunctors_ = <<>> /\ functors = <<>> /\ pc = "poll" /\ active = {}
      /\ wanted = TRUE /\ client = "alive" /\ keeper = 0
      /\ connection_ = None /\ conn = [s \in Socks |-> "none"]
      /\ closeCallback = [s \in Socks |-> "client"] /\ done = 0 /\ upc = "idle"
      /\ early = 0 /\ dropped = FALSE
  BY DEF Init, ConnectorInit
<1>2. /\ \A op : ~Has(pendingFunctors_, op) /\ ~Has(functors, op)
      /\ \A op : Count(pendingFunctors_, op) = 0 /\ Count(functors, op) = 0
      /\ \A c : Down(pendingFunctors_, c) /\ Down(functors, c)
      /\ pendingFunctors_ \in Seq(Entry) /\ functors \in Seq(Entry)
  BY <1>1, EmptyHas
<1>3. /\ \A op : ~Queued(op)
      /\ ~Starting /\ ~Restarting /\ (\A s \in Socks : ~Up(s))
  BY <1>1, <1>2 DEF Queued, Starting, Restarting, Up
<1>4. TypeOK
  <2>1. retryDelayMs_ \in kInitRetryDelayMs..kMaxRetryDelayMs
    BY <1>1, DelayAssumption
  <2>2. done \in 0..Len(Calls)
    <3>1. Calls \in Seq({"connect", "stop", "disconnect", "destroy"})
      BY <1>1, ClientAssumption DEF Calls
    <3>2. Len(Calls) \in Nat
      BY <3>1, LenProperties
    <3> QED BY <1>1, <3>2
  <2>3. /\ sock \in [Socks -> {"none", "open", "closed", "handed"}]
        /\ conn \in [Socks -> {"none", "up", "down", "destroyed"}]
        /\ closeCallback \in [Socks -> {"client", "detail"}]
    BY <1>1
  <2>4. young \in 0..timers
    BY <1>1
  <2>5. pendingFunctors_ \in Seq([op : Ops, sock : Socks \cup {None}])
        /\ functors \in Seq([op : Ops, sock : Socks \cup {None}])
    BY <1>2 DEF Entry
  <2> QED BY <1>1, <2>1, <2>2, <2>3, <2>4, <2>5 DEF TypeOK
<1>5. SocketsOwned /\ NoAssertFails
  BY <1>1 DEF SocketsOwned, NoAssertFails
<1>6. ChannelInv /\ LoopInv /\ UpInv /\ StartInv
  BY <1>1, <1>2, <1>3 DEF ChannelInv, LoopInv, UpInv, StartInv, Restarting
<1>7. ClientInv
  BY <1>1, <1>3, ClientAssumption DEF ClientInv
<1>8. LeaveInv
  BY <1>1 DEF LeaveInv, Left
<1>9. AtMostOne
  <2>1. /\ Starts \in Nat /\ ~(Starts > 0) /\ Ups \in Nat /\ ~(Ups > 0)
    BY <1>3, <1>4, Parts
  <2>2. Starts = 0 /\ Ups = 0
    BY <2>1
  <2>3. /\ One(upc = "start") = 0 /\ One(watched) = 0 /\ One(Restarting) = 0
    BY <1>1, <1>3 DEF One
  <2>4. Attempts = 0
    BY <1>1, <1>4, <2>2, <2>3, Parts
  <2> QED BY <1>1, <2>4 DEF AtMostOne
<1>10. KeepsTrying
  BY <1>1 DEF KeepsTrying
<1> QED BY <1>4, <1>5, <1>6, <1>7, <1>8, <1>9, <1>10 DEF IInv, Sound

LEMMA Step ==
    ASSUME IInv, [Next]_vars
    PROVE  IInv'
<1>1. CASE By(UserContinues)
  BY <1>1, UserQueuesKeeps, DestroyStopsKeeps DEF By, UserContinues
<1>2. CASE By(UserCalls)
  BY <1>2, ConnectKeeps, UserStopKeeps, DisconnectKeeps, DestroyUnconnectedKeeps,
     DestroyConnectedKeeps DEF By, UserCalls
<1>3. CASE By(Loop(LoopSteps))
  BY <1>3, SwapKeeps, RunFunctorKeeps, EndRoundKeeps, RestartKeeps, RestartedKeeps
     DEF By, Loop, LoopSteps
<1>4. CASE By(Loop(Timers))
  BY <1>4, TimerKeeps DEF By, Loop
<1>5. CASE By(Loop(KeeperFires))
  BY <1>5, KeeperKeeps DEF By, Loop
<1>6. CASE By(Loop(Peer))
  BY <1>6, AttemptFailsKeeps, ConnectedKeeps, CloseKeeps DEF By, Loop, Peer
<1>7. CASE UNCHANGED vars
  BY <1>7, Stutters
<1> QED BY <1>1, <1>2, <1>3, <1>4, <1>5, <1>6, <1>7 DEF Next

LEMMA Inductive == Spec => []IInv
<1>1. Init => IInv
  BY Initial
<1>2. IInv /\ [Next]_vars => IInv'
  BY Step
<1> QED BY <1>1, <1>2, PTL DEF Spec

-----------------------------------------------------------------------------
(* Connector.cc:30, 42, 125, TcpClient.cc:138: with connect() called at    *)
(* rest, and the client not destroyed by another thread, no assertion of   *)
(* Connector or TcpClient fails and no callback reaches a client that is   *)
(* gone, for any calls of the users.                                       *)
THEOREM NoAssert == Spec => []NoAssertFails
<1>1. IInv => NoAssertFails
  BY DEF IInv
<1> QED BY <1>1, Inductive, PTL

(* Connector.cc:33-51, 112-119, 200-217: there is never more than one      *)
(* attempt and one for each connect() that was called before all was at    *)
(* rest, also when a retry timer is pending across stop() and connect();   *)
(* and until the connection is lost or given up one there is, as long as   *)
(* it is wanted.                                                           *)
THEOREM OneAttemptAlways == Spec => []OneAttempt
<1>1. IInv => OneAttempt
  <2> SUFFICES ASSUME IInv PROVE OneAttempt
    OBVIOUS
  <2>1. CASE aborted = {}
    BY <2>1, Opens DEF OneAttempt
  <2>2. CASE aborted # {}
    BY <2>2 DEF OneAttempt, AtMostOne, KeepsTrying
  <2> QED BY <2>1, <2>2
<1> QED BY <1>1, Inductive, PTL

(* Connector.cc:70-188: the state is well formed, and every socket is that *)
(* of the channel in the poller, closed, or a connection's.                *)
THEOREM OwnedAlways == Spec => []Owned
<1>1. IInv => Owned
  BY DEF IInv, Owned
<1> QED BY <1>1, Inductive, PTL

(* TcpClient.cc:54-74: when the destructor has run and the timers are over *)
(* the connector has no channel and none of its functors is queued, unless *)
(* the destructor found a connection and a functor queued, or runs in      *)
(* another thread while the client may restart(); the timer of a second    *)
(* outlasts KeeperRounds rounds, two at least.                             *)
THEOREM OutlivesAlways == Spec => []ConnectorOutlives
<1>1. IInv => ConnectorOutlives
  <2> SUFFICES ASSUME IInv, ~dropped, InLoop \/ ~retry_, aborted = {}, client = "gone",
                      keeper = 0
               PROVE  channel_ = None /\ ~ConnectorQueued
    BY DEF ConnectorOutlives
  <2> QED BY Opens DEF LeaveInv, Left
<1> QED BY <1>1, Inductive, PTL

=============================================================================
