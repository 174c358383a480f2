------------------------- MODULE TcpConnectionProofs -------------------------
(***************************************************************************)
(* Theorems about TcpConnection, for any messages of any length, any       *)
(* workers and high-water mark: no unit is lost or reordered, the channel  *)
(* asks for POLLOUT exactly while there is output, the connection goes     *)
(* down once, and the FIN follows the data.                                *)
(***************************************************************************)
EXTENDS TcpConnection, SequenceTheorems, TLAPS

Functor == Raw \cup Shared

(* The inductive invariant.                                                *)

(* Until connectEstablished has run, it is at the head of the loop's queue,*)
(* only the server can have queued more, and nothing else has begun.       *)
BeforeUp ==
    ups = 0 =>
        /\ state_ = "kConnecting" /\ pc = "idle"
        /\ events_ = {} /\ ~registered /\ ~disabled /\ ~finSent
        /\ outputBuffer_ = << >> /\ downs = 0
        /\ pendingFunctors_ # << >> /\ pendingFunctors_[1] = Established
        /\ \A i \in 2 .. Len(pendingFunctors_) : pendingFunctors_[i] = Destroyed
        /\ \A w \in Workers : calls[w] = NoCall
        /\ server \in {"listed", "destroyed"}

(* After it, no second one is queued, and as long as the connection is not *)
(* down the poller watches its channel for input.                          *)
AfterUp ==
    ups # 0 =>
        /\ ups = 1 /\ state_ # "kConnecting"
        /\ \A i \in 1 .. Len(pendingFunctors_) : pendingFunctors_[i] # Established
        /\ ~disabled => registered /\ "read" \in events_

(* The connection goes down with disableAll, once.  After that no input is *)
(* handled, so there is no second handleClose; the server is told only     *)
(* then; and a state_ a racing shutdown() has put back to kDisconnecting   *)
(* is the only way the channel can come to ask for events again.           *)
ClosingInv ==
    /\ downs = (IF disabled THEN 1 ELSE 0)
    /\ disabled => ups = 1 /\ state_ \in {"kDisconnected", "kDisconnecting"}
    /\ "read" \in revents => ~disabled
    /\ server \in {"removing", "removed"} => disabled
    /\ then = "closeCallback" => disabled /\ server \in {"listed", "destroyed"}
    /\ then = "remove" => disabled
    /\ events_ # {} => state_ \in {"kConnected", "kDisconnecting"}

IInv == /\ TypeOK /\ StreamIntact /\ WritesWhenBuffered
        /\ BeforeUp /\ AfterUp /\ ClosingInv

-----------------------------------------------------------------------------
(* Messages as units, functors, and the loop's queue of them.              *)

(* n units of a message are a sequence of length n.                        *)
LEMMA UnitsSeq ==
    ASSUME NEW m \in Messages, NEW n \in Nat
    PROVE  Units(m, n) \in Seq(Messages) /\ Len(Units(m, n)) = n
BY DEF Units

(* What sendInLoop writes and what it buffers make up the message.         *)
LEMMA UnitsSplit ==
    ASSUME NEW m \in Messages, NEW n \in 0 .. MessageLength
    PROVE  Units(m, n) \o Units(m, MessageLength - n) = Units(m, MessageLength)
BY UnitsSeq, MessageAssumption DEF Units

(* connectEstablished and connectDestroyed are told from other functors.   *)
LEMMA FunctorsDiffer ==
    /\ {Established, Destroyed, WriteComplete, HighWater, ShutdownFunctor} \subseteq Functor
    /\ Established \notin {Destroyed, WriteComplete, HighWater, ShutdownFunctor}
    /\ \A m \in Messages : SendFunctor(m) \in Functor /\ SendFunctor(m) # Established
    /\ Destroyed \notin {WriteComplete, HighWater, ShutdownFunctor}
    /\ \A m \in Messages : SendFunctor(m) # Destroyed
BY DEF Functor, Raw, Shared, Established, Destroyed, WriteComplete, HighWater,
       ShutdownFunctor, SendFunctor

(* queueInLoop adds one functor at the end.                                *)
LEMMA QueueAppend ==
    ASSUME NEW q \in Seq(Functor), NEW f \in Functor
    PROVE  /\ Append(q, f) \in Seq(Functor) /\ Append(q, f) # << >>
           /\ Len(q) \in Nat /\ Len(Append(q, f)) = Len(q) + 1
           /\ \A i \in 1 .. Len(q) : Append(q, f)[i] = q[i]
           /\ Append(q, f)[Len(q) + 1] = f
           /\ q # << >> => Len(q) \in Nat \ {0}
BY AppendProperties, EmptySeq, LenProperties

(* A queue without connectEstablished stays so when another is added.      *)
LEMMA StillWithout ==
    ASSUME NEW q \in Seq(Functor), NEW f \in Functor, f # Established,
           \A i \in 1 .. Len(q) : q[i] # Established
    PROVE  \A i \in 1 .. Len(Append(q, f)) : Append(q, f)[i] # Established
<1>1. Len(q) \in Nat /\ Len(Append(q, f)) = Len(q) + 1
  BY QueueAppend
<1>2. \A i \in 1 .. Len(q) : Append(q, f)[i] # Established
  BY QueueAppend
<1>3. Append(q, f)[Len(q) + 1] # Established
  BY QueueAppend
<1> QED
  BY <1>1, <1>2, <1>3

(* The loop takes functors from the head of the queue.                     *)
LEMMA QueueTail ==
    ASSUME NEW q \in Seq(Functor), q # << >>
    PROVE  /\ Tail(q) \in Seq(Functor) /\ Head(q) \in Functor
           /\ Len(Tail(q)) = Len(q) - 1 /\ Len(q) \in Nat \ {0}
           /\ \A i \in 1 .. Len(Tail(q)) : Tail(q)[i] = q[i + 1]
           /\ Head(q) = q[1]
BY HeadTailProperties, EmptySeq

-----------------------------------------------------------------------------
(* newConnection leaves the connection in a state of the invariant.        *)
LEMMA InitIInv == Init => IInv
<1> SUFFICES ASSUME Init PROVE IInv
  OBVIOUS
<1>1. <<Established>> \in Seq(Raw \cup Shared)
  BY DEF Shared
<1>2. TypeOK
  BY <1>1, EmptySeq DEF Init, TypeOK, States, PCs, Calls, Aborts
<1>3. StreamIntact /\ WritesWhenBuffered /\ BeforeUp /\ AfterUp /\ ClosingInv
  BY DEF Init, StreamIntact, WritesWhenBuffered, BeforeUp, AfterUp, ClosingInv, isWriting
<1> QED BY <1>2, <1>3 DEF IInv

(* Concatenation of units is associative.                                  *)
LEMMA Regroup ==
    \A s, t, r \in Seq(Messages) : (s \o t) \o r = s \o (t \o r)
BY ConcatAssociative

(* What handleWrite writes and what it keeps make up the buffer.           *)
LEMMA SplitsAgain ==
    ASSUME NEW s \in Seq(Messages), NEW n \in 1 .. Len(s)
    PROVE  SubSeq(s, 1, n) \o SubSeq(s, n + 1, Len(s)) = s
<1>1. /\ 1 \in 1 .. Len(s) + 1 /\ n \in 1 - 1 .. Len(s) /\ Len(s) \in n .. Len(s)
  BY LenProperties
<1>2. SubSeq(s, 1, n) \o SubSeq(s, n + 1, Len(s)) = SubSeq(s, 1, Len(s))
  BY <1>1, ConcatAdjacentSubSeq
<1> QED
  BY <1>2, SubSeqFull

(* sendInLoop, from a functor or in the loop's thread: the stream and the  *)
(* interest in POLLOUT, whatever part of the message write(2) takes.       *)
LEMMA SendKeeps ==
    ASSUME IInv, ups # 0, NEW m \in Messages, NEW queue \in Seq(Functor),
           sendInLoop(m, queue), UNCHANGED <<state_, registered, disabled>>
    PROVE  /\ StreamIntact' /\ WritesWhenBuffered'
           /\ outputBuffer_' \in Seq(Messages) /\ accepted' \in Seq(Messages)
           /\ wire' \in Seq(Messages)
           /\ events_ \subseteq events_' /\ events_' \subseteq {"read", "write"}
           /\ events_' # {} => state_ \in {"kConnected", "kDisconnecting"}
           /\ peer' \in {"open", "closed", "reset", "dead"}
           /\ pendingFunctors_' \in Seq(Functor)
           /\ (\A i \in 1 .. Len(queue) : queue[i] # Established)
                 => \A i \in 1 .. Len(pendingFunctors_') : pendingFunctors_'[i] # Established
<1>1. peer' \in {"open", "closed", "reset", "dead"}
  BY DEF sendInLoop, Reported, IInv, TypeOK
<1>2. CASE GivesUp /\ pendingFunctors_' = queue /\ UNCHANGED <<events_, stream>>
  BY <1>1, <1>2 DEF IInv, TypeOK, StreamIntact, WritesWhenBuffered, ClosingInv, isWriting, stream
<1>3. ASSUME state_ # "kDisconnected", NEW n \in 0 .. MessageLength, Takes(m, n, queue)
      PROVE  /\ StreamIntact' /\ WritesWhenBuffered'
             /\ outputBuffer_' \in Seq(Messages) /\ accepted' \in Seq(Messages)
             /\ wire' \in Seq(Messages)
             /\ events_ \subseteq events_' /\ events_' \subseteq {"read", "write"}
             /\ events_' # {} => state_ \in {"kConnected", "kDisconnecting"}
             /\ pendingFunctors_' \in Seq(Functor)
             /\ (\A i \in 1 .. Len(queue) : queue[i] # Established)
                   => \A i \in 1 .. Len(pendingFunctors_') : pendingFunctors_'[i] # Established
  <2> DEFINE rest == MessageLength - n
             u == Units(m, n)
             v == Units(m, rest)
  <2>1. n \in Nat /\ rest \in Nat /\ MessageLength \in Nat \ {0}
    BY MessageAssumption
  <2>2. /\ u \in Seq(Messages) /\ Len(u) = n
        /\ v \in Seq(Messages) /\ Len(v) = rest
        /\ Units(m, MessageLength) \in Seq(Messages)
        /\ u \o v = Units(m, MessageLength)
    BY <2>1, UnitsSeq, UnitsSplit
  <2>3. /\ accepted' = accepted \o (u \o v) /\ wire' = wire \o u
        /\ outputBuffer_' = outputBuffer_ \o v
        /\ n > 0 => outputBuffer_ = << >> /\ ~isWriting
    BY <1>3, <2>2 DEF Takes, WritesDirectly
  <2> HIDE DEF u, v
  <2>4. /\ outputBuffer_ \in Seq(Messages) /\ accepted \in Seq(Messages)
        /\ wire \in Seq(Messages) /\ wire \o outputBuffer_ = accepted
    BY DEF IInv, TypeOK, StreamIntact
  <2>5. /\ outputBuffer_' \in Seq(Messages) /\ accepted' \in Seq(Messages)
        /\ wire' \in Seq(Messages)
    BY <2>2, <2>3, <2>4, ConcatProperties
  <2>6. StreamIntact'
    <3>1. CASE n > 0
      <4>1. outputBuffer_' = v /\ accepted = wire
        BY <3>1, <2>2, <2>3, <2>4, ConcatEmptySeq
      <4>2. (wire \o u) \o v = wire \o (u \o v)
        BY <2>2, <2>4, Regroup, ZenonT(60)
      <4> QED
        BY <4>1, <4>2, <2>3 DEF StreamIntact
    <3>2. CASE n = 0
      <4>1. u = << >>
        BY <3>2, <2>2, EmptySeq
      <4>2. wire' = wire /\ u \o v = v
        BY <4>1, <2>2, <2>3, <2>4, ConcatEmptySeq
      <4>3. wire \o (outputBuffer_ \o v) = (wire \o outputBuffer_) \o v
        BY <2>2, <2>4, Regroup, ZenonT(60)
      <4> QED
        BY <4>2, <4>3, <2>3, <2>4 DEF StreamIntact
    <3> QED
      BY <3>1, <3>2, <2>1
  <2>7. /\ events_ \subseteq events_' /\ events_' \subseteq {"read", "write"}
        /\ state_ \in {"kConnected", "kDisconnecting"}
    BY <1>3 DEF Takes, IInv, TypeOK, States, AfterUp
  <2>8. WritesWhenBuffered'
    <3>1. Len(outputBuffer_') = Len(outputBuffer_) + rest /\ Len(outputBuffer_) \in Nat
      BY <2>2, <2>3, <2>4, ConcatProperties, LenProperties, SMTT(60)
    <3>2. CASE rest > 0
      <4>1. outputBuffer_' # << >>
        BY <3>1, <3>2, <2>1, EmptySeq
      <4> QED
        BY <4>1, <3>2, <1>3 DEF Takes, WritesWhenBuffered, isWriting
    <3>3. CASE rest = 0
      <4>1. outputBuffer_' = << >>
        BY <3>1, <3>3, <2>1, <2>3, <2>5, EmptySeq
      <4> QED
        BY <4>1, <3>3, <2>1, <2>3, <1>3 DEF Takes, WritesWhenBuffered, isWriting
    <3> QED
      BY <3>2, <3>3, <2>1
  <2>9. /\ pendingFunctors_' \in Seq(Functor)
        /\ (\A i \in 1 .. Len(queue) : queue[i] # Established)
              => \A i \in 1 .. Len(pendingFunctors_') : pendingFunctors_'[i] # Established
    BY <1>3, QueueAppend, StillWithout, FunctorsDiffer DEF Takes
  <2> QED
    BY <2>5, <2>6, <2>7, <2>8, <2>9
<1> QED
  BY <1>1, <1>2, <1>3 DEF sendInLoop

(* Worker threads, inside send() and shutdown().                           *)
LEMMA WorkerKeeps ==
    ASSUME IInv, NEW w \in Workers, Worker(w)
    PROVE  IInv'
<1>0. /\ pendingFunctors_ \in Seq(Functor) /\ calls[w] \in Calls
      /\ calls[w] # NoCall => ups # 0
      /\ calls \in [Workers -> Calls]
  BY DEF IInv, TypeOK, Functor, BeforeUp
<1>1. ASSUME NEW m \in Messages, SendCheck(w, m)
      PROVE  IInv'
  BY <1>1, <1>0 DEF SendCheck, IInv, TypeOK, StreamIntact, WritesWhenBuffered, BeforeUp,
     AfterUp, ClosingInv, isWriting, Calls, NoCall, channel, stream, loop, callbacks, States
<1>2. CASE SendQueue(w)
  <2>1. calls[w].message \in Messages /\ calls[w] # NoCall
    BY <1>2, <1>0 DEF SendQueue, Calls, NoCall
  <2>2. SendFunctor(calls[w].message) \in Functor /\ SendFunctor(calls[w].message) # Established
    BY <2>1, FunctorsDiffer
  <2> QED
    BY <1>2, <1>0, <2>1, <2>2, QueueAppend DEF SendQueue, queueInLoop, IInv, TypeOK, Functor,
       StreamIntact, WritesWhenBuffered, BeforeUp, AfterUp, ClosingInv, isWriting, Calls,
       channel, stream, loop, callbacks
<1>3. CASE ShutdownCheck(w)
  BY <1>3, <1>0 DEF ShutdownCheck, IInv, TypeOK, StreamIntact, WritesWhenBuffered, BeforeUp,
     AfterUp, ClosingInv, isWriting, Calls, NoCall, channel, stream, loop, callbacks, States
<1>4. CASE ShutdownSet(w)
  BY <1>4, <1>0 DEF ShutdownSet, IInv, TypeOK, StreamIntact, WritesWhenBuffered, BeforeUp,
     AfterUp, ClosingInv, isWriting, Calls, NoCall, channel, stream, loop, callbacks, States
<1>5. CASE ShutdownQueue(w)
  <2>1. calls[w] # NoCall
    BY <1>5 DEF ShutdownQueue, NoCall
  <2> QED
    BY <1>5, <1>0, <2>1, FunctorsDiffer, QueueAppend
       DEF ShutdownQueue, queueInLoop, IInv, TypeOK, Functor,
       StreamIntact, WritesWhenBuffered, BeforeUp, AfterUp, ClosingInv, isWriting, Calls,
       channel, stream, loop, callbacks
<1>6. CASE Drop(w)
  BY <1>6 DEF Drop, IInv, TypeOK, StreamIntact, WritesWhenBuffered, BeforeUp, AfterUp,
     ClosingInv, isWriting, channel, stream, loop, callbacks
<1> QED
  BY <1>1, <1>2, <1>3, <1>4, <1>5, <1>6 DEF Worker

(* A step that only records why the program stops.                         *)
LEMMA AbortKeeps ==
    ASSUME IInv, NEW what \in Aborts, Abort(what)
    PROVE  IInv'
BY DEF Abort, IInv, TypeOK, StreamIntact, WritesWhenBuffered, BeforeUp, AfterUp,
   ClosingInv, isWriting, channel, stream, loop, threads, callbacks

(* What the loop goes on to do after a callback: Channel::remove, the close*)
(* callback.                                                               *)
LEMMA CallbackKeeps ==
    ASSUME IInv, CallbackReturns
    PROVE  IInv'
<1>0. ups # 0 /\ pc = "callback"
  BY DEF CallbackReturns, IInv, BeforeUp
<1> USE DEF IInv, TypeOK, StreamIntact, WritesWhenBuffered, BeforeUp, AfterUp,
        ClosingInv, isWriting, channel, stream, loop, threads, callbacks, PCs
<1>1. CASE /\ then = "none" /\ Continue(revents)
           /\ UNCHANGED <<state_, channel, stream, pendingFunctors_, threads,
                          server, peer, aborted, finSent, disabled, callbacks>>
  BY <1>0, <1>1 DEF Continue
<1>2. CASE then = "remove" /\ remove /\ UNCHANGED pendingFunctors_
  <2>1. CASE events_ # {}
    BY <1>2, <2>1, AbortKeeps DEF remove, Aborts
  <2>2. CASE events_ = {}
    BY <1>0, <1>2, <2>2 DEF remove, Continue
  <2> QED BY <2>1, <2>2
<1>3. CASE then = "closeCallback" /\ closeCallback
  <2>1. CASE server = "destroyed"
    BY <1>3, <2>1, AbortKeeps DEF closeCallback, Aborts
  <2>2. CASE server # "destroyed"
    BY <1>0, <1>3, <2>2 DEF closeCallback, Continue
  <2> QED BY <2>1, <2>2
<1> QED
  BY <1>1, <1>2, <1>3 DEF CallbackReturns

(* Calls from a callback in the loop's thread.                             *)
LEMMA LoopCallKeeps ==
    ASSUME IInv, LoopShutdown \/ \E m \in Messages : LoopSend(m)
    PROVE  IInv'
<1>0. ups # 0
  BY DEF LoopSend, LoopShutdown, IInv, BeforeUp
<1>1. CASE LoopShutdown
  BY <1>0, <1>1 DEF LoopShutdown, shutdownInLoop, IInv, TypeOK, StreamIntact, WritesWhenBuffered,
     BeforeUp, AfterUp, ClosingInv, isWriting, channel, stream, loop, threads, callbacks, States
<1>2. ASSUME NEW m \in Messages, LoopSend(m)
      PROVE  IInv'
  <2>0. pendingFunctors_ \in Seq(Functor)
    BY DEF IInv, TypeOK, Functor
  <2>1. sendInLoop(m, pendingFunctors_) /\ UNCHANGED <<state_, registered, disabled>>
    BY <1>2 DEF LoopSend
  <2>2. AfterUp'
    <3>1. \A i \in 1 .. Len(pendingFunctors_') : pendingFunctors_'[i] # Established
      BY <2>0, <2>1, <1>0, SendKeeps DEF IInv, AfterUp
    <3>2. events_ \subseteq events_'
      BY <2>0, <2>1, <1>0, SendKeeps
    <3> QED
      BY <3>1, <3>2, <1>0, <1>2 DEF LoopSend, IInv, AfterUp, callbacks
  <2>3. TypeOK'
    BY <2>0, <2>1, <1>0, <1>2, SendKeeps DEF LoopSend, IInv, TypeOK, Functor, loop, callbacks
  <2>4. ClosingInv'
    BY <2>0, <2>1, <1>0, <1>2, SendKeeps DEF LoopSend, IInv, ClosingInv, loop, callbacks
  <2>5. BeforeUp'
    BY <1>0, <1>2 DEF LoopSend, callbacks, BeforeUp
  <2> QED
    BY <2>0, <2>1, <2>2, <2>3, <2>4, <2>5, <1>0, SendKeeps DEF IInv
<1> QED
  BY <1>1, <1>2

(* Functors taken from the head of pendingFunctors_.                       *)
LEMMA FunctorKeeps ==
    ASSUME IInv, RunFunctor
    PROVE  IInv'
<1>0. /\ pendingFunctors_ \in Seq(Functor) /\ pendingFunctors_ # << >>
      /\ pc = "idle" /\ then = "none" /\ revents = {}
  BY DEF RunFunctor, connectEstablished, connectDestroyed, RawFunctor, UserFunctor,
         TakesFunctor, IInv, TypeOK, Functor
<1> DEFINE rest == Tail(pendingFunctors_)
<1>1. /\ rest \in Seq(Functor) /\ Head(pendingFunctors_) = pendingFunctors_[1]
      /\ Len(pendingFunctors_) \in Nat \ {0} /\ Len(rest) = Len(pendingFunctors_) - 1
      /\ \A i \in 1 .. Len(rest) : rest[i] = pendingFunctors_[i + 1]
  BY <1>0, QueueTail
<1>2. \A i \in 1 .. Len(rest) : i + 1 \in 2 .. Len(pendingFunctors_)
  BY <1>1
<1>3. ups = 0 <=> Head(pendingFunctors_) = Established
  BY <1>0, <1>1 DEF IInv, BeforeUp, AfterUp
<1>4. \A i \in 1 .. Len(rest) : rest[i] # Established
  <2>1. CASE ups = 0
    BY <2>1, <1>1, <1>2, FunctorsDiffer DEF IInv, BeforeUp
  <2>2. CASE ups # 0
    BY <2>2, <1>1, <1>2 DEF IInv, AfterUp
  <2> QED BY <2>1, <2>2
<1> HIDE DEF rest
<1>5. CASE connectEstablished
  <2>1. ups = 0 /\ pendingFunctors_' = rest
    BY <1>3, <1>5 DEF connectEstablished, TakesFunctor, rest
  <2> QED
    BY <2>1, <1>0, <1>1, <1>4, <1>5
       DEF connectEstablished, Callback, IInv, TypeOK, Functor, StreamIntact,
           WritesWhenBuffered, BeforeUp,
           AfterUp, ClosingInv, isWriting, stream, threads, States, PCs
<1>6. CASE connectDestroyed
  <2>0. ups # 0
    BY <1>3, <1>6, FunctorsDiffer DEF connectDestroyed, TakesFunctor
  <2>1. CASE state_ = "kConnected"
    <3>1. pendingFunctors_' = rest
      BY <1>6, <2>1 DEF connectDestroyed, rest
    <3> QED
      BY <2>0, <3>1, <1>0, <1>1, <1>4, <1>6, <2>1
       DEF connectDestroyed, Down, disableAll, Callback, IInv, TypeOK, Functor, StreamIntact,
           WritesWhenBuffered, BeforeUp, AfterUp, ClosingInv, isWriting, stream, threads,
           States, PCs
  <2>2. CASE state_ # "kConnected" /\ events_ = {}
    <3>1. pendingFunctors_' = rest
      BY <1>6, <2>2 DEF connectDestroyed, rest
    <3> QED
      BY <2>0, <3>1, <1>0, <1>1, <1>4, <1>6, <2>2
       DEF connectDestroyed, remove, Continue, IInv, TypeOK, Functor, StreamIntact,
           WritesWhenBuffered, BeforeUp, AfterUp, ClosingInv, isWriting, stream, threads,
           callbacks, PCs
  <2>3. CASE state_ # "kConnected" /\ events_ # {}
    BY <1>6, <2>3, AbortKeeps DEF connectDestroyed, remove, Aborts
  <2> QED
    BY <2>1, <2>2, <2>3
<1>7. CASE RawFunctor
  <2>1. ASSUME NEW what \in Aborts, Abort(what) PROVE IInv'
    BY <2>1, AbortKeeps
  <2>2. ASSUME NEW m \in Messages, TakesFunctor(SendFunctor(m)),
               sendInLoop(m, Tail(pendingFunctors_)),
               UNCHANGED <<state_, registered, loop, threads, server,
                           aborted, finSent, disabled, callbacks>>
        PROVE  IInv'
    <3>1. sendInLoop(m, rest) /\ UNCHANGED <<state_, registered, disabled>> /\ ups # 0
      BY <2>2, <1>3, FunctorsDiffer DEF rest, TakesFunctor
    <3>2. AfterUp'
      <4>1. \A i \in 1 .. Len(pendingFunctors_') : pendingFunctors_'[i] # Established
        BY <3>1, <1>1, <1>4, SendKeeps
      <4>2. events_ \subseteq events_'
        BY <3>1, <1>1, SendKeeps
      <4> QED
        BY <4>1, <4>2, <2>2, <3>1 DEF IInv, AfterUp, callbacks
    <3>3. TypeOK'
      BY <1>1, <2>2, <3>1, SendKeeps DEF IInv, TypeOK, Functor, loop, threads, callbacks
    <3>4. ClosingInv'
      BY <1>1, <2>2, <3>1, SendKeeps DEF IInv, ClosingInv, loop, callbacks
    <3>5. BeforeUp'
      BY <2>2, <3>1 DEF callbacks, BeforeUp
    <3> QED
      BY <1>1, <3>1, <3>2, <3>3, <3>4, <3>5, SendKeeps DEF IInv
  <2>3. ASSUME TakesFunctor(ShutdownFunctor), shutdownInLoop,
               pendingFunctors_' = Tail(pendingFunctors_),
               UNCHANGED <<state_, channel, stream, loop, threads, server, peer,
                           aborted, disabled, callbacks>>
        PROVE  IInv'
    <3>1. ups # 0 /\ pendingFunctors_' = rest
      BY <2>3, <1>3, FunctorsDiffer DEF rest, TakesFunctor
    <3> QED
      BY <3>1, <1>1, <1>4, <2>3
         DEF shutdownInLoop, IInv, TypeOK, Functor, StreamIntact, WritesWhenBuffered, BeforeUp,
             AfterUp, ClosingInv, isWriting, channel, stream, loop, threads, callbacks
  <2> QED
    BY <1>7, <2>1, <2>2, <2>3 DEF RawFunctor, Aborts
<1>8. CASE UserFunctor
  <2>1. ups # 0 /\ pendingFunctors_' = rest
    BY <1>8, <1>3, FunctorsDiffer DEF UserFunctor, rest, TakesFunctor
  <2> QED
    BY <2>1, <1>0, <1>1, <1>4, <1>8
       DEF UserFunctor, Callback, IInv, TypeOK, Functor, StreamIntact, WritesWhenBuffered, BeforeUp,
           AfterUp, ClosingInv, isWriting, channel, stream, threads, callbacks, PCs
<1> QED
  BY <1>5, <1>6, <1>7, <1>8 DEF RunFunctor

(* Events of the channel.                                                  *)
LEMMA EventKeeps ==
    ASSUME IInv, Poll \/ HandleEvent
    PROVE  IInv'
<1>0. ups # 0
  BY DEF Poll, HandleEvent, IInv, BeforeUp
<1>1. CASE Poll
  BY <1>0, <1>1 DEF Poll, Continue, IInv, TypeOK, StreamIntact, WritesWhenBuffered, BeforeUp,
           AfterUp, ClosingInv, isWriting, channel, stream, threads, callbacks, PCs
<1>2. ASSUME NEW done \in {"error", "read"}, handleError(revents \ {done}), pc = "events"
      PROVE  IInv'
  BY <1>0, <1>2 DEF handleError, Reported, Continue, IInv, TypeOK, StreamIntact, WritesWhenBuffered,
           BeforeUp, AfterUp, ClosingInv, isWriting, channel, stream, threads, callbacks, PCs
<1>3. CASE pc = "events" /\ "read" \in revents /\ handleRead
  <2>1. CASE handleClose(revents \ {"read"})
    BY <1>0, <1>3, <2>1 DEF handleClose, Down, disableAll, Callback, IInv, TypeOK, StreamIntact,
                            WritesWhenBuffered,
           BeforeUp, AfterUp, ClosingInv, isWriting, stream, threads, callbacks, PCs, States
  <2>2. CASE /\ Callback("none", revents \ {"read"})
             /\ UNCHANGED <<state_, channel, stream, pendingFunctors_, threads,
                          server, peer, aborted, finSent, disabled, callbacks>>
    BY <1>0, <1>3, <2>2 DEF Callback, IInv, TypeOK, StreamIntact, WritesWhenBuffered,
           BeforeUp, AfterUp, ClosingInv, isWriting, channel, stream, threads, callbacks, PCs
  <2> QED
    BY <1>2, <1>3, <2>1, <2>2 DEF handleRead
<1>4. CASE pc = "events" /\ revents = {"write"} /\ handleWrite
  <2>1. CASE WriteSome
    <3>1. PICK n \in 1 .. Len(outputBuffer_) :
             LET drained == n = Len(outputBuffer_)
             IN  /\ isWriting
                 /\ wire' = wire \o SubSeq(outputBuffer_, 1, n)
                 /\ outputBuffer_' = SubSeq(outputBuffer_, n + 1, Len(outputBuffer_))
                 /\ events_' = IF drained THEN disableWriting ELSE events_
                 /\ pendingFunctors_' = IF drained THEN Append(pendingFunctors_, WriteComplete)
                                  ELSE pendingFunctors_
                 /\ finSent' = IF drained THEN FinAfterDrain ELSE finSent
                 /\ UNCHANGED <<accepted, peer>>
      BY <2>1 DEF WriteSome
    <3>2. /\ outputBuffer_ \in Seq(Messages) /\ wire \in Seq(Messages)
          /\ accepted \in Seq(Messages) /\ wire \o outputBuffer_ = accepted
          /\ Len(outputBuffer_) \in Nat /\ pendingFunctors_ \in Seq(Functor)
      BY LenProperties DEF IInv, TypeOK, StreamIntact, Functor
    <3> DEFINE u == SubSeq(outputBuffer_, 1, n)
               v == SubSeq(outputBuffer_, n + 1, Len(outputBuffer_))
    <3>3. /\ u \in Seq(Messages) /\ v \in Seq(Messages) /\ Len(v) = Len(outputBuffer_) - n
      BY <3>2, SubSeqProperties
    <3>4. StreamIntact'
      <4>0. u \o v = outputBuffer_
        BY <3>2, SplitsAgain
      <4>1. wire' = wire \o u /\ outputBuffer_' = v /\ accepted' = accepted
        BY <3>1
      <4> HIDE DEF u, v
      <4>2. (wire \o u) \o v = wire \o (u \o v)
        BY <3>2, <3>3, Regroup, ZenonT(60)
      <4> QED
        BY <4>0, <4>1, <4>2, <3>2 DEF StreamIntact
    <3>5. v = << >> <=> n = Len(outputBuffer_)
      <4> HIDE DEF v
      <4>1. v = << >> <=> Len(v) = 0
        BY <3>3, EmptySeq
      <4> QED
        BY <3>2, <3>3, <4>1
    <3>6. wire' \in Seq(Messages) /\ outputBuffer_' \in Seq(Messages)
      BY <3>1, <3>2, <3>3, ConcatProperties
    <3>7. /\ pendingFunctors_' \in Seq(Functor)
          /\ \A i \in 1 .. Len(pendingFunctors_') : pendingFunctors_'[i] # Established
      BY <3>1, <3>2, <1>0, QueueAppend, FunctorsDiffer DEF IInv, AfterUp
    <3>8. finSent' \in BOOLEAN
      BY <3>1 DEF FinAfterDrain, IInv, TypeOK
    <3>9. /\ events_' \subseteq events_ /\ events_ \ {"write"} \subseteq events_'
          /\ "write" \in events_' <=> outputBuffer_' # << >>
      BY <3>1, <3>5 DEF disableWriting, isWriting
    <3> HIDE DEF u, v
    <3> QED
      BY <1>0, <1>4, <3>1, <3>4, <3>6, <3>7, <3>8, <3>9
         DEF handleWrite, Continue, IInv, TypeOK, Functor, WritesWhenBuffered, BeforeUp,
             AfterUp, ClosingInv, isWriting, threads, callbacks, PCs
  <2>2. CASE /\ peer' = IF isWriting THEN Reported ELSE peer
             /\ UNCHANGED <<events_, stream, pendingFunctors_, finSent>>
    BY <1>0, <1>4, <2>2
         DEF handleWrite, Reported, Continue, IInv, TypeOK, StreamIntact, WritesWhenBuffered,
             BeforeUp, AfterUp, ClosingInv, isWriting, stream, threads, callbacks, PCs
  <2> QED
    BY <1>4, <2>1, <2>2 DEF handleWrite
<1> QED
  BY <1>1, <1>2, <1>3, <1>4 DEF HandleEvent

(* The server's loop and the other end.                                    *)
LEMMA OutsideKeeps ==
    ASSUME IInv, removeConnectionInLoop \/ ServerDestroyed \/ PeerLeaves
    PROVE  IInv'
<1>1. CASE PeerLeaves
  BY <1>1 DEF PeerLeaves, IInv, TypeOK, StreamIntact, WritesWhenBuffered, BeforeUp,
     AfterUp, ClosingInv, isWriting, channel, stream, loop, threads, callbacks
<1>2. ASSUME Abort("TcpServer destroyed") PROVE IInv'
  BY <1>2, AbortKeeps DEF Aborts
<1>3. ASSUME server' \in {"removed", "destroyed"}, queueInLoop(Destroyed),
             server \in {"listed", "removing"},
             server' = "removed" <=> server = "removing",
             UNCHANGED <<state_, channel, stream, loop, threads, peer, aborted,
                         finSent, disabled, callbacks>>
      PROVE  IInv'
  <2>1. pendingFunctors_ \in Seq(Functor)
    BY DEF IInv, TypeOK, Functor
  <2>2. /\ pendingFunctors_' \in Seq(Functor)
        /\ ups # 0 => \A i \in 1 .. Len(pendingFunctors_') : pendingFunctors_'[i] # Established
    BY <2>1, <1>3, QueueAppend, StillWithout, FunctorsDiffer DEF queueInLoop, IInv, AfterUp
  <2>3. BeforeUp'
    <3> SUFFICES ASSUME ups' = 0 PROVE BeforeUp'
      BY DEF BeforeUp
    <3>1. ups = 0 /\ server = "listed" /\ server' = "destroyed"
      BY <1>3 DEF callbacks, IInv, BeforeUp
    <3>2. /\ pendingFunctors_' # << >> /\ pendingFunctors_'[1] = Established
          /\ \A i \in 2 .. Len(pendingFunctors_') : pendingFunctors_'[i] = Destroyed
      BY <3>1, <2>1, <1>3, QueueAppend, FunctorsDiffer DEF queueInLoop, IInv, BeforeUp
    <3> QED
      BY <1>3, <3>1, <3>2 DEF IInv, BeforeUp, channel, stream, loop, threads, callbacks
  <2> QED
    BY <1>3, <2>2, <2>3 DEF IInv, TypeOK, Functor, StreamIntact, WritesWhenBuffered,
       AfterUp, ClosingInv, isWriting, channel, stream, loop, threads, callbacks
<1> QED
  BY <1>1, <1>2, <1>3 DEF removeConnectionInLoop, ServerDestroyed

(* Every step keeps the invariant.                                         *)
LEMMA NextIInv == IInv /\ [Next]_vars => IInv'
<1> SUFFICES ASSUME IInv, [Next]_vars PROVE IInv'
  OBVIOUS
<1>1. CASE UNCHANGED vars
  BY <1>1 DEF vars, IInv, TypeOK, StreamIntact, WritesWhenBuffered, BeforeUp,
     AfterUp, ClosingInv, isWriting, channel, stream, loop, threads, callbacks
<1>2. CASE Loop
  BY <1>2, FunctorKeeps, EventKeeps, CallbackKeeps, LoopCallKeeps DEF Loop
<1> QED
  BY <1>1, <1>2, WorkerKeeps, OutsideKeeps DEF Next

-----------------------------------------------------------------------------
(* The invariant holds in every reachable state, whatever the workers, the *)
(* server, the other end and the callbacks do (TcpConnection.cc as a       *)
(* whole).                                                                 *)
THEOREM Inductive == Spec => []IInv
BY InitIInv, NextIInv, PTL DEF Spec

(* The variables of TcpConnection hold values of their types, for any      *)
(* messages and workers.                                                   *)
THEOREM TypeCorrect == Spec => []TypeOK
<1>1. IInv => TypeOK
  BY DEF IInv
<1> QED
  BY <1>1, Inductive, PTL

(* TcpConnection.cc:142-186 and 267-272: the units written and the ones in *)
(* outputBuffer_ are those sendInLoop took over, in order, however write(2)*)
(* splits them.                                                            *)
THEOREM NoUnitLost == Spec => []StreamIntact
<1>1. IInv => StreamIntact
  BY DEF IInv
<1> QED
  BY <1>1, Inductive, PTL

(* TcpConnection.cc:142, 182, 275: a channel the poller watches asks for   *)
(* POLLOUT exactly while there is output.                                  *)
THEOREM AsksWhenBuffered == Spec => []WritesWhenBuffered
<1>1. IInv => WritesWhenBuffered
  BY DEF IInv
<1> QED
  BY <1>1, Inductive, PTL

(* TcpConnection.cc:306, TcpServer.cc:117: a connection is taken down at   *)
(* most once, after it came up, and the server still lists it then, unless *)
(* it has been destroyed.                                                  *)
THEOREM ClosedOnce == Spec => []ClosesOnce
<1>1. IInv => ClosesOnce
  BY DEF IInv, TypeOK, BeforeUp, AfterUp, ClosingInv, ClosesOnce
<1> QED
  BY <1>1, Inductive, PTL

-----------------------------------------------------------------------------
(* The end of the stream.                                                  *)

(* Once the FIN is sent nothing waits in the buffer, while the connection  *)
(* is not closed and the other end has not reset it.                       *)
FinInv == finSent /\ ~disabled /\ peer \in {"open", "closed"} => outputBuffer_ = << >>

(* The FIN is sent by shutdownInLoop or with the last of the output.       *)
LEMMA FinFollows ==
    ASSUME IInv, IInv', Next, finSent # finSent', ~disabled
    PROVE  wire' = accepted' /\ outputBuffer_' = << >>
<1>1. \/ shutdownInLoop /\ UNCHANGED stream /\ LoopShutdown
      \/ shutdownInLoop /\ UNCHANGED stream /\ TakesFunctor(ShutdownFunctor)
      \/ WriteSome /\ pc = "events"
  <2>1. ASSUME NEW w \in Workers, Worker(w) PROVE FALSE
    BY <2>1 DEF Worker, SendCheck, SendQueue, ShutdownCheck, ShutdownSet, ShutdownQueue, Drop
  <2>2. CASE removeConnectionInLoop \/ ServerDestroyed \/ PeerLeaves
    BY <2>2 DEF removeConnectionInLoop, ServerDestroyed, PeerLeaves, Abort
  <2>3. CASE RunFunctor
    BY <2>3 DEF RunFunctor, connectEstablished, connectDestroyed, Down, remove, RawFunctor,
                UserFunctor, Abort
  <2>4. CASE Poll \/ HandleEvent
    BY <2>4 DEF Poll, HandleEvent, handleError, handleRead, handleClose, handleWrite
  <2>5. CASE CallbackReturns
    BY <2>5 DEF CallbackReturns, remove, closeCallback, Abort
  <2>6. CASE LoopShutdown \/ \E m \in Messages : LoopSend(m)
    BY <2>6 DEF LoopShutdown, LoopSend
  <2> QED
    BY <2>1, <2>2, <2>3, <2>4, <2>5, <2>6 DEF Next, Loop
<1>2. outputBuffer_ \in Seq(Messages) /\ wire' \in Seq(Messages)
  BY DEF IInv, TypeOK
<1>3. outputBuffer_' = << >>
  <2>1. CASE WriteSome
    <3>1. PICK n \in 1 .. Len(outputBuffer_) :
             /\ outputBuffer_' = SubSeq(outputBuffer_, n + 1, Len(outputBuffer_))
             /\ n # Len(outputBuffer_) => finSent' = finSent
      BY <2>1 DEF WriteSome
    <3>2. n = Len(outputBuffer_) /\ Len(outputBuffer_) \in Nat
      BY <3>1, <1>2, LenProperties
    <3> QED
      BY <3>1, <3>2, <1>2, SubSeqEmpty
  <2>2. CASE shutdownInLoop /\ UNCHANGED stream
    <3>1. pendingFunctors_ \in Seq(Functor)
      BY DEF IInv, TypeOK, Functor
    <3>2. TakesFunctor(ShutdownFunctor) => pendingFunctors_[1] = ShutdownFunctor
      BY <3>1, QueueTail DEF TakesFunctor
    <3>3. ups # 0 \/ WriteSome
      BY <1>1, <3>2, FunctorsDiffer DEF LoopShutdown, IInv, BeforeUp
    <3>4. WriteSome \/ registered
      BY <3>3 DEF IInv, AfterUp
    <3> QED
      BY <2>1, <2>2, <3>4 DEF shutdownInLoop, IInv, TypeOK, WritesWhenBuffered, stream
  <2> QED
    BY <1>1, <2>1, <2>2
<1> QED
  BY <1>2, <1>3, ConcatEmptySeq DEF IInv, StreamIntact

(* After it, sendInLoop and handleWrite leave the stream as it is.         *)
LEMMA FinEnds ==
    ASSUME IInv, FinInv, Next, finSent, ~disabled, peer \in {"open", "closed"}
    PROVE  UNCHANGED stream
<1>1. /\ ups # 0 /\ registered /\ outputBuffer_ = << >> /\ ~isWriting
      /\ WritesDirectly /\ ~CanWrite
  BY DEF FinInv, IInv, BeforeUp, AfterUp, WritesWhenBuffered, WritesDirectly, CanWrite
<1>2. ASSUME NEW m \in Messages, NEW queue, sendInLoop(m, queue) PROVE UNCHANGED stream
  <2>1. ASSUME NEW n \in 0 .. MessageLength, Takes(m, n, queue) PROVE FALSE
    BY <1>1, <2>1, MessageAssumption DEF Takes
  <2> QED BY <1>2, <2>1 DEF sendInLoop
<1>3. ASSUME NEW w \in Workers, Worker(w) PROVE UNCHANGED stream
  BY <1>3 DEF Worker, SendCheck, SendQueue, ShutdownCheck, ShutdownSet, ShutdownQueue, Drop
<1>4. CASE removeConnectionInLoop \/ ServerDestroyed \/ PeerLeaves
  BY <1>4 DEF removeConnectionInLoop, ServerDestroyed, PeerLeaves, Abort
<1>5. CASE RunFunctor
  BY <1>2, <1>5 DEF RunFunctor, connectEstablished, connectDestroyed, Down, remove, RawFunctor,
              UserFunctor, Abort
<1>6. CASE Poll \/ HandleEvent
  BY <1>1, <1>6 DEF Poll, HandleEvent, handleError, handleRead, handleClose, handleWrite, WriteSome
<1>7. CASE CallbackReturns
  BY <1>7 DEF CallbackReturns, remove, closeCallback, Abort
<1>8. CASE LoopShutdown \/ \E m \in Messages : LoopSend(m)
  BY <1>2, <1>8 DEF LoopShutdown, LoopSend
<1> QED
  BY <1>3, <1>4, <1>5, <1>6, <1>7, <1>8 DEF Next, Loop

(* A closed connection stays closed, a broken one broken.                  *)
LEMMA NoWayBack ==
    ASSUME IInv, Next
    PROVE  /\ disabled => disabled'
           /\ peer' \in {"open", "closed"} => peer \in {"open", "closed"}
<1>1. \A queue : \A m \in Messages : sendInLoop(m, queue) => peer' \in {peer, Reported}
  BY DEF sendInLoop
<1>2. Reported \in {"open", "closed"} => peer \in {"open", "closed"}
  BY DEF Reported
<1>3. ASSUME NEW w \in Workers, Worker(w) PROVE UNCHANGED <<disabled, peer>>
  BY <1>3 DEF Worker, SendCheck, SendQueue, ShutdownCheck, ShutdownSet, ShutdownQueue, Drop
<1>4. CASE removeConnectionInLoop \/ ServerDestroyed \/ PeerLeaves
  <2>1. CASE removeConnectionInLoop
    BY <2>1 DEF removeConnectionInLoop
  <2>2. CASE ServerDestroyed
    <3>1. disabled' = disabled
      BY <2>2 DEF ServerDestroyed, Abort
    <3>2. peer' = peer
      BY <2>2 DEF ServerDestroyed, Abort
    <3> QED BY <3>1, <3>2
  <2>3. CASE PeerLeaves
    BY <2>3 DEF PeerLeaves
  <2> QED BY <1>4, <2>1, <2>2, <2>3
<1>5. CASE RunFunctor
  <2>1. CASE connectEstablished \/ UserFunctor
    BY <2>1 DEF connectEstablished, UserFunctor
  <2>2. CASE connectDestroyed
    <3>1. disabled' = TRUE \/ disabled' = disabled
      BY <2>2 DEF connectDestroyed, Down, disableAll, remove, Abort
    <3>2. peer' = peer
      BY <2>2 DEF connectDestroyed, remove, Abort
    <3> QED BY <3>1, <3>2
  <2>3. CASE RawFunctor
    <3>1. disabled' = disabled
      BY <2>3 DEF RawFunctor, Abort
    <3>2. peer' \in {peer, Reported}
      BY <1>1, <2>3 DEF RawFunctor, Abort
    <3> QED BY <1>2, <3>1, <3>2
  <2> QED BY <1>5, <2>1, <2>2, <2>3 DEF RunFunctor
<1>6. CASE Poll \/ HandleEvent
  <2>1. CASE Poll
    BY <2>1 DEF Poll
  <2>2. ASSUME NEW rest, handleError(rest) PROVE disabled' = disabled /\ peer' = Reported
    BY <2>2 DEF handleError
  <2>3. ASSUME NEW rest, handleClose(rest) PROVE disabled' = TRUE /\ peer' = peer
    BY <2>3 DEF handleClose, Down, disableAll
  <2>4. ASSUME handleRead
        PROVE  disabled' \in {disabled, TRUE} /\ peer' \in {peer, Reported}
    BY <2>2, <2>3, <2>4 DEF handleRead
  <2>5. ASSUME handleWrite
        PROVE  disabled' = disabled /\ peer' \in {peer, Reported}
    BY <2>5 DEF handleWrite, WriteSome
  <2>6. CASE HandleEvent
    <3>1. disabled' \in {disabled, TRUE} /\ peer' \in {peer, Reported}
      BY <2>2, <2>4, <2>5, <2>6 DEF HandleEvent
    <3>2. disabled => disabled'
      BY <3>1
    <3>3. peer' \in {peer, Reported}
      BY <3>1
    <3> QED BY <1>2, <3>2, <3>3
  <2> QED BY <1>6, <2>1, <2>6
<1>7. CASE CallbackReturns
  BY <1>7 DEF CallbackReturns, remove, closeCallback, Abort
<1>8. CASE LoopShutdown \/ \E m \in Messages : LoopSend(m)
  BY <1>1, <1>2, <1>8 DEF LoopShutdown, LoopSend
<1> QED
  BY <1>3, <1>4, <1>5, <1>6, <1>7, <1>8 DEF Next, Loop

(* Every step keeps FinInv.                                                *)
LEMMA NextFinInv == IInv /\ IInv' /\ FinInv /\ [Next]_vars => FinInv'
<1> SUFFICES ASSUME IInv, IInv', FinInv, [Next]_vars, finSent', ~disabled',
                    peer' \in {"open", "closed"}
             PROVE  outputBuffer_' = << >>
  BY DEF FinInv
<1>1. CASE UNCHANGED vars
  BY <1>1 DEF vars, stream, FinInv
<1>2. CASE Next /\ finSent
  <2>1. ~disabled /\ peer \in {"open", "closed"}
    BY <1>2, NoWayBack
  <2> QED
    BY <1>2, <2>1, FinEnds DEF FinInv, stream
<1>3. CASE Next /\ ~finSent
  BY <1>3, NoWayBack, FinFollows
<1> QED
  BY <1>1, <1>2, <1>3

(* TcpConnection.cc:142-176, 201, 280: until the connection is closed, the *)
(* FIN is sent only when every unit taken over has been written; and after *)
(* it, while the other end is there, no unit is taken over, written or     *)
(* buffered.  That write(2) fails after shutdown(2) is the kernel's part.  *)
THEOREM FinEndsStream == Spec => FinAfterData
<1>1. Init => FinInv
  BY DEF Init, FinInv
<1>2. Spec => []FinInv
  BY <1>1, NextFinInv, Inductive, PTL DEF Spec
<1>3. IInv /\ IInv' /\ FinInv /\ [Next]_vars
        => [~disabled /\ finSent' =>
              /\ ~finSent => wire' = accepted'
              /\ finSent /\ peer \in {"open", "closed"} => UNCHANGED stream]_vars
  BY FinFollows, FinEnds
<1> QED
  BY <1>2, <1>3, Inductive, PTL DEF Spec, FinAfterData

=============================================================================
