# A TLA+ development of xmuduo

xmuduo is a port of the muduo network library: one event loop per thread, with
everything that concerns a socket done in the thread of its loop, and other
threads handing the loop functors. This directory models the library, checks
the models with TLC and proves the most important of their properties with
TLAPS. Line numbers are those of `src/muduo/`.

## Inventory

| Component | State | Operations | What is hard | What makes it correct |
|---|---|---|---|---|
| **EventLoop** (`net/EventLoop`) | `looping_`, `quit_`, `callingPendingFunctors_`, `pendingFunctors_` behind `mutex_`, `activeChannels_`, the eventfd | `loop`, `quit`, `runInLoop`, `queueInLoop`, `wakeup`, `doPendingFunctors` | threads hand over functors between any two steps of the loop; the test for `wakeup()` is outside the lock; the flag is uninitialised | no wakeup is lost; functors run once and in order; `quit()` ends the loop |
| **Channel, PollPoller** (`net/Channel`, `net/poller`) | per channel `events_`, `index_`; `pollfds_`, `channels_` | enable, disable, `remove`, `poll` | handlers change the tables that are being dispatched from; removal swaps entries; descriptors are reused | the three tables agree; no event after removal; other channels are left alone |
| **TimerQueue** (`net/TimerQueue`, `Timer`, `TimerId`) | `timers_`, `activeTimers_`, `cancelingTimers_`, a timerfd | `addTimer`, `cancel`, `handleRead`, `reset` | additions and cancellations from any thread and from callbacks of the batch being run; addresses are reused | the sets agree; each Timer has one owner; the alarm is set; cancelled timers stay out |
| **TcpConnection** (`net/TcpConnection`) | `state_`, `outputBuffer_`, its channel | `send`, `shutdown`, `connectEstablished`, `connectDestroyed`, the handlers | `state_` is tested and set by all threads without a lock; functors with the bare `this`; partial writes; resets | the stream is intact; FIN follows the data; it closes once; it goes away |
| **TcpServer** (`net/TcpServer`) | `connections_`, `started_` | `start`, `newConnection`, `removeConnection`, destructor | removal crosses two loops; connections outlive the server | each connection is removed exactly once |
| **Acceptor** | `listenning_`, `idleFd_` | `listen`, `handleRead` | destruction without `listen()`; descriptors run out | the reserve descriptor is never lost |
| **EventLoopThread, EventLoopThreadPool** | `loop_` behind `mutex_` | `startLoop`, `threadFunc`, `getNextLoop`, destructors | `loop_` is published by one thread and outlived by the object | a started loop is found, and quit, by its owner |
| **Connector, TcpClient** | `state_`, `connect_`, `channel_`, retry delay; `connection_` | `start`, `stop`, `restart`, `retry`, `connect`, `disconnect` | stops racing retry timers and a connection in progress | at most one connection attempt; `stop` stops |
| **Buffer** | `readerIndex_`, `writerIndex_` | append, prepend, retrieve, `readFd` | index arithmetic, growth by moving | it is a sequence of bytes |
| **ThreadPool**, **BlockingQueue**, **BoundedBlockingQueue**, **CountDownLatch** | a deque and conditions | `run`, `put`, `take`, `stop`, `wait` | lost notifications, stopping with waiters | nothing lost, nobody waits for ever |
| **LogFile** | counters and times | `append`, `rollFile`, `flush` | rolling within a second; the time is looked at only now and then; partial writes | size and period of a file, lines flushed in time |
| **Logging, LogStream** | a fixed buffer; per thread a cached time and id | `<<`, `finish`, output | three tests for room; caches that outlive a second or a fork; abort after FATAL | nothing behind the buffer; records true; FATAL flushed |
| **HTTP server**, **Inspector** | parser state; command tables | `parseRequest`, `onRequest`, `add` | requests in pieces, several at a time, after a shutdown; tables read unlocked | requests and answers follow the stream; what is listed can be called |
| Sockets, addresses, time, files, process information, singletons | - | conversions and wrappers | - | - |

Interactions. `TcpServer` and `TcpClient` create `TcpConnection`s and hand them
to an I/O loop with `runInLoop`; a connection calls back user code and, when it
closes, its server, which erases it and queues `connectDestroyed` in the I/O
loop. Channels register with the poller through their loop; `TimerQueue` and the
eventfd are channels too. Every crossing between threads is a functor in
`pendingFunctors_`.

## Modules

| Module | What it is |
|---|---|
| `TaskExecutor` | abstract: what a loop promises those who hand it functors |
| `EventLoop` | the loop, its callers and its user code; implements `TaskExecutor` |
| `EventLoopProofs` | TLAPS proofs about `EventLoop` |
| `PollPoller` | the poller's tables, the channels, and dispatch |
| `PollPollerProofs` | TLAPS proofs about `PollPoller` |
| `TimerQueue` | the timers of a loop, with time and memory |
| `TimerQueueProofs` | TLAPS proofs about `TimerQueue` |
| `TcpConnection` | a connection with its I/O loop, worker threads, server and peer |
| `TcpConnectionProofs` | TLAPS proofs about `TcpConnection` |
| `ConnectionLife` | abstract: what a connection's user sees of it |
| `TcpServer` | the server, its pool and its loops; implements `ConnectionLife` |
| `TcpServerProofs` | TLAPS proofs about `TcpServer` and `Acceptor` |
| `Acceptor` | the acceptor and the process's table of descriptors |
| `Connector` | the connector's handlers, functors and timers |
| `TcpClient` | the client and its connections, extends `Connector` |
| `ClientProofs` | TLAPS proofs about `TcpClient` and `Connector` |
| `EventLoopThread` | a loop's thread, its owner and those who use the loop |
| `Monitor` | `MutexLock` and `Condition`, for the four modules below |
| `FifoQueue` | abstract: a first-in first-out queue with a capacity or without |
| `BlockingQueue`, `BoundedBlockingQueue` | the queues with producers and consumers; implement `FifoQueue` |
| `CountDownLatch`, `ThreadPool` | the latch and the pool with their threads |
| `QueueProofs` | TLAPS proofs about the five classes of `MCThreads` |
| `ByteStream` | abstract: a sequence of bytes with numbers and lines |
| `Buffer` | the indices and the vector; implements `ByteStream` |
| `BufferProofs` | TLAPS proofs about `Buffer`, and about `HttpServer` and `Inspector` as `MCHttp` has them |
| `LogStream`, `Logging`, `LogFile` | the buffer of a record; the record; the file |
| `HttpServer`, `Inspector` | one connection's parser; the command tables and their requests |
| `MC*` | instances for TLC |

Actions have the names of the functions they translate; variables those of the
members, with their trailing underscore. Variables without one (`pc`, `call`,
`revents`, `then`) say where a thread is, or are history (`ran`, `origin`,
`accepted`, `wire`) marked so at their declaration. Operators whose names end in
`Bug` are the definition below them with one mistake put in: nothing uses them,
and each property is violated when one of them takes that definition's place.

Several small classes are checked in one run by a module (`MCTcpServer`,
`MCThreads`, `MCBytes`, `MCHttp`) with a variable `subject` (`served` in
`MCHttp`, whose parameters are constants with their values in `Http.cfg`): it is
chosen in the initial state and never changes, only the subject's own module
takes steps, and its state space is what it would be alone. The module restates
the fairness, and its properties conjoin, subject by subject, the properties
stated in the parts' own modules: `ServerSafe` and `NobodyLeftBehind` those of
`TcpServer`, `DescriptorsKept` those of `Acceptor`; `NoLostNotification`,
`GoesOnWhenDue`, `QueuesAreFifo` and `NobodyWaitsForEver` those of the queues,
the latch, the pool and the loop's thread; `LogsExact` those of the three
logging modules; `FollowsStream` those of `HttpServer`; `ServesListed` those of
`Inspector`; and `AnswersExactly` the action and temporal ones of both. A
violation is traced to its part by the subject.

**EventLoop.** `pc` walks through `loop()` and `doPendingFunctors()`; `call[t]`
is `"wakeup"` between a thread's push_back (or `quit_ = true`) and its write to
the eventfd. A worker may do anything at any time; the loop's thread calls
whenever `pc` is in user code: before `loop()`, in a handler, in a functor. A
functor queued before `loop()` causes no wakeup (EventLoop.cc:143), which is why
`SleepsOnlyIfIdle` excepts those. Of the two parts of `FunctorsRun`,
`RunsEventually` has the timeout of `poll(2)` as its hypothesis and
`RunsPromptly`, about the other functors, has not.
`callingPendingFunctors_` starts with either value, since the constructor leaves
it out.

**PollPoller.** `enable`, `disable`, `disableAll` and `remove` may be called
whenever user code runs, for the channel being handled or any other; the two
assertions that can fail stop the program (`aborted`). `poll` reports any set of
entries that are not ignored, since POLLHUP and POLLERR come unasked.

**TimerQueue.** Times are relative to the present, so that time passes for ever
in a finite state space. `heap` maps addresses to Timers; `ReturnTimerId` reads
the Timer again after it was queued, as TimerQueue.cc:108 does, and gets any
sequence number if it has been deleted meanwhile. `SetBack` and `SetForward` set
the clock that expirations are compared with against that of the timerfd: set
back, the timerfd expires before any timer is due; set forward, it is late, and
`ahead` remembers by how much until it is armed again.

**TcpConnection.** A worker's `send` is `SendCheck` then `SendQueue`, its
`shutdown` is `ShutdownCheck`, `ShutdownSet`, `ShutdownQueue`: the loop runs in
between. The loop is `idle`, has `events` to hand out, or is in a user
`callback`, after which it goes on as `then` says. A functor with the bare `this`
may run when no shared pointer is left (`Alive`); that, and the assertions that
can fail, end the behaviour (`aborted`). `wire` is what was written, `accepted`
what `sendInLoop` took over. After `disableAll` the channel is never polled
again even if it asks for events: that is the finding on `PollPoller`, composed
in by the guard of `Poll`.

**TcpServer, Acceptor.** A handler or functor is one step, since it touches
nothing of another thread but one queue. The destructor, which any callback of
the base loop may call, queues one `connectDestroyed` at a time and then quits
and joins one thread at a time. `Acceptor` has the four system calls of
Acceptor.cc:60-67 as four steps; another thread opens and closes descriptors
between them.

**Connector, TcpClient.** The user is one of `Users`: the calls it makes, from a
functor or from another thread, with `enableRetry()` or not; nothing follows
"destroy". A call from another thread is two steps, the write of `connect_` and
the queueing. `removeConnection()` is three: its tests of `retry_` and
`connect_`; `restart()` up to its call of `startInLoop()`; and that, which tests
the connector's `connect_` again. Retry timers are counted. A round of the loop
is taken to be shorter than `kInitRetryDelayMs` (500 ms), so a `young` timer, set
since the loop last slept or took over the queued functors, does not fire; and
the timer of `~TcpClient` lasts at least `KeeperRounds` rounds in which the loop
does not sleep, two or more of them to a second. A new attempt takes a `Fresh`
socket. `early` counts the calls of `connect()` made before all was at rest, and
`dropped` says that `~TcpClient` let go of the connector while functors with its
bare `this` were queued. An assertion that fails ends the program.

**EventLoopThread.** The EventLoop is an `object` on its thread's stack: unborn,
there, or gone. `late` records every use of it when it is not there.

**Monitor and the classes on it.** `wait` puts a thread into `waiters`, `notify`
moves some thread and `notifyAll` every thread to `woken`, and `Reacquire`
brings it back inside; any waiting thread may wake up unasked. A thread's `pc`
is "test" inside the loop around `wait()`, "leave" before the unlock.

**Buffer, LogStream, Logging, LogFile.** A Buffer is a record of its members and
each public function an action; `ExtraBuf` is the size of the second buffer of
`readFd`. `LogStream` and `Logging` share the comparison of
`FixedBuffer::append`; the former has the characters, the latter only lengths.
`LogFile` has one call at a time, as its mutex has, with `fwrite` in parts and
the clock advancing inside of it, never back.

**HttpServer, Inspector.** A line is a request line, a header or the blank line;
a message brings any number of complete lines. The reset of the request leaves
`version_` as the code's `swap()` does. In `Inspector` a lookup that meets an
insertion (`raced`) finds anything.

## Runs

| Run | Instance | Result |
|---|---|---|
| `EventLoop` | 3 functors, 2 workers, 1 channel | no lost wakeup, at most once, implements `TaskExecutor`; functors run and `quit()` ends the loop without timeout or I/O |
| `PollPoller_safety` | 4 channels, 3 descriptors | tables agree, no event after removal, others undisturbed |
| `PollPoller_reenable` | same | **violated**: a channel disabled and enabled again is not watched |
| `TimerQueue` | 2 Timers at 2 addresses, delays 0 and 2, intervals 0 and 1, 1 worker, clock set once, back or forward | sets, ownership, alarm, cancellation; timers fire |
| `TcpConnection` | 2 messages of 2 units, 2 workers, one of which shuts down, server may stop | stream, POLLOUT, FIN, closing once; shutdown completes, a dead peer's connection is removed |
| `TcpConnection_drop` | 1 message, 1 worker | **violated**: `sendInLoop` on a destroyed connection |
| `TcpServer` | 2 connections over pools of 2, 1 and 0 threads; an Acceptor with 2 descriptors | connections live as `ConnectionLife` says, in their loops, evenly dealt out; the destructor returns; no descriptor is lost, no client left waiting |
| `TcpClient` | 3 sockets, 22 users with one or two `connect()`s and one connection or more | only a `connect()` adds an attempt, what is wanted goes on, sockets are owned, the connector outlives its functors, `stop()` stops |
| `TcpClient_stop` | `enableRetry()`, `stop()` from another thread | **violated**: a `stop()` inside `removeConnection()` is undone by `restart()` |
| `Threads` | 2 threads on either side: a bounded queue of 2 with 4 items, a queue with 3, a latch of 2 counted down up to 4 times, a pool with 3 tasks, a loop's thread with 2 functors | no lost notification, both queues implement `FifoQueue`, nobody waits for ever, tasks run once, the loop handed out is there and ends |
| `Bytes` | a Buffer of 2 + 2 bytes with contents of up to 4; all ten-bit integers; a LogStream of 13 bytes; two logging threads with one fork; a LogFile over six seconds with periods of four | bytes, numbers and lines are what was put in; nothing is written behind a buffer; records are true and FATAL ones flushed; files roll and flush in time |
| `Http` | 5 lines out of 7 in messages of up to 3; paths of up to 4 characters with three threads | requests and answers follow the stream; commands are listed and called as registered |

Bounds. Three functors are one being run, one in the batch and one queued behind
it; two workers are one that has written the eventfd and one about to. Four
channels put a removed entry at the front, in the middle and at the end of
`pollfds_`, and one descriptor has two owners in turn, one of them descriptor 0.
Two Timers can meet in a batch, replace each other at an address, and cancel
each other; a delay of 2 and an interval of 1 put them before and after one
another and let a batch last longer than an interval; `MaxPending` (2) bounds
queued cancellations, and `MaxSequence` the Timers created. Messages of two
units are written whole, in part and not at all, and the high-water mark of 3 is
crossed by the second. Two connections over two loops go round once, over one
loop they share it, and without a pool the base loop runs them on the spot.
Three sockets are a first attempt, a retry and a retry that finds the first
one's remains; the delay saturates at the third. Two calls of `connect()` with a
`stop()` between them let the second meet the first one's retry timer, channel
or queued `stopInLoop`; two rounds of the keeper are the fewest that
`ClientAssumption` allows. Two consumers and two producers are enough for a
notification to go to the wrong one of its side, a capacity of 2 for the buffer
to be partly filled, and the items `s1`, `s2` end the consumers, so that
`NobodyWaitsForEver` also says that no consumer is left. Five lines are two
whole requests, one with a header, or one and a bad line. A Buffer with contents
of up to 4 in an initial room of 2 moves, grows and shrinks, and `readFd` ends
in either part.

`CHECK_DEADLOCK FALSE` is set where the program really stops: `PollPoller`,
`TcpConnection` and `TcpClient` end at a failed assertion or a use of freed memory or when
all is done, and the runs with a `subject` when its threads have ended or its
inputs are used up.

Fairness. `EventLoop`: a thread with a step of its own is scheduled and user
code returns; I/O is never assumed, the timeout only as `RunsEventually`'s
hypothesis. `TimerQueue`: time passes, callbacks return, every round of the loop
both dispatches and runs functors, and the clock is set only finitely often.
`TcpConnection`: a thread inside a call goes on, callbacks return, and since
each round of the loop polls and then runs all functors, neither is put off for
ever although the other is always possible (strong fairness); that output
becomes writable again and again is an assumption about the peer, without which
no shutdown could be promised. `TcpServer`, `EventLoopThread`: each thread is
scheduled (weak). The queues, the latch and the pool's workers: strong, since a
mutex is free again and again but not for ever; this assumes that the mutex does
not starve a thread. `TcpClient`: the loop goes round and a call once begun
continues; timers fire although the loop is busy in between (strong), since
every round looks at the timerfd. `HttpServer`, `Inspector`: steps of the loop's
thread, weak. Clients, peers, users and clocks are never forced, except as said.

## Proofs

`EventLoopProofs` proves for any sets of functors, workers and channels (with
`LoopAssumption`: the loop's thread is not a worker):

* `TypeCorrect`, the type invariant, which no run lists: it is part of `IInv`;
* `Inductive`: `IInv` is inductive. It adds to `TypeOK` what the other results
  rest on: `functors` is empty outside a batch, and the flag is set from before
  the swap until the batch has run (`BatchInv`); every functor in one of the two
  vectors or in `ran` has been handed over by someone (`OriginInv`), so a new
  one is in none of them; while the loop may reach `poll` without another swap
  and no wakeup is readable or owed, every functor in `pendingFunctors_` came
  from the owner outside the loop (`WakeupInv`); and a `quit()` made while the
  loop is in `poll` has its wakeup readable or owed (`QuitInv`).
  `SleepsOnlyIfIdle` alone is not inductive: it says nothing of the states in
  which the loop is on its way to `poll`, where a wakeup would be lost;
* `NoLostWakeup` follows from `IInv`;
* `Refinement`: under the mapping `queue <- functors \o pendingFunctors_` the
  swap is a stutter, a `RunFunctor` is the head's run, a `queueInLoop` appends,
  and the rest stutter. `OriginInv` gives the guard of the abstract submission,
  that the functor is new;
* `AtMostOnce` is proved of `TaskExecutor`'s steps, which move functors from the
  queue to `ran` and add only new ones, and carried over by `Refinement`.

`PollPollerProofs`, for any channels and any descriptors (`FdAssumption`: there
is a channel, and descriptors are naturals, as the loop's eventfd and `socket(2)`
have it):

* `TablesAgree`: the typing of the tables together with `PollerConsistent` is
  inductive. The lemmas say that entries of different descriptors are at
  different places (`PlacesDiffer`), and that adding, changing and dropping an
  entry keep the tables in step; the last one is the swap with the final entry;
* `NeighboursKept`: `OthersUndisturbed`, from what the same three lemmas say of
  the entries that are not meant;
* `NoStaleEvents`: `NoEventAfterRemove`. It is inductive only with what dispatch
  knows: what is left of the active list is registered, and no channel is listed
  twice (`DispatchInv`), since the assertion in `EventLoop::removeChannel` lets a
  handler remove no channel but its own that is still to be handled.

`TimerQueueProofs`, for any addresses, workers, naturals as delays and intervals,
and any bounds (`TimeAssumption`). `IInv` joins `TypeOK`, `SetsAgree` and
`OneOwner` with: sequence numbers of allocated Timers differ and none is ahead of
`s_numCreated_` (`SequenceInv`), so a `TimerId` names no later Timer at the same
address; no Timer is queued twice (`QueueInv`); the batch is empty outside
`handleRead` (`BatchInv`); a Timer that was cancelled and still exists is in the
batch and in `cancelingTimers_` (`CancelInv`); expirations and the lag of the
clock are bounded (`TimeInv`, for the types); and the timerfd is due no later
than each entry, or later by what the clock was set forward since it was armed
(`AlarmInv`). `SetsStayEqual`, `NoLeakNoDangling`, `CancelHolds`
and `AlarmAlwaysSet` follow. That `Min` and `Max` of the times exist is proved
from the library's well-founded induction on the naturals.

`TcpConnectionProofs`, for any messages, workers, positive length and high-water
mark (`MessageAssumption`; the workers that may shut down are workers). `IInv`
joins `TypeOK`, `StreamIntact` and `WritesWhenBuffered` with the phases of a
connection: until `connectEstablished` has run nothing has begun and it is at
the head of the queue (`BeforeUp`); later it is queued no more and the channel
is watched for input until `disableAll` (`AfterUp`); and the connection is down
exactly if the channel was disabled (`ClosingInv`). `ClosesOnce` alone is not
inductive: what forbids a second `handleClose` is that a disabled channel hands
out no input though a racing `shutdown()` may have set `state_` back.
`FinEndsStream` is `FinAfterData`, an action property: until the connection is
closed the FIN goes out only when all that was taken over is written, and after
it, as long as the other end is there, nothing is taken over, written or
buffered. `FinInv` adds that a step after the FIN finds the buffer empty. That
`write(2)` fails after `shutdown(2)` is the kernel's part, an assumption of the
model (`CanWrite`); what is proved of the code is that a `sendInLoop` queued
before the shutdown then buffers nothing.

`TcpServerProofs`, for every pool of distinct loops other than the base loop and
any finite set of connections (`ServerAssumption`). `NoAssertFails` depends on
the order of functors in the loops' queues, so `IInv` speaks of their positions
in what a loop has yet to run: `connectEstablished` is queued, in the
connection's loop, exactly while it is connecting (`EstablishedInv`);
`connectDestroyed` stands behind it and only when the map has let go of the
connection (`DestroyedInv`); `removeConnectionInLoop` is queued in the base loop
while it is in the map (`RemoveInv`); each stands there once (`UniqueInv`).
`LifeInv` and `LoopsInv` tie these to the states, the map and the destructor.
`Safe` is `ServerSafe`, with the round robin from `BalanceInv` (`Dealing`);
`Implements` maps every step to `ConnectionLife`.

For the acceptor, with any clients and any positive limit of descriptors
(`LimitAssumption`), the invariant says where the reserve is between the four
system calls (`IdleInv`), that exactly the clients handed over have descriptors
(`HandedInv`), and that the descriptor given up can be had again unless another
thread took it (`SpareInv`). `KeepsDescriptors` is the run's `DescriptorsKept`.

`ClientProofs`, for any finite set of sockets, any delays, any sequences of calls
that end with the destruction if they have one, and any `KeeperRounds` of two or
more (`DelayAssumption`, `ClientAssumption`). No discipline of the users is
assumed; the properties say what each lack of it costs:

* `NoAssert` speaks of users with `early = 0`, that is, of those that call
  `connect()` only when nothing is left of what came before, and excepts a
  client that another thread has destroyed;
* `OneAttemptAlways` is for all, until an assertion fails: there are at most
  `1 + early` attempts, where a start on its way, a retry timer, a channel in the
  poller, a connection that is up and a `restart()` under way count as one each,
  so that no `stop()`, `restart()`, timer or handler adds one; and while the
  connector's `connect_` is true one is there, unless `connect(2)` failed for
  good (`gaveUp`) or the connection is over and the client does not make it
  again (`Lost`);
* `OwnedAlways` is the type invariant and `SocketsOwned`;
* `OutlivesAlways` is `ConnectorOutlives`: a connector whose last owner lets go
  has no channel and none of its functors queued. It excepts `dropped`, and a
  client with `enableRetry()` that another thread destroys.

`IInv` is `TypeOK`, `SocketsOwned`, `NoAssertFails` and, until an assertion fails,
`Sound`: the channel is there from `connecting()` until the one `resetChannel`
(`ChannelInv`); functors run in their phase (`LoopInv`); a connection that is up
or is being made again is the only one, and the channel is reset before it can be
lost (`UpInv`); with `early = 0` a start or a timer finds the connector
disconnected and reset (`StartInv`); what the destructor leaves (`ClientInv`); how
many rounds of the keeper the functors still need (`LeaveInv`). `AtMostOne` alone
is not inductive: it does not tell which functors are outstanding, and a
`stopInLoop` or a timer that met another attempt's channel would make two of one.

`BufferProofs`, for any bytes, contents, widths and sizes (`BufferAssumption`).
Each public function has a lemma about its result on a valid buffer; `Safe` is
`BufferSafe`, whose inductive form adds that the vector is never shorter than the
prependable part, where `retrieveAll` puts the indices, and bounds the contents.
`KeepsStream` says that every function does to `Contents` what `ByteStream` says.
The integer that `readInt` returns is left out there, see below.

`QueueProofs`, for any finite groups of threads, items, capacity, count, tasks and
calls (`ThreadsAssumption`: no thread is on both sides, as in the tests, the
owner is on neither, and the count and the bounds are naturals). `IInv` says of
each monitor that who waits is not also on its way, and what is inside it
(`Monitored`); of the subject what follows; and of the others that they rest in
their initial state (`Resting`), since the properties are about all of them.

* The `NoSleeping` invariants of both queues are inductive only together with the
  shape of the waiting (`WaitInv`: consumers wait at `notEmpty_`, producers at
  `notFull_`), so that a `notify()` adds one thread to those on their way, and a
  `put()` or `take()` takes one away. `NoneLost` is `NoLostNotification`. What a
  `put()` carries is new (`ArgInv`), and with it each call is one step of
  `FifoQueue` (`FirstInFirstOut`). `Blocking`'s capacity is the number of items,
  which it never exceeds because no item is put twice.
* `InDueTime` is `GoesOnWhenDue`: a thread past the latch's loop found the count
  down, and it never goes up (`LatchInv`); the pool's queue stays empty and each
  task is before its `run()`, in it or done (`PoolInv`); and the loop's object
  lives from before `startLoop()` returns until its thread has left `loop()`,
  after which only the wakeup that follows `quit_ = true` may come
  (`LoopInv`).
* `QueueInvariant`, `NoLostWakeup` and `Queue` say the same of the bounded queue
  alone, without the run's subject.

Two more parts of `BufferProofs` are about who reads an input buffer.

* `StreamFollowed` is `FollowsStream`, for any lines and any bounds on what
  the client sends. None of its parts is inductive: where a handled request
  begins is where the one before ended, and nothing in them speaks of the request
  that is being parsed. `ServerInv` adds where that one began, and that the value
  of its Connection header is the last one among the lines read since
  (`RequestInv`); that what has been handled lies in the lines retrieved
  (`HandledInv`); and that up to the shutdown there is an answer to each request
  handled (`WireInv`). For a client that waits, the blank lines are counted: as
  many as requests handled, and one more while a whole request is in the buffer
  or just parsed (`WaitInv`).
* `ListedServed` is `ServesListed`, for any threads, commands, order of the keys
  and paths (`InspectorAssumption`: the threads are not the loop's, and register
  commands that are in the order). `RegistryInv` says who holds the mutex and
  what each thread has still to add, `SplitInv` that the pieces of the path split
  off so far are those before `start`, and `ListInv` that all that the iterator
  has passed is listed. `Parts`, which sorts the pieces by their places, is
  treated by the rank of a piece, the number of pieces before it.
  `NamedCommandCalled` and `ListingOfOneMoment` are the action properties
  `CallsNamedCommand` and `ListingExact` that `AnswersExactly` conjoins.

Only model-checked: liveness (fairness and ENABLED are beyond the prover), and
with it the temporal parts of `AnswersExactly`; and the text of numbers, that is,
`LogsExact`, and the integers of `Buffer` in `ImplementsByteStream` (digits are
defined by recursion, and what a recursive definition computes takes an induction
the provers cannot instantiate).

## Disagreements

Three have a run and an entry in `PROJECT.json`. The models contain, and were
built around, others that a reader of the code should know; where a property
excepts one of them its comment says so.

* Channel.cc:43, PollPoller.cc:106: a channel whose first update is
  `disableAll()` is entered with its descriptor, so that the assertion of
  `removeChannel` fails; `~Acceptor` does this when `listen()` was never called.
* TcpConnection.cc:237: `connectDestroyed` disables the channel only in
  `kConnected`; when `~TcpServer` queues it during a shutdown, the assertion at
  Channel.cc:46 fails. (`Aborts` in `TcpConnection`.)
* TcpServer.cc:102: `removeConnection` binds the bare server, which a callback
  of the base loop may destroy first. (`NoAssertFails` of `TcpServer`, a
  conjunct of `ServerSafe`, excepts it.)
* TcpServer.cc:41: the destructor queues `connectDestroyed` to loops it then
  quits; what is queued behind their last round never runs.
  (`ClosedIsDestroyed`, in `NobodyLeftBehind`, excepts a server that is gone.)
* EventLoopThread.cc:23: the destructor calls `quit()` through `loop_` though
  the loop may have ended before, as in `net/tests/test7.cc`; and a `wakeup()`
  that follows `quit_ = true` may find the loop gone. (`OnlyWakeupIsLate`, in
  `GoesOnWhenDue`, says that in a thread nobody else has quit only the latter
  happens.)
* Condition.h:26: `wait()` gives the mutex up without `holder_`, so that
  `assertLocked()` fails for a thread that has waited.
* ThreadPool.cc:49: `run()` executes the task itself whenever the queue is
  empty, which it always is (`QueueStaysEmpty`, in `GoesOnWhenDue`); the pool's
  threads run nothing.
* Connector.cc:33-51, 209: a retry timer cannot be cancelled. If `stop()` and
  `connect()` come while it is pending, it finds `connect_` true again and makes
  a second attempt beside that of the new start: whichever of the two comes
  while the other is connecting fails the assertion on `state_`, otherwise both
  go on with timers of their own. (`OneAttempt` bounds the attempts by the calls
  made that early, `NoAssertFails` excepts them.)
* Connector.cc:42, 61: `state_` stays `kConnected` when a connection is lost or
  a `stop()` in another thread meets its success, so that a later `connect()`
  fails the assertion, and without `enableRetry()` nothing attempts it again
  although `connect_` is true. (`Lost`, in `OneAttempt`.)
* Connector.cc:125, 142: `connect()` right behind `stop()` in one batch meets a
  channel that `resetChannel` has not reset yet. (`NoAssertFails` excepts it.)
* TcpClient.cc:63: with a connection the destructor neither stops the connector
  nor keeps it for a second, and functors with its bare `this` may be queued;
  from another thread it may also miss a `restart()` that follows.
  TcpClient.cc:66: destroyed from another thread, the client may be called back
  by a connection that closes before its callback is replaced.
  (`ConnectorOutlives` and `NoAssertFails` except them.)
* TimerQueue.cc:30-37, 152: the alarm is a difference of `gettimeofday` times
  put to CLOCK_MONOTONIC; when the former is set forward, timers come late by as
  much. (`AlarmSet` allows for it.)
* Acceptor.cc:60: the test of the error assigns `EMFILE`, so whatever error
  `accept(2)` returns, a client that waits is accepted on the reserve descriptor
  and turned away. (`AcceptFails` may happen at any time.)
* TcpConnection.cc:191: a `shutdown()` that has seen `kConnected` overwrites the
  state of a connection closed meanwhile; the channel is disabled, so it does
  not go down twice (`ClosesOnce`), but a `sendInLoop` still queued does not
  find `kDisconnected`; if it buffers output it enables the channel, and an
  assertion fails, Channel.cc:46 in `connectDestroyed` or PollPoller.cc:81 after
  it. (`Aborts` in `TcpConnection`.)
* LogFile.cc:117, 151: a file may exceed `rollSize_` by a line, and without
  limit in its first second (`OversizeInFirstSecond`, in `LogsExact`, is what
  remains).
* HttpRequest.h:44: a request line with an unknown version stays in the buffer
  with its method set, and the next message fails the assertion of `setMethod()`
  (`AssertFails`); HttpRequest.h:60 takes PUT for HEAD; HttpResponse.cc:13
  prints the status line into the size of an int (`CodeFits`).
  HttpServer.cc:166: of two requests in one message the second waits for the
  next message.
* Inspector.cc:126 looks commands up without the mutex (`raced`).
* Thread.cc:63 asserts that a thread id takes six characters with its blank; one
  of six digits does not (`Printed`). Thread.cc:94 ignores that `pthread_create`
  failed. StringPiece.h:128 compares as many bytes as the longer piece has.

## Not modelled

What the table of components in `PROJECT.json` marks so, each with its reason:
`EpollPoller`, whose files are empty; wrappers of one system call or one
conversion (`Socket`, `SocketsOps`, `InetAddress`, `Thread`, `Timestamp`,
`FileUtil`, `ProcessInfo`, `StringPiece`, the singletons and thread-local
values), whose outcomes appear as choices in the modules of their callers.
Within the modelled parts: destruction of the loop and of the timer queue, the
contents of the input buffer, the text of responses and what
`ProcessInspector`'s commands read from /proc, log levels by name, the
Inspector's destructor, and tasks that throw.

## Plan

1. Done: every component with control of its own.
2. Done: proofs about the loop, the poller, the timers, the connection, the
   server, the acceptor, the client, the buffer, the queues, the latch, the pool,
   the loop's thread, the HTTP server and the Inspector.
3. Left: the text of numbers, which needs an induction over their digits.
