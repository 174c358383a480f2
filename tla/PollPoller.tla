----------------------------- MODULE PollPoller -----------------------------
(***************************************************************************)
(* muduo::net::PollPoller with the Channels registered in it and the part  *)
(* of EventLoop::loop() that dispatches their events.  Everything here     *)
(* runs in the loop's thread: what is hard is not concurrency but what     *)
(* handlers and functors may do to the three tables the poller keeps in    *)
(* step - the array pollfds_ for poll(2), the map channels_ from           *)
(* descriptors to channels, and the index_ each channel has of its place   *)
(* in the array - and to the list of channels being dispatched.            *)
(*                                                                         *)
(* Channels are objects, used once: in the code a removed Channel is       *)
(* destroyed.  Two channels may have the same descriptor one after the     *)
(* other, as Connector's and then TcpConnection's do.  An assertion that   *)
(* fails stops the program (variable aborted).                             *)
(***************************************************************************)
EXTENDS Integers, Sequences, FiniteSets, Functions

CONSTANTS Channels,
          Fd                \* the descriptor of each channel: Channel::fd_

(* Every loop has the channel of its wakeupFd_.                            *)
ASSUME FdAssumption == Channels # {} /\ Fd \in [Channels -> Nat]

(* kReadEvent and kWriteEvent; kNoneEvent is the empty set.                *)
Events == {"read", "write"}

VARIABLES
    events_, index_,         \* per channel
    pollfds_, channels_,     \* of the poller
    activeChannels_,         \* of the loop: what the last poll(2) reported
    it,                      \* how many of them were handed their events
    eventHandling_,
    aborted                  \* the assertion that failed, if one did

poller == <<events_, index_, pollfds_, channels_>>
dispatch == <<activeChannels_, it, eventHandling_>>
vars == <<poller, dispatch, aborted>>

None == "none"

Fds == {Fd[c] : c \in Channels}

(* struct pollfd, with revents left out: poll() hands it to the channel.   *)
PollFd == [fd : Int, events : SUBSET Events]

TablesTyped ==
    /\ events_ \in [Channels -> SUBSET Events]
    /\ index_ \in [Channels -> Int]
    /\ pollfds_ \in Seq(PollFd)
    /\ DOMAIN channels_ \subseteq Fds
    /\ \A f \in DOMAIN channels_ : channels_[f] \in Channels

TypeOK ==
    /\ TablesTyped
    /\ activeChannels_ \in Seq(Channels)
    /\ it \in 0 .. Len(activeChannels_)
    /\ eventHandling_ \in BOOLEAN
    /\ aborted \in {None, "EventLoop.cc:183", "PollPoller.cc:106"}

Init ==
    /\ events_ = [c \in Channels |-> {}]
    /\ index_ = [c \in Channels |-> -1]
    /\ pollfds_ = << >>
    /\ channels_ = << >>
    /\ activeChannels_ = << >>
    /\ it = 0
    /\ eventHandling_ = FALSE
    /\ aborted = None

-----------------------------------------------------------------------------

isNoneEvent(c) == events_[c] = {}

Registered(c) == Fd[c] \in DOMAIN channels_ /\ channels_[Fd[c]] = c

(* Never added.  Its descriptor is open, so no registered channel has it.  *)
New(c) == index_[c] < 0 /\ Fd[c] \notin DOMAIN channels_

(* An entry poll(2) is to skip has its descriptor f as -f - 1, so that     *)
(* descriptor 0 can be skipped too.                                        *)
Ignore(f) == -f - 1
Decode(f) == IF f < 0 THEN -f - 1 ELSE f

Entry(c) == pollfds_[index_[c] + 1]

currentActiveChannel_ ==
    IF eventHandling_ /\ it > 0 THEN activeChannels_[it] ELSE None

(* Handlers and functors run in the loop's thread: in a handler, or with   *)
(* no event being handled.                                                 *)
InUserCode ==
    /\ aborted = None
    /\ eventHandling_ => it > 0

AddEntry(c, ev) ==
    /\ pollfds_' = Append(pollfds_, [fd |-> Fd[c], events |-> ev])
    /\ index_' = [index_ EXCEPT ![c] = Len(pollfds_)]
    /\ channels_' = [f \in DOMAIN channels_ \cup {Fd[c]} |->
                        IF f = Fd[c] THEN c ELSE channels_[f]]

(* The descriptor is replaced when no event is left, and not put back when *)
(* one is wanted again.                                                    *)
ChangeEntry(c, ev) ==
    /\ pollfds_' = [pollfds_ EXCEPT
          ![index_[c] + 1] = [fd |-> IF ev = {} THEN Ignore(Fd[c]) ELSE @.fd,
                              events |-> ev]]
    /\ UNCHANGED <<index_, channels_>>

(* Channel::update: enableReading, enableWriting, disableReading,          *)
(* disableWriting and disableAll set events_ and pass the channel on to    *)
(* EventLoop::updateChannel and from there to the poller.                  *)
updateChannel(c, ev) ==
    /\ InUserCode
    /\ New(c) \/ Registered(c)
    /\ events_' = [events_ EXCEPT ![c] = ev]
    /\ IF index_[c] < 0 THEN AddEntry(c, ev) ELSE ChangeEntry(c, ev)
    /\ UNCHANGED <<dispatch, aborted>>

enable(c, e) == updateChannel(c, events_[c] \cup {e})
disable(c, e) == updateChannel(c, events_[c] \ {e})
disableAll(c) == updateChannel(c, {})

(* Names that end in _Bug are the definitions after them with one mistake  *)
(* put in; nothing uses them, they show that the properties notice.        *)
DropEntry_IndexBug(c) ==
    LET last == Len(pollfds_)
        place == index_[c] + 1
    IN  /\ pollfds_' = SubSeq([pollfds_ EXCEPT ![place] = pollfds_[last]], 1, last - 1)
        /\ channels_' = Restrict(channels_, DOMAIN channels_ \ {Fd[c]})
        /\ UNCHANGED index_

DropEntry_SwapBug(c) ==
    LET last == Len(pollfds_)
        atEnd == Decode(pollfds_[last].fd)
    IN  /\ pollfds_' = SubSeq(pollfds_, 1, last - 1)
        /\ channels_' = Restrict(channels_, DOMAIN channels_ \ {Fd[c]})
        /\ index_' = IF index_[c] + 1 = last THEN index_
                     ELSE [index_ EXCEPT ![channels_[atEnd]] = index_[c]]

(* The last entry takes the place of the removed one, and its channel is   *)
(* told its new index.                                                     *)
DropEntry(c) ==
    LET last == Len(pollfds_)
        place == index_[c] + 1
        atEnd == Decode(pollfds_[last].fd)
    IN  /\ pollfds_' = SubSeq([pollfds_ EXCEPT ![place] = pollfds_[last]], 1, last - 1)
        /\ channels_' = Restrict(channels_, DOMAIN channels_ \ {Fd[c]})
        /\ index_' = IF place = last THEN index_
                     ELSE [index_ EXCEPT ![channels_[atEnd]] = index_[c]]

MayRemove_Bug(c) == TRUE

(* While events are handled, only the channel being handled, or one that   *)
(* is not in the list, may be removed: not even one already handled.       *)
MayRemove(c) ==
    \/ ~eventHandling_
    \/ currentActiveChannel_ = c
    \/ c \notin Range(activeChannels_)

(* The poller insists that the entry be one poll(2) skips.                 *)
FindsIgnored(c) == Entry(c) = [fd |-> Ignore(Fd[c]), events |-> events_[c]]

(* Channel::remove: callers disable the channel first.                     *)
CallsRemove(c) == InUserCode /\ Registered(c) /\ isNoneEvent(c)

remove(c) ==
    /\ CallsRemove(c)
    /\ MayRemove(c) /\ FindsIgnored(c)
    /\ DropEntry(c)
    /\ UNCHANGED <<events_, dispatch, aborted>>

RemoveAborts(c) ==
    /\ CallsRemove(c)
    /\ ~(MayRemove(c) /\ FindsIgnored(c))
    /\ aborted' = IF ~MayRemove(c) THEN "EventLoop.cc:183" ELSE "PollPoller.cc:106"
    /\ UNCHANGED <<poller, dispatch>>

-----------------------------------------------------------------------------

(* poll(2) may report any entry it does not skip: for an event asked for,  *)
(* or for POLLHUP, POLLERR and POLLNVAL, which need no asking.             *)
(* fillActiveChannels keeps the order of pollfds_.                         *)
poll(ready) ==
    /\ aborted = None /\ ~eventHandling_
    /\ \A f \in ready : \E i \in DOMAIN pollfds_ : pollfds_[i].fd = f
    /\ LET reported == {i \in DOMAIN pollfds_ : pollfds_[i].fd \in ready}
       IN  \E at \in [1 .. Cardinality(reported) -> reported] :
              /\ \A j, k \in DOMAIN at : j < k => at[j] < at[k]
              /\ activeChannels_' = [k \in DOMAIN at |-> channels_[pollfds_[at[k]].fd]]
    /\ it' = 0
    /\ eventHandling_' = TRUE
    /\ UNCHANGED <<poller, aborted>>

(* The next round of the for loop: the previous handler has returned.      *)
HandleEvent ==
    /\ aborted = None /\ eventHandling_
    /\ it < Len(activeChannels_)
    /\ it' = it + 1
    /\ UNCHANGED <<poller, activeChannels_, eventHandling_, aborted>>

(* The list is cleared here, and not just before the next poll(2): nothing *)
(* reads it in between.                                                    *)
HandledAll ==
    /\ aborted = None /\ eventHandling_
    /\ it = Len(activeChannels_)
    /\ eventHandling_' = FALSE
    /\ activeChannels_' = << >> /\ it' = 0
    /\ UNCHANGED <<poller, aborted>>

-----------------------------------------------------------------------------

Next ==
    \/ \E c \in Channels :
          \/ \E e \in Events : enable(c, e) \/ disable(c, e)
          \/ disableAll(c)
          \/ remove(c) \/ RemoveAborts(c)
    \/ \E ready \in SUBSET Fds : poll(ready)
    \/ HandleEvent \/ HandledAll

Spec == Init /\ [][Next]_vars

-----------------------------------------------------------------------------
(* Properties.                                                             *)

(* The three tables agree (addition, swap with the last, removal): each    *)
(* registered channel's entry is at its index and asks for its events, and *)
(* every entry belongs to a registered channel.                            *)
ChannelsIndexed ==
    \A f \in DOMAIN channels_ :
       LET c == channels_[f]
       IN  /\ Fd[c] = f
           /\ index_[c] \in 0 .. Len(pollfds_) - 1
           /\ Decode(Entry(c).fd) = f
           /\ Entry(c).events = events_[c]

EntriesOwned ==
    \A i \in DOMAIN pollfds_ :
       LET f == Decode(pollfds_[i].fd)
       IN  f \in DOMAIN channels_ /\ index_[channels_[f]] = i - 1

PollerConsistent == ChannelsIndexed /\ EntriesOwned

(* No event is delivered to a channel after its removal: what is left of   *)
(* the list while handlers run is registered.  It is the assertion in      *)
(* EventLoop::removeChannel that makes it so, by stopping the program.     *)
NoEventAfterRemove ==
    /\ TypeOK
    /\ eventHandling_ =>
          \A k \in it + 1 .. Len(activeChannels_) : Registered(activeChannels_[k])

(* A step concerns one channel: every other one stays registered, and what *)
(* is asked of poll(2) for it stays as it was, although a removal moves    *)
(* the last entry and renumbers its channel.                               *)
OthersUndisturbed ==
    [][\E c \in Channels : \A d \in Channels \ {c} :
          Registered(d) => Registered(d)' /\ Entry(d)' = Entry(d)]_vars

(* "changes the intrested I/O event" (Poller.h, updateChannel): a channel  *)
(* that wants events is watched for them.                                  *)
WantedIsWatched ==
    \A c \in Channels :
       Registered(c) /\ ~isNoneEvent(c) => Entry(c).fd = Fd[c]
=============================================================================
