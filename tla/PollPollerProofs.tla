-------------------------- MODULE PollPollerProofs --------------------------
(***************************************************************************)
(* The poller's three tables agree, for any channels and descriptors.      *)
(***************************************************************************)
EXTENDS PollPoller, SequenceTheorems, FiniteSetTheorems, TLAPS

(* The tables as the steps keep them.                                      *)
Inv == TablesTyped /\ PollerConsistent

(* What a change of the tables for c leaves alone.                         *)
Undisturbed(c) ==
    \A d \in Channels \ {c} : Registered(d) => Registered(d)' /\ Entry(d)' = Entry(d)

LEMMA DecodeIgnore == \A f \in Nat : /\ Decode(f) = f
                                     /\ Ignore(f) \in Int /\ Decode(Ignore(f)) = f
BY DEF Decode, Ignore

(* Two registered channels have different places.                          *)
LEMMA PlacesDiffer ==
    ASSUME Inv, NEW f \in DOMAIN channels_, NEW g \in DOMAIN channels_,
           index_[channels_[f]] = index_[channels_[g]]
    PROVE  f = g
BY DEF Inv, PollerConsistent, ChannelsIndexed, Entry

(* A channel added gets the last place.                                    *)
LEMMA AddKeeps ==
    ASSUME Inv, NEW c \in Channels, NEW ev \in SUBSET Events,
           New(c), AddEntry(c, ev), events_' = [events_ EXCEPT ![c] = ev]
    PROVE  Inv' /\ Undisturbed(c)
<1> DEFINE entry == [fd |-> Fd[c], events |-> ev]
<1>1. /\ pollfds_ \in Seq(PollFd)
      /\ entry \in PollFd
      /\ Fd[c] \in Nat
  <2>1. Fd[c] \in Nat /\ Fd[c] \in Int
    BY FdAssumption
  <2> QED
    BY <2>1 DEF Inv, TablesTyped, PollFd
<1>2. /\ pollfds_' \in Seq(PollFd)
      /\ Len(pollfds_') = Len(pollfds_) + 1 /\ Len(pollfds_) \in Nat
      /\ \A i \in 1 .. Len(pollfds_) : pollfds_'[i] = pollfds_[i]
      /\ pollfds_'[Len(pollfds_) + 1] = entry
      /\ DOMAIN pollfds_' = 1 .. Len(pollfds_) + 1
      /\ DOMAIN pollfds_ = 1 .. Len(pollfds_)
  BY <1>1, AppendProperties, LenProperties DEF AddEntry
<1>3. /\ index_' = [index_ EXCEPT ![c] = Len(pollfds_)]
      /\ index_'[c] = Len(pollfds_)
      /\ \A d \in Channels \ {c} : index_'[d] = index_[d] /\ events_'[d] = events_[d]
      /\ events_'[c] = ev
  BY <1>2 DEF AddEntry, Inv, TablesTyped
<1>4. /\ DOMAIN channels_' = DOMAIN channels_ \cup {Fd[c]}
      /\ channels_'[Fd[c]] = c
      /\ \A f \in DOMAIN channels_ : f # Fd[c] /\ channels_'[f] = channels_[f] /\ channels_[f] # c
  BY DEF AddEntry, New, Inv, PollerConsistent, ChannelsIndexed
<1>5. TablesTyped'
  BY <1>2, <1>3, <1>4 DEF Inv, TablesTyped, Fds
<1>6. ChannelsIndexed'
  <2> SUFFICES ASSUME NEW f \in DOMAIN channels_'
               PROVE  LET d == channels_'[f]
                      IN  /\ Fd[d] = f
                          /\ index_'[d] \in 0 .. Len(pollfds_') - 1
                          /\ Decode(pollfds_'[index_'[d] + 1].fd) = f
                          /\ pollfds_'[index_'[d] + 1].events = events_'[d]
    BY DEF ChannelsIndexed, Entry
  <2>1. CASE f = Fd[c]
    BY <2>1, <1>1, <1>2, <1>3, <1>4, DecodeIgnore
  <2>2. CASE f # Fd[c]
    <3>1. f \in DOMAIN channels_ /\ channels_'[f] = channels_[f]
      BY <2>2, <1>4
    <3>2. /\ channels_[f] \in Channels \ {c} /\ Fd[channels_[f]] = f
          /\ index_[channels_[f]] \in 0 .. Len(pollfds_) - 1
          /\ Decode(pollfds_[index_[channels_[f]] + 1].fd) = f
          /\ pollfds_[index_[channels_[f]] + 1].events = events_[channels_[f]]
      BY <3>1, <1>4 DEF Inv, TablesTyped, PollerConsistent, ChannelsIndexed, Entry
    <3> QED
      BY <3>1, <3>2, <1>2, <1>3
  <2> QED
    BY <2>1, <2>2
<1>7. EntriesOwned'
  <2> SUFFICES ASSUME NEW i \in DOMAIN pollfds_'
               PROVE  LET f == Decode(pollfds_'[i].fd)
                      IN  f \in DOMAIN channels_' /\ index_'[channels_'[f]] = i - 1
    BY DEF EntriesOwned
  <2>1. CASE i = Len(pollfds_) + 1
    BY <2>1, <1>1, <1>2, <1>3, <1>4, DecodeIgnore
  <2>2. CASE i # Len(pollfds_) + 1
    <3>1. i \in DOMAIN pollfds_ /\ pollfds_'[i] = pollfds_[i]
      BY <2>2, <1>2
    <3>2. LET f == Decode(pollfds_[i].fd)
          IN  f \in DOMAIN channels_ /\ index_[channels_[f]] = i - 1
      BY <3>1 DEF Inv, PollerConsistent, EntriesOwned
    <3> QED
      BY <3>1, <3>2, <1>3, <1>4 DEF Inv, TablesTyped
  <2> QED
    BY <2>1, <2>2
<1>8. Undisturbed(c)
  <2> SUFFICES ASSUME NEW d \in Channels \ {c}, Registered(d)
               PROVE  Registered(d)' /\ Entry(d)' = Entry(d)
    BY DEF Undisturbed
  <2>1. index_[d] \in 0 .. Len(pollfds_) - 1 /\ Fd[d] \in DOMAIN channels_ /\ channels_[Fd[d]] = d
    BY DEF Registered, Inv, PollerConsistent, ChannelsIndexed
  <2>2. index_'[d] = index_[d] /\ index_[d] + 1 \in 1 .. Len(pollfds_)
    BY <2>1, <1>2, <1>3
  <2>3. Registered(d)'
    BY <2>1, <1>4 DEF Registered
  <2>4. pollfds_'[index_'[d] + 1] = pollfds_[index_[d] + 1]
    BY <2>2, <1>2
  <2> QED
    BY <2>3, <2>4 DEF Entry
<1> QED
  BY <1>5, <1>6, <1>7, <1>8 DEF Inv, PollerConsistent

(* A channel changed keeps its place.                                      *)
LEMMA ChangeKeeps ==
    ASSUME Inv, NEW c \in Channels, NEW ev \in SUBSET Events,
           Registered(c), ChangeEntry(c, ev), events_' = [events_ EXCEPT ![c] = ev]
    PROVE  Inv' /\ Undisturbed(c)
<1> DEFINE place == index_[c] + 1
           entry == [fd |-> IF ev = {} THEN Ignore(Fd[c]) ELSE pollfds_[place].fd,
                     events |-> ev]
<1>1. /\ Fd[c] \in Nat
      /\ index_[c] \in 0 .. Len(pollfds_) - 1
      /\ Decode(pollfds_[place].fd) = Fd[c]
  BY FdAssumption DEF Inv, Registered, PollerConsistent, ChannelsIndexed, Entry
<1>2. /\ pollfds_ \in Seq(PollFd)
      /\ Len(pollfds_) \in Nat /\ place \in 1 .. Len(pollfds_)
      /\ DOMAIN pollfds_ = 1 .. Len(pollfds_)
  BY <1>1, LenProperties DEF Inv, TablesTyped
<1>3. entry \in PollFd /\ Decode(entry.fd) = Fd[c]
  BY <1>1, <1>2, ElementOfSeq, DecodeIgnore DEF PollFd
<1>4. pollfds_' = [pollfds_ EXCEPT ![place] = entry]
  BY DEF ChangeEntry
<1> HIDE DEF entry
<1>5. /\ pollfds_' \in Seq(PollFd)
      /\ Len(pollfds_') = Len(pollfds_) /\ DOMAIN pollfds_' = DOMAIN pollfds_
      /\ pollfds_'[place] = entry
      /\ \A i \in 1 .. Len(pollfds_) : i # place => pollfds_'[i] = pollfds_[i]
  BY <1>2, <1>3, <1>4, ExceptSeq
<1>6. /\ index_' = index_ /\ channels_' = channels_
      /\ events_'[c] = ev /\ \A d \in Channels \ {c} : events_'[d] = events_[d]
      /\ events_' \in [Channels -> SUBSET Events]
  BY DEF ChangeEntry, Inv, TablesTyped
<1>7. TablesTyped'
  BY <1>5, <1>6 DEF Inv, TablesTyped
<1>8. ChannelsIndexed'
  <2> SUFFICES ASSUME NEW f \in DOMAIN channels_
               PROVE  LET d == channels_[f]
                      IN  /\ Fd[d] = f
                          /\ index_[d] \in 0 .. Len(pollfds_') - 1
                          /\ Decode(pollfds_'[index_[d] + 1].fd) = f
                          /\ pollfds_'[index_[d] + 1].events = events_'[d]
    BY <1>6 DEF ChannelsIndexed, Entry
  <2>0. /\ channels_[f] \in Channels /\ Fd[channels_[f]] = f
        /\ index_[channels_[f]] \in 0 .. Len(pollfds_) - 1
        /\ Decode(pollfds_[index_[channels_[f]] + 1].fd) = f
        /\ pollfds_[index_[channels_[f]] + 1].events = events_[channels_[f]]
    BY DEF Inv, TablesTyped, PollerConsistent, ChannelsIndexed, Entry
  <2>1. CASE f = Fd[c]
    BY <2>0, <2>1, <1>3, <1>5, <1>6 DEF Registered, entry
  <2>2. CASE f # Fd[c]
    <3>1. index_[channels_[f]] # index_[c]
      BY <2>2, PlacesDiffer DEF Registered
    <3>2. channels_[f] # c
      BY <3>1
    <3>3. index_[channels_[f]] + 1 \in 1 .. Len(pollfds_) /\ index_[channels_[f]] + 1 # place
      BY <2>0, <3>1, <1>1, <1>2
    <3>4. pollfds_'[index_[channels_[f]] + 1] = pollfds_[index_[channels_[f]] + 1]
      BY <3>3, <1>5
    <3> QED
      BY <2>0, <3>2, <3>4, <1>5, <1>6
  <2> QED
    BY <2>1, <2>2
<1>9. EntriesOwned'
  <2> SUFFICES ASSUME NEW i \in 1 .. Len(pollfds_)
               PROVE  LET f == Decode(pollfds_'[i].fd)
                      IN  f \in DOMAIN channels_ /\ index_[channels_[f]] = i - 1
    BY <1>2, <1>5, <1>6 DEF EntriesOwned
  <2>1. Decode(pollfds_'[i].fd) = Decode(pollfds_[i].fd)
    BY <1>1, <1>3, <1>5
  <2> QED
    BY <2>1, <1>2 DEF Inv, PollerConsistent, EntriesOwned
<1>10. Undisturbed(c)
  <2> SUFFICES ASSUME NEW d \in Channels \ {c}, Registered(d)
               PROVE  Registered(d)' /\ Entry(d)' = Entry(d)
    BY DEF Undisturbed
  <2>1. /\ index_[d] \in 0 .. Len(pollfds_) - 1 /\ Fd[d] \in DOMAIN channels_
        /\ channels_[Fd[d]] = d /\ channels_[Fd[c]] = c /\ Fd[c] \in DOMAIN channels_
    BY DEF Registered, Inv, PollerConsistent, ChannelsIndexed
  <2>2. index_[d] # index_[c]
    BY <2>1, PlacesDiffer
  <2>3. index_[d] + 1 \in 1 .. Len(pollfds_) /\ index_[d] + 1 # place
    BY <2>1, <2>2, <1>1, <1>2
  <2>4. pollfds_'[index_'[d] + 1] = pollfds_[index_[d] + 1]
    BY <2>3, <1>5, <1>6
  <2>5. Registered(d)'
    BY <1>6 DEF Registered
  <2> QED
    BY <2>4, <2>5 DEF Entry
<1> QED
  BY <1>7, <1>8, <1>9, <1>10 DEF Inv, PollerConsistent

(* A channel removed gives its place to the one at the end.                *)
LEMMA DropKeeps ==
    ASSUME Inv, NEW c \in Channels, Registered(c), DropEntry(c), events_' = events_
    PROVE  Inv' /\ Undisturbed(c)
<1> DEFINE last == Len(pollfds_)
           place == index_[c] + 1
           swapped == [pollfds_ EXCEPT ![place] = pollfds_[last]]
           atEnd == Decode(pollfds_[last].fd)
           e == channels_[atEnd]
<1>1. /\ pollfds_ \in Seq(PollFd)
      /\ last \in Nat /\ DOMAIN pollfds_ = 1 .. last
      /\ index_[c] \in 0 .. last - 1 /\ Fd[c] \in DOMAIN channels_ /\ channels_[Fd[c]] = c
  BY LenProperties DEF Inv, TablesTyped, Registered, PollerConsistent, ChannelsIndexed
<1>2. place \in 1 .. last /\ last \in 1 .. last /\ last - 1 \in Nat
  BY <1>1
<1>3. /\ swapped \in Seq(PollFd) /\ Len(swapped) = last
      /\ \A i \in 1 .. last : swapped[i] = IF i = place THEN pollfds_[last] ELSE pollfds_[i]
  BY <1>1, <1>2, ElementOfSeq, ExceptSeq
<1>4. /\ pollfds_' = SubSeq(swapped, 1, last - 1)
      /\ channels_' = Restrict(channels_, DOMAIN channels_ \ {Fd[c]})
      /\ index_' = IF place = last THEN index_ ELSE [index_ EXCEPT ![e] = index_[c]]
  BY DEF DropEntry
<1>5. /\ atEnd \in DOMAIN channels_ /\ index_[e] = last - 1
      /\ e \in Channels /\ Fd[e] = atEnd
  BY <1>1, <1>2 DEF Inv, TablesTyped, PollerConsistent, ChannelsIndexed, EntriesOwned
<1> HIDE DEF swapped, atEnd, e, place, last
<1>6. /\ pollfds_' \in Seq(PollFd)
      /\ Len(pollfds_') = last - 1
      /\ \A i \in 1 .. last - 1 :
            pollfds_'[i] = IF i = place THEN pollfds_[last] ELSE pollfds_[i]
  <2>1. \A i \in 1 .. last - 1 : swapped[i] \in PollFd
    BY <1>1, <1>2, <1>3, ElementOfSeq
  <2>2. /\ SubSeq(swapped, 1, last - 1) \in Seq(PollFd)
        /\ Len(SubSeq(swapped, 1, last - 1)) = IF 1 <= last - 1 THEN last - 1 - 1 + 1 ELSE 0
        /\ \A i \in 1 .. last - 1 - 1 + 1 : SubSeq(swapped, 1, last - 1)[i] = swapped[1 + i - 1]
    BY <2>1, <1>1, SubSeqProperties
  <2> QED
    BY <2>2, <1>1, <1>2, <1>3, <1>4
<1>7. /\ DOMAIN channels_' = DOMAIN channels_ \ {Fd[c]}
      /\ \A f \in DOMAIN channels_' : channels_'[f] = channels_[f]
  BY <1>4 DEF Restrict
<1>8. /\ index_' \in [Channels -> Int]
      /\ \A d \in Channels \ {e} : index_'[d] = index_[d]
      /\ place = last => index_'[e] = index_[e]
      /\ place # last => index_'[e] = index_[c]
  BY <1>1, <1>4, <1>5 DEF Inv, TablesTyped
<1>9. TablesTyped'
  BY <1>6, <1>7, <1>8 DEF Inv, TablesTyped
<1>10. ASSUME NEW d \in Channels \ {c}, Registered(d)
       PROVE  /\ index_'[d] \in 0 .. (last - 1) - 1
              /\ pollfds_'[index_'[d] + 1] = pollfds_[index_[d] + 1]
  <2>1. /\ Fd[d] \in DOMAIN channels_ /\ channels_[Fd[d]] = d
        /\ index_[d] \in 0 .. last - 1
        /\ Decode(pollfds_[index_[d] + 1].fd) = Fd[d]
    BY <1>10 DEF Inv, Registered, PollerConsistent, ChannelsIndexed, Entry, last
  <2>2. index_[d] # index_[c]
    BY <2>1, <1>1, PlacesDiffer
  <2>3. CASE index_[d] = last - 1
    <3>1. index_[d] + 1 = last
      BY <2>3, <1>1
    <3>2. d = e
      BY <2>1, <3>1 DEF atEnd, e
    <3>3. place # last /\ place \in 1 .. last - 1
      BY <2>2, <2>3, <1>1, <1>2 DEF place
    <3>4. index_'[d] = index_[c] /\ index_'[d] + 1 = place
      BY <3>2, <3>3, <1>8 DEF place
    <3>5. pollfds_'[place] = pollfds_[last]
      BY <3>3, <1>6
    <3> QED
      BY <3>1, <3>4, <3>5, <3>3, <1>1
  <2>4. CASE index_[d] # last - 1
    <3>1. d # e
      BY <2>4, <1>5
    <3>2. index_'[d] = index_[d]
      BY <3>1, <1>8
    <3>3. index_[d] \in 0 .. (last - 1) - 1 /\ index_[d] + 1 \in 1 .. last - 1
      BY <2>1, <2>4, <1>1
    <3>4. index_[d] + 1 # place
      BY <2>1, <2>2, <1>1 DEF place
    <3>5. pollfds_'[index_[d] + 1] = pollfds_[index_[d] + 1]
      BY <3>3, <3>4, <1>6
    <3> QED
      BY <3>2, <3>3, <3>5
  <2> QED
    BY <2>3, <2>4
<1>11. ChannelsIndexed'
  <2> SUFFICES ASSUME NEW f \in DOMAIN channels_'
               PROVE  LET d == channels_[f]
                      IN  /\ Fd[d] = f
                          /\ index_'[d] \in 0 .. Len(pollfds_') - 1
                          /\ Decode(pollfds_'[index_'[d] + 1].fd) = f
                          /\ pollfds_'[index_'[d] + 1].events = events_[d]
    BY <1>7 DEF ChannelsIndexed, Entry
  <2> DEFINE d == channels_[f]
  <2>1. /\ f \in DOMAIN channels_ /\ f # Fd[c] /\ d \in Channels /\ Fd[d] = f
        /\ Decode(pollfds_[index_[d] + 1].fd) = f
        /\ pollfds_[index_[d] + 1].events = events_[d]
    BY <1>7 DEF Inv, TablesTyped, PollerConsistent, ChannelsIndexed, Entry
  <2>2. d \in Channels \ {c} /\ Registered(d)
    BY <2>1 DEF Registered
  <2> HIDE DEF d
  <2>3. /\ index_'[d] \in 0 .. (last - 1) - 1
        /\ pollfds_'[index_'[d] + 1] = pollfds_[index_[d] + 1]
    BY <2>2, <1>10
  <2> QED
    BY <2>1, <2>3, <1>6 DEF d
<1>12. Undisturbed(c)
  <2> SUFFICES ASSUME NEW d \in Channels \ {c}, Registered(d)
               PROVE  Registered(d)' /\ Entry(d)' = Entry(d)
    BY DEF Undisturbed
  <2>1. Fd[d] # Fd[c] /\ Fd[d] \in DOMAIN channels_ /\ channels_[Fd[d]] = d
    BY <1>1 DEF Registered
  <2>2. Registered(d)'
    BY <2>1, <1>7 DEF Registered
  <2> QED
    BY <2>2, <1>10 DEF Entry
<1>13. EntriesOwned'
  <2> SUFFICES ASSUME NEW i \in 1 .. last - 1
               PROVE  LET f == Decode(pollfds_'[i].fd)
                      IN  f \in DOMAIN channels_' /\ index_'[channels_[f]] = i - 1
    BY <1>6, <1>7, LenProperties DEF EntriesOwned
  <2>1. CASE i = place
    <3>1. place # last /\ pollfds_'[i] = pollfds_[last]
      BY <2>1, <1>1, <1>2, <1>6
    <3>2. atEnd # Fd[c]
      BY <3>1, <1>1, <1>2, <1>5 DEF place, e
    <3>3. index_'[e] = i - 1
      BY <2>1, <3>1, <1>1, <1>8 DEF place
    <3> QED
      BY <3>1, <3>2, <3>3, <1>5, <1>7 DEF atEnd, e
  <2>2. CASE i # place
    <3> DEFINE f == Decode(pollfds_[i].fd)
    <3>1. pollfds_'[i] = pollfds_[i]
      BY <2>2, <1>6
    <3>2. f \in DOMAIN channels_ /\ index_[channels_[f]] = i - 1 /\ channels_[f] \in Channels
      <4>1. i \in DOMAIN pollfds_
        BY <1>1
      <4> QED
        BY <4>1 DEF Inv, TablesTyped, PollerConsistent, EntriesOwned
    <3>3. f # Fd[c]
      BY <3>2, <2>2, <1>1 DEF place
    <3>4. channels_[f] # e
      BY <3>2, <1>1, <1>5
    <3> QED
      BY <3>1, <3>2, <3>3, <3>4, <1>7, <1>8
  <2> QED
    BY <2>1, <2>2
<1> QED
  BY <1>9, <1>11, <1>12, <1>13 DEF Inv, PollerConsistent

(* Every step keeps the tables in step and disturbs one channel at most.   *)
LEMMA StepKeeps ==
    ASSUME Inv, [Next]_vars
    PROVE  Inv' /\ \E c \in Channels : Undisturbed(c)
<1>1. ASSUME NEW c \in Channels, NEW ev \in SUBSET Events, updateChannel(c, ev)
      PROVE  Inv' /\ Undisturbed(c)
  <2>1. CASE New(c)
    BY <1>1, <2>1, AddKeeps DEF updateChannel, New
  <2>2. CASE Registered(c)
    <3>1. ~(index_[c] < 0)
      BY <2>2 DEF Inv, Registered, PollerConsistent, ChannelsIndexed
    <3> QED
      BY <1>1, <2>2, <3>1, ChangeKeeps DEF updateChannel
  <2> QED
    BY <1>1, <2>1, <2>2 DEF updateChannel
<1>2. ASSUME NEW c \in Channels, NEW e \in Events,
             enable(c, e) \/ disable(c, e) \/ disableAll(c)
      PROVE  Inv' /\ Undisturbed(c)
  <2>1. events_[c] \cup {e} \in SUBSET Events /\ events_[c] \ {e} \in SUBSET Events
    BY DEF Inv, TablesTyped
  <2> QED
    BY <1>1, <1>2, <2>1 DEF enable, disable, disableAll
<1>3. ASSUME NEW c \in Channels, remove(c)
      PROVE  Inv' /\ Undisturbed(c)
  BY <1>3, DropKeeps DEF remove, CallsRemove
<1>4. CASE UNCHANGED poller
  <2>1. Inv'
    BY <1>4 DEF poller, Inv, TablesTyped, PollerConsistent, ChannelsIndexed,
                EntriesOwned, Entry
  <2>2. \A c \in Channels : Undisturbed(c)
    BY <1>4 DEF poller, Undisturbed, Registered, Entry
  <2> QED
    BY <2>1, <2>2, FdAssumption
<1>5. ASSUME NEW c \in Channels, RemoveAborts(c)
      PROVE  UNCHANGED poller
  BY <1>5 DEF RemoveAborts
<1>6. CASE (\E ready \in SUBSET Fds : poll(ready)) \/ HandleEvent \/ HandledAll
  BY <1>4, <1>6 DEF poll, HandleEvent, HandledAll
<1> QED
  BY <1>2, <1>3, <1>4, <1>5, <1>6 DEF Next, vars, Events

(* PollPoller::updateChannel and removeChannel keep pollfds_, channels_ and *)
(* the channels' index_ in step.                                           *)
THEOREM TablesAgree == Spec => [](TablesTyped /\ PollerConsistent)
<1>1. Init => Inv
  BY EmptySeq DEF Init, Inv, TablesTyped, PollerConsistent, ChannelsIndexed, EntriesOwned
<1>2. Inv /\ [Next]_vars => Inv'
  BY StepKeeps
<1> QED
  BY <1>1, <1>2, PTL DEF Spec, Inv

(* Removing or changing a channel leaves every other one registered and    *)
(* what poll(2) is asked for it as it was, although the last entry moves.  *)
THEOREM NeighboursKept == Spec => OthersUndisturbed
<1>1. Inv /\ [Next]_vars =>
        [\E c \in Channels : \A d \in Channels \ {c} :
            Registered(d) => Registered(d)' /\ Entry(d)' = Entry(d)]_vars
  BY StepKeeps DEF Undisturbed
<1>2. Spec => []Inv
  BY TablesAgree DEF Inv
<1> QED
  BY <1>1, <1>2, PTL DEF Spec, OthersUndisturbed

-----------------------------------------------------------------------------
(* The list of active channels while their events are handled: what is     *)
(* still to be handled is registered, and no channel is in the list twice, *)
(* which is why removing the one being handled takes none from the rest.   *)
DispatchInv ==
    /\ activeChannels_ \in Seq(Channels)
    /\ it \in 0 .. Len(activeChannels_)
    /\ eventHandling_ \in BOOLEAN
    /\ aborted \in {None, "EventLoop.cc:183", "PollPoller.cc:106"}
    /\ eventHandling_ =>
          /\ \A k \in it + 1 .. Len(activeChannels_) : Registered(activeChannels_[k])
          /\ \A j, k \in 1 .. Len(activeChannels_) :
                activeChannels_[j] = activeChannels_[k] => j = k

(* fillActiveChannels() lists registered channels, each once.              *)
LEMMA PollLists ==
    ASSUME Inv, DispatchInv, NEW ready \in SUBSET Fds, poll(ready)
    PROVE  DispatchInv'
<1> DEFINE reported == {i \in DOMAIN pollfds_ : pollfds_[i].fd \in ready}
           n == Cardinality(reported)
<1>1. n \in Nat
  <2>1. Len(pollfds_) \in Nat /\ DOMAIN pollfds_ = 1 .. Len(pollfds_)
    BY LenProperties DEF Inv, TablesTyped
  <2>2. IsFiniteSet(1 .. Len(pollfds_))
    BY <2>1, FS_Interval
  <2>3. IsFiniteSet(reported)
    BY <2>1, <2>2, FS_Subset
  <2> QED
    BY <2>3, FS_CardinalityType
<1>2. PICK at \in [1 .. n -> reported] :
              /\ \A j, k \in DOMAIN at : j < k => at[j] < at[k]
              /\ activeChannels_' = [k \in DOMAIN at |-> channels_[pollfds_[at[k]].fd]]
  BY DEF poll
<1>3. ASSUME NEW i \in reported
      PROVE  /\ i \in DOMAIN pollfds_ /\ i \in Int
             /\ channels_[pollfds_[i].fd] \in Channels
             /\ Registered(channels_[pollfds_[i].fd])
             /\ index_[channels_[pollfds_[i].fd]] = i - 1
  <2>1. i \in DOMAIN pollfds_ /\ i \in Int /\ pollfds_[i].fd \in Nat
    BY FdAssumption DEF Fds, Inv, TablesTyped
  <2>2. Decode(pollfds_[i].fd) = pollfds_[i].fd
    BY <2>1, DecodeIgnore
  <2>3. /\ pollfds_[i].fd \in DOMAIN channels_
        /\ index_[channels_[pollfds_[i].fd]] = i - 1
    BY <2>1, <2>2 DEF Inv, PollerConsistent, EntriesOwned
  <2> QED
    BY <2>1, <2>3 DEF Inv, TablesTyped, PollerConsistent, ChannelsIndexed, Registered
<1> HIDE DEF reported, n
<1>4. /\ activeChannels_' \in [1 .. n -> Channels]
      /\ \A k \in 1 .. n : activeChannels_'[k] = channels_[pollfds_[at[k]].fd]
  BY <1>2, <1>3
<1>5. activeChannels_' \in Seq(Channels) /\ Len(activeChannels_') = n
  BY <1>1, <1>4
<1>6. UNCHANGED <<channels_, aborted>> /\ it' = 0 /\ eventHandling_' = TRUE
  BY DEF poll, poller
<1>7. ASSUME NEW k \in 1 .. n
      PROVE  /\ Fd[activeChannels_'[k]] \in DOMAIN channels_'
             /\ channels_'[Fd[activeChannels_'[k]]] = activeChannels_'[k]
  <2>1. at[k] \in reported
    BY <1>2
  <2>2. Registered(channels_[pollfds_[at[k]].fd])
    BY <1>3, <2>1
  <2> QED BY <1>4, <1>6, <2>2 DEF Registered
<1>8. ASSUME NEW j \in 1 .. n, NEW k \in 1 .. n, activeChannels_'[j] = activeChannels_'[k]
      PROVE  j = k
  <2>1. at[j] \in Int /\ at[k] \in Int /\ at[j] - 1 = at[k] - 1
    BY <1>2, <1>3, <1>4, <1>8
  <2>2. at[j] = at[k]
    BY <2>1
  <2>3. ~(j < k) /\ ~(k < j)
    BY <1>2, <2>1, <2>2
  <2> QED
    BY <1>1, <2>3
<1> QED
  <2>1. 0 \in 0 .. n /\ 0 + 1 .. n = 1 .. n
    BY <1>1
  <2>2. aborted' \in {None, "EventLoop.cc:183", "PollPoller.cc:106"}
    BY <1>6 DEF DispatchInv
  <2>3. \A k \in it' + 1 .. Len(activeChannels_') :
            /\ Fd[activeChannels_'[k]] \in DOMAIN channels_'
            /\ channels_'[Fd[activeChannels_'[k]]] = activeChannels_'[k]
    BY <1>5, <1>6, <1>7, <2>1
  <2> QED
    BY <1>5, <1>6, <1>8, <2>1, <2>2, <2>3, Zenon DEF DispatchInv, Registered

(* No handler is called for a channel that was removed after poll(2)       *)
(* reported it.                                                            *)
THEOREM NoStaleEvents == Spec => []NoEventAfterRemove
<1>1. Init => DispatchInv
  <2> SUFFICES ASSUME Init PROVE DispatchInv
    OBVIOUS
  <2>1. <<>> \in Seq(Channels) /\ 0 \in 0 .. Len(<<>>)
    BY EmptySeq
  <2> QED
    BY <2>1, Zenon DEF Init, DispatchInv
<1>2. Inv /\ DispatchInv /\ [Next]_vars => DispatchInv'
  <2> SUFFICES ASSUME Inv, DispatchInv, [Next]_vars PROVE DispatchInv'
    OBVIOUS
  <2>1. ASSUME UNCHANGED dispatch, UNCHANGED aborted,
               eventHandling_ => \A k \in it + 1 .. Len(activeChannels_) :
                                    Registered(activeChannels_[k])'
        PROVE  DispatchInv'
    BY <2>1, Zenon DEF DispatchInv, dispatch
  <2>2. ASSUME NEW c \in Channels, NEW ev \in SUBSET Events, updateChannel(c, ev)
        PROVE  DispatchInv'
    <3>1. UNCHANGED <<dispatch, aborted>>
      BY <2>2 DEF updateChannel
    <3>2. ASSUME NEW d, Registered(d)
          PROVE  Fd[d] \in DOMAIN channels_' /\ channels_'[Fd[d]] = d
      BY <2>2, <3>2 DEF updateChannel, AddEntry, ChangeEntry, New, Registered
    <3>3. eventHandling_ => \A k \in it + 1 .. Len(activeChannels_) :
                               Registered(activeChannels_[k])'
      <4>1. activeChannels_' = activeChannels_
        BY <3>1 DEF dispatch
      <4> QED BY <3>2, <4>1 DEF DispatchInv, Registered
    <3> QED BY <2>1, <3>1, <3>3
  <2>3. ASSUME NEW c \in Channels, NEW e \in Events,
               enable(c, e) \/ disable(c, e) \/ disableAll(c)
        PROVE  DispatchInv'
    <3>1. events_[c] \cup {e} \in SUBSET Events /\ events_[c] \ {e} \in SUBSET Events
      BY DEF Inv, TablesTyped
    <3> QED
      BY <2>2, <2>3, <3>1 DEF enable, disable, disableAll
  <2>4. ASSUME NEW c \in Channels, remove(c)
        PROVE  DispatchInv'
    <3>1. UNCHANGED <<dispatch, aborted>> /\ MayRemove(c) /\ InUserCode
          /\ Registered(c) /\ DropEntry(c)
      BY <2>4 DEF remove, CallsRemove
    <3>2. ASSUME NEW d, Registered(d), d # c
          PROVE  Fd[d] \in DOMAIN channels_' /\ channels_'[Fd[d]] = d
      BY <3>1, <3>2 DEF DropEntry, Restrict, Registered
    <3>3. ASSUME eventHandling_, NEW k \in it + 1 .. Len(activeChannels_)
          PROVE  Registered(activeChannels_[k]) /\ activeChannels_[k] # c
      <4>1. /\ activeChannels_ \in Seq(Channels) /\ it \in 0 .. Len(activeChannels_)
            /\ Registered(activeChannels_[k]) /\ Len(activeChannels_) \in Nat
            /\ \A j, l \in 1 .. Len(activeChannels_) :
                  activeChannels_[j] = activeChannels_[l] => j = l
        BY <3>3, LenProperties DEF DispatchInv
      <4>2. k \in 1 .. Len(activeChannels_) /\ k # it
        BY <3>3, <4>1
      <4>3. CASE currentActiveChannel_ = c
        <5>1. it > 0
          BY <3>1, <3>3 DEF InUserCode
        <5>2. activeChannels_[it] = c /\ it \in 1 .. Len(activeChannels_)
          BY <3>3, <4>1, <4>3, <5>1 DEF currentActiveChannel_
        <5> QED BY <4>1, <4>2, <5>2
      <4>4. CASE c \notin Range(activeChannels_)
        <5>1. k \in DOMAIN activeChannels_
          BY <4>1, <4>2, LenProperties
        <5> QED BY <4>1, <4>4, <5>1 DEF Range
      <4> QED BY <3>1, <3>3, <4>3, <4>4 DEF MayRemove
    <3>4. eventHandling_ => \A k \in it + 1 .. Len(activeChannels_) :
                               Registered(activeChannels_[k])'
      <4>1. activeChannels_' = activeChannels_
        BY <3>1 DEF dispatch
      <4> QED BY <3>2, <3>3, <4>1 DEF Registered
    <3> QED BY <2>1, <3>1, <3>4
  <2>5. ASSUME NEW c \in Channels, RemoveAborts(c)
        PROVE  DispatchInv'
    <3>1. /\ UNCHANGED <<dispatch, channels_>>
          /\ aborted' \in {None, "EventLoop.cc:183", "PollPoller.cc:106"}
      BY <2>5 DEF RemoveAborts, poller
    <3> QED BY <3>1, Zenon DEF DispatchInv, dispatch, Registered
  <2>6. ASSUME NEW ready \in SUBSET Fds, poll(ready)
        PROVE  DispatchInv'
    BY <2>6, PollLists
  <2>7. CASE HandleEvent
    <3>1. /\ UNCHANGED <<channels_, activeChannels_, eventHandling_, aborted>>
          /\ it' = it + 1 /\ it < Len(activeChannels_)
      BY <2>7 DEF HandleEvent, poller
    <3>2. it \in 0 .. Len(activeChannels_) /\ Len(activeChannels_) \in Nat
      BY LenProperties DEF DispatchInv
    <3>3. /\ it' \in 0 .. Len(activeChannels_)
          /\ \A k \in it' + 1 .. Len(activeChannels_) : k \in it + 1 .. Len(activeChannels_)
      BY <3>1, <3>2
    <3> QED BY <3>1, <3>3, Zenon DEF DispatchInv, Registered
  <2>8. CASE HandledAll
    <3>1. activeChannels_' = <<>> /\ it' = 0 /\ eventHandling_' = FALSE /\ aborted' = aborted
      BY <2>8 DEF HandledAll
    <3>2. <<>> \in Seq(Channels) /\ 0 \in 0 .. Len(<<>>)
      BY EmptySeq
    <3> QED BY <3>1, <3>2, Zenon DEF DispatchInv
  <2>9. CASE UNCHANGED vars
    <3>1. UNCHANGED <<channels_, activeChannels_, it, eventHandling_, aborted>>
      BY <2>9 DEF vars, poller, dispatch
    <3> QED BY <3>1, Zenon DEF DispatchInv, Registered
  <2> QED
    BY <2>3, <2>4, <2>5, <2>6, <2>7, <2>8, <2>9 DEF Next, Events
<1>3. Inv /\ DispatchInv => NoEventAfterRemove
  BY Zenon DEF Inv, DispatchInv, NoEventAfterRemove, TypeOK
<1>4. Spec => []Inv
  BY TablesAgree DEF Inv
<1> QED
  BY <1>1, <1>2, <1>3, <1>4, PTL DEF Spec
=============================================================================
