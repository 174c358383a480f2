------------------------------- MODULE Acceptor -------------------------------
(***************************************************************************)
(* muduo::net::Acceptor and the table of descriptors of its process.       *)
(* When accept4 fails, handleRead() gives up the reserve idleFd_, accepts  *)
(* a connection in its place only to close it, and opens the reserve again *)
(* - four system calls, between which other threads open and close         *)
(* descriptors of their own.  The condition, if(errno = EMFILE), is an     *)
(* assignment: this happens after every failure.                           *)
(***************************************************************************)
EXTENDS Naturals, FiniteSetsExt

CONSTANTS Conns,        \* clients
          Limit         \* RLIMIT_NOFILE less the descriptors always open

(* There is a descriptor for the reserve: the constructor asserts it.      *)
AcceptorAssumption ==
    Limit \in Nat \ {0} /\ Conns \cap {"free", "idle", "other"} = {}

VARIABLES
    listenning_,
    newConnectionCallback_,   \* whether it is set
    idleFd_,      \* a descriptor, or NoFd for -1
    owner,        \* of each descriptor: "free", "idle", "other" or a client
    client,       \* per client: see TypeOK
    pc,           \* where handleRead() is
    wrong,        \* history: closed a descriptor that was not the acceptor's;
    stolen        \* another thread opened one during handleRead()

vars == <<listenning_, newConnectionCallback_, stolen, idleFd_, owner, client, pc, wrong>>

Fds == 1..Limit
NoFd == 0

(* A client is "queued" in the backlog, "handed" to the callback, "closed" *)
(* by its user or, without a callback, by handleRead(), "dropped" to make  *)
(* room, or has "left" before it was accepted.                             *)
TypeOK ==
    /\ {listenning_, newConnectionCallback_, wrong, stolen} \subseteq BOOLEAN
    /\ idleFd_ \in Fds \cup {NoFd}
    /\ owner \in [Fds -> {"free", "idle", "other"} \cup Conns]
    /\ client \in [Conns -> {"none", "queued", "handed", "dropped", "closed", "left"}]
    /\ pc \in {"poll", "ready", "failed", "room", "drop", "reopen",
               "destroyed", "aborted"}

Free == {f \in Fds : owner[f] = "free"}
Lowest == Min(Free)
Queued == {c \in Conns : client[c] = "queued"}

Init ==
    /\ listenning_ = FALSE /\ newConnectionCallback_ \in BOOLEAN /\ idleFd_ = 1
    /\ owner = [f \in Fds |-> IF f = 1 THEN "idle" ELSE "free"]
    /\ client = [c \in Conns |-> "none"] /\ pc = "poll"
    /\ wrong = FALSE /\ stolen = FALSE

(* ::close(idleFd_), with whatever the variable holds.                     *)
CloseIdle ==
    IF idleFd_ = NoFd THEN UNCHANGED <<owner, wrong>>
    ELSE /\ owner' = [owner EXCEPT ![idleFd_] = "free"]
         /\ wrong' = (wrong \/ owner[idleFd_] # "idle")

listen ==
    /\ pc = "poll" /\ ~listenning_ /\ listenning_' = TRUE
    /\ UNCHANGED <<idleFd_, owner, client, pc, wrong>>

(* poll(2) finds the backlog not empty; a client may still leave it.       *)
Ready ==
    /\ pc = "poll" /\ listenning_ /\ Queued # {} /\ pc' = "ready"
    /\ UNCHANGED <<listenning_, idleFd_, owner, client, wrong>>

(* accept4 takes the lowest free descriptor; handleRead() passes it on.    *)
AcceptOk ==
    /\ pc = "ready" /\ Free # {} /\ pc' = "poll"
    /\ \E c \in Queued :
          IF newConnectionCallback_
          THEN /\ client' = [client EXCEPT ![c] = "handed"]
               /\ owner' = [owner EXCEPT ![Lowest] = c]
          ELSE client' = [client EXCEPT ![c] = "closed"] /\ UNCHANGED owner
    /\ UNCHANGED <<listenning_, idleFd_, wrong>>

(* EMFILE, EAGAIN after the client left, or at any time EINTR, EPROTO,     *)
(* ECONNABORTED and EPERM: the same for the code.                          *)
AcceptFails ==
    /\ pc = "ready" /\ pc' = "failed"
    /\ UNCHANGED <<listenning_, idleFd_, owner, client, wrong>>

(* ENFILE, ENOMEM and the like: sockets::accept() logs FATAL and aborts.   *)
AcceptFatal ==
    /\ pc = "ready" /\ pc' = "aborted"
    /\ UNCHANGED <<listenning_, idleFd_, owner, client, wrong>>

MakeRoom ==
    /\ pc = "failed" /\ CloseIdle /\ pc' = "room"
    /\ UNCHANGED <<listenning_, idleFd_, client>>

AcceptAgain_Bug ==
    /\ pc = "room" /\ pc' = "drop"
    /\ IF Free = {} \/ Queued = {}
       THEN UNCHANGED <<idleFd_, owner, client>>
       ELSE /\ idleFd_' = Lowest /\ owner' = [owner EXCEPT ![Lowest] = "idle"]
            /\ \E c \in Queued : client' = [client EXCEPT ![c] = "dropped"]
    /\ UNCHANGED <<listenning_, wrong>>
(* idleFd_ = ::accept(...), -1 if it fails: another thread was faster, or  *)
(* nobody was waiting.                                                     *)
AcceptAgain ==
    /\ pc = "room" /\ pc' = "drop"
    /\ IF Free = {} \/ Queued = {}
       THEN idleFd_' = NoFd /\ UNCHANGED <<owner, client>>
       ELSE /\ idleFd_' = Lowest /\ owner' = [owner EXCEPT ![Lowest] = "idle"]
            /\ \E c \in Queued : client' = [client EXCEPT ![c] = "dropped"]
    /\ UNCHANGED <<listenning_, wrong>>

DropClient ==
    /\ pc = "drop" /\ CloseIdle /\ pc' = "reopen"
    /\ UNCHANGED <<listenning_, idleFd_, client>>

Reopen ==
    /\ pc = "reopen" /\ pc' = "poll"
    /\ IF Free = {} THEN idleFd_' = NoFd /\ UNCHANGED owner
       ELSE idleFd_' = Lowest /\ owner' = [owner EXCEPT ![Lowest] = "idle"]
    /\ UNCHANGED <<listenning_, client, wrong>>

(* ~Acceptor, after the loop has returned.                                 *)
Destroy ==
    /\ pc = "poll" /\ CloseIdle /\ pc' = "destroyed"
    /\ UNCHANGED <<listenning_, idleFd_, client>>

-----------------------------------------------------------------------------
Connect(c) ==
    /\ client[c] = "none" /\ listenning_
    /\ client' = [client EXCEPT ![c] = "queued"]
    /\ UNCHANGED <<listenning_, idleFd_, owner, pc, wrong>>

Leave(c) ==
    /\ client[c] = "queued" /\ client' = [client EXCEPT ![c] = "left"]
    /\ UNCHANGED <<listenning_, idleFd_, owner, pc, wrong>>

(* The user of a connection closes it.                                     *)
Close(c) ==
    /\ client[c] = "handed" /\ client' = [client EXCEPT ![c] = "closed"]
    /\ owner' = [f \in Fds |-> IF owner[f] = c THEN "free" ELSE owner[f]]
    /\ UNCHANGED <<listenning_, idleFd_, pc, wrong>>

OtherOpens ==
    /\ Free # {} /\ stolen' = (stolen \/ pc \notin {"poll", "ready"})
    /\ owner' = [owner EXCEPT ![Lowest] = "other"]
    /\ UNCHANGED <<listenning_, newConnectionCallback_, idleFd_, client, pc, wrong>>

OtherCloses(f) ==
    /\ owner[f] = "other" /\ owner' = [owner EXCEPT ![f] = "free"]
    /\ UNCHANGED <<listenning_, idleFd_, client, pc, wrong>>

-----------------------------------------------------------------------------
handleRead == \/ AcceptOk \/ AcceptFails \/ MakeRoom \/ AcceptAgain
              \/ DropClient \/ Reopen

Quietly(steps) == steps /\ UNCHANGED <<newConnectionCallback_, stolen>>

Next == \/ Quietly(\/ listen \/ Ready \/ handleRead \/ AcceptFatal \/ Destroy
                   \/ \E f \in Fds : OtherCloses(f)
                   \/ \E c \in Conns : Connect(c) \/ Leave(c) \/ Close(c))
        \/ OtherOpens

(* handleRead() is called as long as poll(2) reports a client.             *)
Spec == /\ Init /\ [][Next]_vars
        /\ WF_vars(Quietly(Ready)) /\ WF_vars(Quietly(handleRead))

-----------------------------------------------------------------------------
(* handleRead() never closes a descriptor that another thread has got in   *)
(* the meantime, whichever of its four calls fail.                         *)
ClosesOwnOnly == ~wrong

(* No descriptor is lost: outside handleRead() the acceptor has the one in *)
(* idleFd_, or none, and every other open one has another owner.           *)
NoLeak ==
    /\ pc \in {"poll", "ready", "failed"} =>
          {f \in Fds : owner[f] = "idle"} = {idleFd_} \ {NoFd}
    /\ pc = "destroyed" => \A f \in Fds : owner[f] # "idle"
    /\ \A c \in Conns : (client[c] = "handed") = (\E f \in Fds : owner[f] = c)

(* As long as no other thread opens one inside handleRead(), the reserve   *)
(* is there whenever handleRead() begins, and so at the limit of           *)
(* descriptors every client that waits is still turned away: level-        *)
(* triggered poll(2) is not left reporting the same client for ever.       *)
ReserveHeld == ~stolen /\ pc \in {"poll", "ready", "failed"} => idleFd_ # NoFd

(* All of these.                                                           *)
DescriptorsKept == TypeOK /\ ClosesOwnOnly /\ NoLeak /\ ReserveHeld

BacklogMoves ==
    \A c \in Conns : client[c] = "queued" ~>
        client[c] # "queued" \/ stolen \/ pc \in {"destroyed", "aborted"}
=============================================================================
