----------------------------- MODULE MCTcpServer -----------------------------
(***************************************************************************)
(* TcpServer with a pool of two threads, one and none, and its Acceptor,   *)
(* each by itself: a behaviour is one of the subject's, the other one does *)
(* not move.                                                               *)
(***************************************************************************)
EXTENDS TcpServer

CONSTANTS l1, l2, Limit

MCPools == {<<l1, l2>>, <<l1>>, <<>>}

VARIABLES subject,
          listenning_, newConnectionCallback_, idleFd_, owner, client,
          handling, wrong, stolen

acceptor == <<listenning_, newConnectionCallback_, idleFd_, owner, client, handling,
              wrong, stolen>>
A == INSTANCE Acceptor WITH pc <- handling

ASSUME LimitAssumption == A!AcceptorAssumption

MCInit == subject \in {"TcpServer", "Acceptor"} /\ Init /\ A!Init

MCNext ==
    \/ subject = "TcpServer" /\ Next /\ UNCHANGED <<subject, acceptor>>
    \/ subject = "Acceptor" /\ A!Next /\ UNCHANGED <<subject, vars>>

MCSpec ==
    /\ MCInit /\ [][MCNext]_<<subject, vars, acceptor>>
    /\ WF_vars(subject = "TcpServer" /\ Kept(Destructor))
    /\ \A l \in Threads : WF_vars(subject = "TcpServer" /\ Thread(l))
    /\ WF_acceptor(subject = "Acceptor" /\ A!Quietly(A!Ready))
    /\ WF_acceptor(subject = "Acceptor" /\ A!Quietly(A!handleRead))

-----------------------------------------------------------------------------
(* Acceptor.cc:55-68: no foreign descriptor is closed, none is lost and    *)
(* the reserve is held, whatever other threads do in between.              *)
DescriptorsKept == A!DescriptorsKept

(* A connection that went down is destroyed, the destructor gets through,  *)
(* and the acceptor's backlog does not get stuck.                          *)
NobodyLeftBehind == ClosedIsDestroyed /\ DestructorReturns /\ A!BacklogMoves
=============================================================================
