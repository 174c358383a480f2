---------------------------- MODULE MCPollPoller ----------------------------
(***************************************************************************)
(* Instances of PollPoller for TLC: three channels with descriptors of     *)
(* their own (0 among them, the one that cannot be negated) and one that   *)
(* takes over the descriptor of another.                                   *)
(***************************************************************************)
EXTENDS PollPoller

CONSTANTS acceptor, first, second, successor

MCChannels == {acceptor, first, second, successor}

MCFd == [c \in MCChannels |-> CASE c = acceptor -> 0
                                [] c = second -> 2
                                [] OTHER -> 1]

=============================================================================
