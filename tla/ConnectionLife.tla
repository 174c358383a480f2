--------------------------- MODULE ConnectionLife ---------------------------
(***************************************************************************)
(* What a user of TcpServer may rely on: each connection is                *)
(* reported up once, then down once, and only after that is it taken out   *)
(* of its poller; no connection is taken apart that was never set up.      *)
(***************************************************************************)
CONSTANT Conns

VARIABLE phase

Init == phase = [c \in Conns |-> "none"]

Step(c, from, to) ==
    phase[c] = from /\ phase' = [phase EXCEPT ![c] = to]

Next == \E c \in Conns : \/ Step(c, "none", "connecting")
                         \/ Step(c, "none", "up")   \* accepted by its own loop
                         \/ Step(c, "connecting", "up")
                         \/ Step(c, "up", "down")
                         \/ Step(c, "down", "destroyed")
                         \/ Step(c, "up", "destroyed")   \* connectDestroyed
                                                         \* reports down itself

Spec == Init /\ [][Next]_phase
=============================================================================
