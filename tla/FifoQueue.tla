------------------------------ MODULE FifoQueue ------------------------------
(***************************************************************************)
(* What the blocking queues promise, as if put() and take() were one step  *)
(* each: items leave in the order they came, each to one consumer, and     *)
(* there are never more than Capacity inside.                              *)
(***************************************************************************)
EXTENDS Sequences, Naturals

CONSTANTS Items, Consumers, Capacity

VARIABLES queue, came, got

vars == <<queue, came, got>>

Init == queue = <<>> /\ came = {} /\ got = [c \in Consumers |-> <<>>]

Put(x) ==
    /\ x \notin came /\ Len(queue) < Capacity
    /\ queue' = Append(queue, x) /\ came' = came \cup {x}
    /\ UNCHANGED got

Take(c) ==
    /\ queue # <<>>
    /\ queue' = Tail(queue)
    /\ got' = [got EXCEPT ![c] = Append(@, Head(queue))]
    /\ UNCHANGED came

Next == (\E x \in Items : Put(x)) \/ (\E c \in Consumers : Take(c))

Spec == Init /\ [][Next]_vars
=============================================================================
