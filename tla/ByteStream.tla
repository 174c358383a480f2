----------------------------- MODULE ByteStream -----------------------------
(***************************************************************************)
(* What Buffer promises: a sequence of bytes that grows at both ends and   *)
(* shrinks at the front, where it can be read as a string, as a line or as *)
(* a signed integer in network order.                                      *)
(***************************************************************************)
EXTENDS Integers, Sequences, FiniteSets

CONSTANTS Byte,     \* 0..255 in the code
          Data,     \* what callers write: a set of sequences of bytes
          Widths,   \* the sizes of integers, 1, 2 and 4 in the code
          CR, LF

VARIABLES bytes,    \* the contents
          call      \* the last call: its name, its argument and its result

Base == Cardinality(Byte)
IntOf(w) == -(Base ^ w \div 2)..((Base ^ w - 1) \div 2)

IsInt(x, digits) ==
    \A i \in 1..Len(digits) :
        digits[i] = (x \div Base ^ (Len(digits) - i)) % Base

IsLine(s) ==
    /\ Len(s) >= 2 /\ s[Len(s) - 1] = CR /\ s[Len(s)] = LF
    /\ \A i \in 1..(Len(s) - 2) : <<s[i], s[i + 1]>> # <<CR, LF>>

Front(n) == SubSeq(bytes, 1, n)
Drop(n) == bytes' = SubSeq(bytes, n + 1, Len(bytes))

Init == bytes = <<>> /\ call = <<"Buffer">>

Write(d) ==
    \/ bytes' = bytes \o d /\ call' = <<"append", d>>
    \/ bytes' = d \o bytes /\ call' = <<"prepend", d>>

WriteInt(w, x) ==
    \E d \in [1..w -> Byte] :
        /\ IsInt(x, d)
        /\ \/ bytes' = bytes \o d /\ call' = <<"appendInt", x>>
           \/ bytes' = d \o bytes /\ call' = <<"prependInt", x>>

Read(n) ==
    /\ Drop(n)
    /\ \/ call' = <<"retrieve", Front(n)>>
       \/ IsLine(Front(n)) /\ call' = <<"line", Front(n)>>

ReadInt(w, x) ==
    /\ w <= Len(bytes) /\ IsInt(x, Front(w)) /\ Drop(w) /\ call' = <<"readInt", x>>

(* No line is there, or only room is made or given up.                     *)
Other == UNCHANGED bytes /\ call' \in {<<"no line">>, <<"room">>}

Next == \/ \E d \in Data : Write(d)
        \/ \E w \in Widths : \E x \in IntOf(w) : WriteInt(w, x) \/ ReadInt(w, x)
        \/ \E n \in 0..Len(bytes) : Read(n)
        \/ Other

Spec == Init /\ [][Next]_<<bytes, call>>
=============================================================================
