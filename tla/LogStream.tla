------------------------------ MODULE LogStream ------------------------------
(***************************************************************************)
(* muduo::LogStream over its FixedBuffer: what is streamed is formatted in *)
(* place when there is room, and dropped when there is not.  Characters of *)
(* strings are not told apart.                                             *)
(***************************************************************************)
EXTENDS Integers, Sequences, SequencesExt

CONSTANTS SIZE, kMaxNumericSize,
          Lens,        \* the lengths of strings
          Values,      \* the integers streamed
          Pointers,    \* the addresses streamed
          DoubleLens,  \* what "%.12g" prints for a double
          MaxItems     \* bound: items streamed into one buffer

VARIABLES data,        \* data_ up to cur_
          written,     \* history: bytes of data_ ever written to, a last '\0'
                       \* included,
          items,       \* what has been taken, and where it is,
          streamed     \* and how many were streamed since reset()

vars == <<data, written, items, streamed>>

(* Characters: the digits 0 to 15, and the others that occur.              *)
Minus == 16
X == 17
Letter == 18

Digit == <<9, 8, 7, 6, 5, 4, 3, 2, 1, 0, 1, 2, 3, 4, 5, 6, 7, 8, 9>>
zero == [lsd \in -9..9 |-> Digit[lsd + 10]]
DigitHex == [lsd \in 0..15 |-> lsd]

(* i / b and i % b of C++, which round towards zero.                       *)
Quot(i, b) == IF i < 0 THEN -((-i) \div b) ELSE i \div b
Rem(i, b) == i - b * Quot(i, b)

(* The do loop, least significant digit first, and std::reverse().         *)
Loop(value, b, digit) ==
    LET digits[i \in Int] == <<digit[Rem(i, b)]>> \o
                                 IF Quot(i, b) = 0 THEN <<>> ELSE digits[Quot(i, b)]
    IN  digits[value]

convert(value) ==
    Reverse(Loop(value, 10, zero) \o IF value < 0 THEN <<Minus>> ELSE <<>>)
convertHex(value) == Reverse(Loop(value, 16, DigitHex))

(* staticCheck(): a number and its '\0' fit into kMaxNumericSize.          *)
staticCheck ==
    /\ \A v \in Values : Len(convert(v)) < kMaxNumericSize
    /\ \A v \in Pointers : Len(convertHex(v)) + 2 < kMaxNumericSize
    /\ \A n \in DoubleLens : n < kMaxNumericSize

-----------------------------------------------------------------------------
Init == data = <<>> /\ written = 0 /\ items = <<>> /\ streamed = 0

avail == SIZE - Len(data)

(* The text, at current(), followed by extra bytes that are not counted.   *)
Put(text, kind, value, extra) ==
    LET end == Len(data) + Len(text)
    IN  /\ data' = data \o text
        /\ written' = IF end + extra > written THEN end + extra ELSE written
        /\ items' = Append(items, [kind |-> kind, value |-> value,
                                   from |-> Len(data) + 1, to |-> end])

Streamed == streamed < MaxItems /\ streamed' = streamed + 1
Drop == UNCHANGED <<data, written, items>>

Fits(n) == avail > n

(* append(), for bool, char, strings, StringPiece and Fmt.                 *)
append(n) ==
    /\ Streamed
    /\ \/ Fits(n) /\ Put([i \in 1..n |-> Letter], "text", n, 0)
       \/ ~Fits(n) /\ Drop

formatInteger(v) ==
    /\ Streamed
    /\ \/ avail > kMaxNumericSize /\ Put(convert(v), "int", v, 1)
       \/ ~(avail > kMaxNumericSize) /\ Drop

RoomForPointer == avail >= kMaxNumericSize

Pointer(v) ==
    /\ Streamed
    /\ \/ RoomForPointer /\ Put(<<0, X>> \o convertHex(v), "pointer", v, 1)
       \/ ~RoomForPointer /\ Drop

(* operator<<(double): snprintf() may use kMaxNumericSize bytes.           *)
Double(n) ==
    /\ Streamed
    /\ \/ avail > kMaxNumericSize /\ Put([i \in 1..n |-> Letter], "text", n, 1)
       \/ ~(avail > kMaxNumericSize) /\ Drop

debugString ==
    /\ written' = IF Len(data) + 1 > written THEN Len(data) + 1 ELSE written
    /\ UNCHANGED <<data, items, streamed>>

resetBuffer == data' = <<>> /\ items' = <<>> /\ streamed' = 0 /\ UNCHANGED written

Next == \/ \E n \in Lens : append(n)
        \/ \E v \in Values : formatInteger(v)
        \/ \E v \in Pointers : Pointer(v)
        \/ \E n \in DoubleLens : Double(n)
        \/ debugString \/ resetBuffer

Spec == Init /\ [][Next]_vars

-----------------------------------------------------------------------------
TypeOK == /\ data \in Seq(0..Letter)
          /\ written \in Nat /\ streamed \in 0..MaxItems /\ Len(items) <= streamed

(* Nothing is ever written behind data_, neither the '\0' of a number nor  *)
(* that of debugString(), however full the buffer is.                      *)
NoOverflow == written <= SIZE /\ Len(data) < SIZE

ValueOf(digits, base) == FoldLeft(LAMBDA v, d : base * v + d, 0, digits)

(* digits are those of n, without a leading zero.                          *)
Denotes(digits, base, n) ==
    /\ digits # <<>> /\ \A i \in DOMAIN digits : digits[i] \in 0..(base - 1)
    /\ digits[1] = 0 => Len(digits) = 1
    /\ ValueOf(digits, base) = n

(* The buffer is what was taken, item behind item, and each number there   *)
(* reads as its value, the least one of its type included.                 *)
TextExact ==
    /\ \A i \in DOMAIN items :
          /\ items[i].from = IF i = 1 THEN 1 ELSE items[i - 1].to + 1
          /\ LET text == SubSeq(data, items[i].from, items[i].to)
                 v == items[i].value
             IN  CASE items[i].kind = "text" -> text = [k \in 1..v |-> Letter]
                   [] items[i].kind = "int" /\ v >= 0 -> Denotes(text, 10, v)
                   [] items[i].kind = "int" /\ v < 0 ->
                         text[1] = Minus /\ Denotes(Tail(text), 10, -v)
                   [] items[i].kind = "pointer" ->
                         /\ SubSeq(text, 1, 2) = <<0, X>>
                         /\ Denotes(SubSeq(text, 3, Len(text)), 16, v)
    /\ Len(data) = IF items = <<>> THEN 0 ELSE items[Len(items)].to
=============================================================================
