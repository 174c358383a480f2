---------------------------- MODULE BufferProofs ----------------------------
(***************************************************************************)
(* Theorems about Buffer, for any byte set, data, widths, sizes and bound: *)
(* no assertion about space fails, the vector's size stays bounded, and    *)
(* every public function does to the contents what ByteStream says.  Each  *)
(* function of Buffer has a lemma on what it does to a valid buffer.       *)
(*                                                                         *)
(* Below them are the theorems about who parses what an input buffer has:  *)
(* the HTTP server, for any lines, and the Inspector, for any threads,     *)
(* commands and paths (MCHttp).                                            *)
(***************************************************************************)
EXTENDS Buffer, MCHttp, SequenceTheorems, FiniteSetTheorems, WellFoundedInduction,
        NaturalsInduction, TLAPS

(* A buffer the class can be in.  retrieveAll() puts both indices at       *)
(* kCheapPrepend, so the vector is never shorter than that.                *)
Valid(b) ==
    /\ b \in [buffer_ : Seq(Byte), readerIndex_ : Nat, writerIndex_ : Nat]
    /\ b.readerIndex_ <= b.writerIndex_ /\ b.writerIndex_ <= Len(b.buffer_)
    /\ kCheapPrepend <= Len(b.buffer_)

Bound == kCheapPrepend + kInitialSize + 2 * MaxReadable

(* The inductive invariant: BufferSafe needs that the indices can be reset,*)
(* and the bound on the vector follows from the one on the contents.       *)
IInv == BufferSafe /\ kCheapPrepend <= Len(buf.buffer_) /\ readableBytes(buf) <= MaxReadable

(* The bytes are 0..Base - 1.                                              *)
LEMMA BaseFacts == Base \in Nat /\ Base > 0 /\ Byte = 0 .. (Base - 1) /\ 0 \in Byte
BY BufferAssumption, FS_CardinalityType DEF Base

(* A function on 1..n is a sequence.                                       *)
LEMMA FunctionIsSeq ==
    ASSUME NEW S, NEW n \in Nat, NEW f \in [1..n -> S]
    PROVE  f \in Seq(S) /\ Len(f) = n
OBVIOUS

(* What a fresh part of the vector holds, ...                              *)
LEMMA ZerosFacts ==
    ASSUME NEW n \in Nat
    PROVE  Zeros(n) \in Seq(Byte) /\ Len(Zeros(n)) = n
<1>1. Zeros(n) \in [1..n -> Byte]
  BY BaseFacts DEF Zeros
<1> QED BY <1>1, FunctionIsSeq

(* ... what std::copy leaves in it, ...                                    *)
LEMMA CopyFacts ==
    ASSUME NEW s \in Seq(Byte), NEW d \in Seq(Byte), NEW at \in Nat,
           at + Len(d) <= Len(s)
    PROVE  /\ copy(s, d, at) \in Seq(Byte) /\ Len(copy(s, d, at)) = Len(s)
           /\ \A i \in 1..Len(s) :
                 copy(s, d, at)[i] = IF at < i /\ i <= at + Len(d) THEN d[i - at] ELSE s[i]
<1>1. Len(s) \in Nat /\ Len(d) \in Nat
  BY LenProperties
<1>2. ASSUME NEW i \in 1..Len(s)
      PROVE  (IF i \in (at + 1)..(at + Len(d)) THEN d[i - at] ELSE s[i]) \in Byte
  <2>1. CASE i \in (at + 1)..(at + Len(d))
    <3>1. i - at \in 1..Len(d)
      BY <1>1, <2>1
    <3> QED BY <2>1, <3>1, ElementOfSeq
  <2>2. CASE i \notin (at + 1)..(at + Len(d))
    BY <2>2, ElementOfSeq
  <2> QED BY <2>1, <2>2
<1>3. copy(s, d, at) \in [1..Len(s) -> Byte]
  BY <1>2 DEF copy
<1> QED
  BY <1>1, <1>3, FunctionIsSeq DEF copy

(* ... and what an integer is written as.                                  *)
LEMMA HostFacts ==
    ASSUME NEW w \in Nat, NEW x \in Int
    PROVE  hostToNetwork(w, x) \in [1..w -> Byte] /\ hostToNetwork(w, x) \in Seq(Byte)
           /\ Len(hostToNetwork(w, x)) = w
<1>1. ASSUME NEW i \in 1..w PROVE (x \div Base ^ (w - i)) % Base \in Byte
  BY BaseFacts
<1>2. hostToNetwork(w, x) \in [1..w -> Byte]
  BY <1>1 DEF hostToNetwork
<1> QED
  BY <1>2, FunctionIsSeq

(* The contents of a valid buffer, byte by byte.                           *)
LEMMA ContentsFacts ==
    ASSUME NEW b, Valid(b)
    PROVE  /\ Len(b.buffer_) \in Nat /\ b.buffer_ \in Seq(Byte)
           /\ b.readerIndex_ \in Nat /\ b.writerIndex_ \in Nat
           /\ readableBytes(b) \in Nat /\ writableBytes(b) \in Nat
           /\ Contents(b) \in Seq(Byte) /\ Len(Contents(b)) = readableBytes(b)
           /\ \A i \in 1..readableBytes(b) : Contents(b)[i] = b.buffer_[b.readerIndex_ + i]
<1>1. /\ b.buffer_ \in Seq(Byte) /\ b.readerIndex_ \in Nat /\ b.writerIndex_ \in Nat
      /\ Len(b.buffer_) \in Nat
  BY LenProperties DEF Valid
<1>2. readableBytes(b) \in Nat /\ writableBytes(b) \in Nat
  BY <1>1 DEF Valid, readableBytes, writableBytes
<1>3. b.readerIndex_ + 1 \in 1..(Len(b.buffer_) + 1) /\ b.writerIndex_ \in b.readerIndex_..Len(b.buffer_)
  BY <1>1 DEF Valid
<1>4. /\ Contents(b) \in Seq(Byte) /\ Len(Contents(b)) = readableBytes(b)
      /\ \A i \in 1..readableBytes(b) : Contents(b)[i] = b.buffer_[b.readerIndex_ + i]
  BY <1>1, <1>2, <1>3 DEF Valid, Contents, readableBytes
<1> QED
  BY <1>1, <1>2, <1>4

(* resize() to a larger size appends zeros.                                *)
LEMMA Resized ==
    ASSUME NEW t \in Seq(Byte), NEW n \in Nat, Len(t) < n
    PROVE  resize(t, n) = t \o Zeros(n - Len(t))
BY DEF resize

(* ensureWritableBytes() and makeSpace() keep the contents, give the room  *)
(* asked for, satisfy their assertions, and grow the vector no further than*)
(* twice the request beyond the contents.                                  *)
LEMMA SpaceFacts ==
    ASSUME NEW b, Valid(b), NEW len \in Nat
    PROVE  LET e == ensureWritableBytes(b, len)
           IN  /\ Valid(e) /\ Contents(e) = Contents(b) /\ readableBytes(e) = readableBytes(b)
               /\ writableBytes(e) >= len /\ SpaceAsserts(b, len)
               /\ \/ Len(e.buffer_) = Len(b.buffer_)
                  \/ Len(e.buffer_) <= kCheapPrepend + readableBytes(b) + 2 * len
<1> DEFINE e == ensureWritableBytes(b, len)
           size == Len(b.buffer_)
           r == b.readerIndex_
           w == b.writerIndex_
<1>0. kCheapPrepend \in Nat
  BY BufferAssumption
<1>1. /\ size \in Nat /\ r \in Nat /\ w \in Nat /\ r <= w /\ w <= size /\ kCheapPrepend <= size
      /\ b.buffer_ \in Seq(Byte) /\ b = [buffer_ |-> b.buffer_, readerIndex_ |-> r, writerIndex_ |-> w]
      /\ readableBytes(b) = w - r /\ writableBytes(b) = size - w /\ prependableBytes(b) = r
      /\ Contents(b) \in Seq(Byte) /\ Len(Contents(b)) = w - r
      /\ \A i \in 1..(w - r) : Contents(b)[i] = b.buffer_[r + i]
  BY ContentsFacts DEF Valid, readableBytes, writableBytes, prependableBytes
<1> SUFFICES /\ Valid(e) /\ Contents(e) = Contents(b) /\ readableBytes(e) = w - r
             /\ writableBytes(e) >= len
             /\ writableBytes(b) < len /\ ~Grows(b, len) => kCheapPrepend < r
             /\ \/ Len(e.buffer_) = size
                \/ Len(e.buffer_) <= kCheapPrepend + (w - r) + 2 * len
  BY <1>1 DEF SpaceAsserts
<1> HIDE DEF size, r, w
<1>2. CASE ~(size - w < len)
  <2>1. e = b
    BY <1>1, <1>2 DEF ensureWritableBytes
  <2> QED
    BY <1>0, <1>1, <1>2, <2>1 DEF size
<1>3. CASE size - w < len /\ Grows(b, len)
  <2> DEFINE z == Zeros((w + len) - size)
             s == b.buffer_ \o z
  <2>1. (w + len) - size \in Nat /\ size < w + len
    BY <1>1, <1>3
  <2>2. e = [b EXCEPT !.buffer_ = s]
    <3>1. resize(b.buffer_, w + len) = s
      <4>1. size = Len(b.buffer_)
        BY DEF size
      <4>2. b.buffer_ \in Seq(Byte) /\ w + len \in Nat /\ Len(b.buffer_) < w + len
        BY <1>1, <2>1, <4>1
      <4>3. resize(b.buffer_, w + len) = b.buffer_ \o Zeros((w + len) - Len(b.buffer_))
        BY <4>2, Resized
      <4> QED BY <4>1, <4>3
    <3>2. e = [b EXCEPT !.buffer_ = resize(b.buffer_, w + len)]
      BY <1>1, <1>3 DEF ensureWritableBytes, makeSpace, w
    <3> QED BY <3>1, <3>2
  <2>3. /\ s \in Seq(Byte) /\ Len(s) = w + len
        /\ \A i \in 1..size : s[i] = b.buffer_[i]
    <3>1. z \in Seq(Byte) /\ Len(z) = (w + len) - size
      BY <2>1, ZerosFacts
    <3> HIDE DEF z
    <3>2. b.buffer_ \in Seq(Byte) /\ Len(b.buffer_) = size /\ size \in Nat
      BY <1>1 DEF size
    <3>3. s \in Seq(Byte) /\ Len(s) = size + Len(z)
      BY <3>1, <3>2, ConcatProperties
    <3>4. \A i \in 1..size : s[i] = b.buffer_[i]
      BY <3>1, <3>2, ConcatProperties
    <3> QED
      BY <1>1, <3>1, <3>3, <3>4
  <2> HIDE DEF s
  <2>4. e.buffer_ = s /\ e.readerIndex_ = r /\ e.writerIndex_ = w
        /\ e \in [buffer_ : Seq(Byte), readerIndex_ : Nat, writerIndex_ : Nat]
    BY <1>1, <2>2, <2>3 DEF r, w
  <2> HIDE DEF e
  <2>5. Valid(e)
    BY <1>0, <1>1, <2>1, <2>3, <2>4 DEF Valid
  <2>6. Contents(e) = Contents(b)
    <3>1. /\ Contents(e) \in Seq(Byte) /\ Len(Contents(e)) = w - r
          /\ \A i \in 1..(w - r) : Contents(e)[i] = s[r + i]
      BY <2>4, <2>5, ContentsFacts DEF readableBytes
    <3>2. \A i \in 1..(w - r) : r + i \in 1..size
      BY <1>1
    <3>3. \A i \in 1..(w - r) : Contents(e)[i] = Contents(b)[i]
      BY <1>1, <2>3, <3>1, <3>2
    <3> QED
      BY <1>1, <3>1, <3>3, SeqEqual, ZenonT(60)
  <2>7. size - w + r < len + kCheapPrepend
    BY <1>1, <1>3 DEF Grows
  <2>8. w + len <= kCheapPrepend + (w - r) + 2 * len
    BY <1>0, <1>1, <2>7, SMTT(60)
  <2> QED
    BY <1>3, <2>1, <2>3, <2>4, <2>5, <2>6, <2>8 DEF readableBytes, writableBytes
<1>4. CASE size - w < len /\ ~Grows(b, len)
  <2>1. size - w + r >= len + kCheapPrepend
    BY <1>0, <1>1, <1>4 DEF Grows
  <2>2. kCheapPrepend < r
    BY <1>0, <1>1, <1>4, <2>1
  <2> DEFINE s == copy(b.buffer_, Contents(b), kCheapPrepend)
  <2>3. e = [buffer_ |-> s, readerIndex_ |-> kCheapPrepend, writerIndex_ |-> kCheapPrepend + (w - r)]
    BY <1>1, <1>4 DEF ensureWritableBytes, makeSpace
  <2>4. /\ s \in Seq(Byte) /\ Len(s) = size
        /\ \A i \in 1..size : s[i] = IF kCheapPrepend < i /\ i <= kCheapPrepend + (w - r)
                                    THEN Contents(b)[i - kCheapPrepend] ELSE b.buffer_[i]
    <3>1. kCheapPrepend + (w - r) <= size
      BY <1>0, <1>1, <2>2
    <3> QED
      BY <1>0, <1>1, <3>1, CopyFacts, SMTT(60) DEF size
  <2> HIDE DEF s
  <2>5. /\ e.buffer_ = s /\ e.readerIndex_ = kCheapPrepend /\ e.writerIndex_ = kCheapPrepend + (w - r)
        /\ e \in [buffer_ : Seq(Byte), readerIndex_ : Nat, writerIndex_ : Nat]
    BY <1>0, <1>1, <2>3, <2>4
  <2> HIDE DEF e
  <2>6. Valid(e)
    BY <1>0, <1>1, <2>2, <2>4, <2>5 DEF Valid
  <2>7. Contents(e) = Contents(b)
    <3>1. /\ Contents(e) \in Seq(Byte) /\ Len(Contents(e)) = w - r
          /\ \A i \in 1..(w - r) : Contents(e)[i] = s[kCheapPrepend + i]
      <4>1. readableBytes(e) = w - r
        BY <1>0, <1>1, <2>5 DEF readableBytes
      <4> QED BY <2>5, <2>6, <4>1, ContentsFacts
    <3>2. ASSUME NEW i \in 1..(w - r)
          PROVE  Contents(e)[i] = Contents(b)[i]
      <4>1. /\ kCheapPrepend + i \in 1..size /\ kCheapPrepend < kCheapPrepend + i
            /\ kCheapPrepend + i <= kCheapPrepend + (w - r) /\ (kCheapPrepend + i) - kCheapPrepend = i
        BY <1>0, <1>1, <2>2
      <4>2. s[kCheapPrepend + i] = Contents(b)[(kCheapPrepend + i) - kCheapPrepend]
        BY <2>4, <4>1
      <4> QED BY <3>1, <4>1, <4>2
    <3> QED
      BY <1>1, <3>1, <3>2, SeqEqual, ZenonT(60)
  <2> QED
    BY <1>0, <1>1, <1>4, <2>1, <2>2, <2>4, <2>5, <2>6, <2>7 DEF readableBytes, writableBytes
<1> QED
  BY <1>1, <1>2, <1>3, <1>4

(* Copying to beginWrite() and hasWritten() append to the contents.        *)
LEMMA WrittenFacts ==
    ASSUME NEW b, Valid(b), NEW d \in Seq(Byte), Len(d) <= writableBytes(b)
    PROVE  LET h == hasWritten(b, d)
           IN  /\ Valid(h) /\ Contents(h) = Contents(b) \o d
               /\ readableBytes(h) = readableBytes(b) + Len(d)
               /\ writableBytes(h) = writableBytes(b) - Len(d)
               /\ Len(h.buffer_) = Len(b.buffer_)
<1> DEFINE h == hasWritten(b, d)
           size == Len(b.buffer_)
           r == b.readerIndex_
           w == b.writerIndex_
           s == copy(b.buffer_, d, w)
<1>1. /\ size \in Nat /\ r \in Nat /\ w \in Nat /\ r <= w /\ w <= size /\ kCheapPrepend <= size
      /\ b.buffer_ \in Seq(Byte)
      /\ b = [buffer_ |-> b.buffer_, readerIndex_ |-> r, writerIndex_ |-> w]
      /\ readableBytes(b) = w - r /\ writableBytes(b) = size - w
      /\ Contents(b) \in Seq(Byte) /\ Len(Contents(b)) = w - r
      /\ \A i \in 1..(w - r) : Contents(b)[i] = b.buffer_[r + i]
  BY ContentsFacts DEF Valid, readableBytes, writableBytes
<1>2. Len(d) \in Nat /\ w + Len(d) <= size
  BY <1>1, LenProperties
<1>3. h = [buffer_ |-> s, readerIndex_ |-> r, writerIndex_ |-> w + Len(d)]
  <2>1. h = [b EXCEPT !.buffer_ = s, !.writerIndex_ = w + Len(d)]
    BY DEF hasWritten
  <2> HIDE DEF s, h
  <2> QED BY <1>1, <2>1
<1>4. /\ s \in Seq(Byte) /\ Len(s) = size
      /\ \A i \in 1..size :
            s[i] = IF w < i /\ i <= w + Len(d) THEN d[i - w] ELSE b.buffer_[i]
  BY <1>1, <1>2, CopyFacts
<1> HIDE DEF s, r, w, size
<1>5. /\ h.buffer_ = s /\ h.readerIndex_ = r /\ h.writerIndex_ = w + Len(d)
      /\ h \in [buffer_ : Seq(Byte), readerIndex_ : Nat, writerIndex_ : Nat]
  BY <1>1, <1>2, <1>3, <1>4
<1> HIDE DEF h
<1>6. Valid(h) /\ readableBytes(h) = (w - r) + Len(d) /\ writableBytes(h) = (size - w) - Len(d)
  BY <1>1, <1>2, <1>4, <1>5 DEF Valid, readableBytes, writableBytes
<1>7. Contents(h) = Contents(b) \o d
  <2> DEFINE c == Contents(b) \o d
  <2>1. /\ c \in Seq(Byte) /\ Len(c) = (w - r) + Len(d)
        /\ \A i \in 1..((w - r) + Len(d)) :
              c[i] = IF i <= w - r THEN Contents(b)[i] ELSE d[i - (w - r)]
    BY <1>1, <1>2, ConcatProperties
  <2> HIDE DEF c
  <2>2. /\ Contents(h) \in Seq(Byte) /\ Len(Contents(h)) = (w - r) + Len(d)
        /\ \A i \in 1..((w - r) + Len(d)) : Contents(h)[i] = s[r + i]
    BY <1>5, <1>6, ContentsFacts
  <2>3. ASSUME NEW i \in 1..((w - r) + Len(d))
        PROVE  Contents(h)[i] = c[i]
    <3>1. i \in Int /\ r + i \in 1..size /\ r + i <= w + Len(d)
      BY <1>1, <1>2
    <3>2. CASE i <= w - r
      <4>1. ~(w < r + i) /\ i \in 1..(w - r)
        BY <1>1, <3>1, <3>2
      <4> QED BY <1>1, <1>4, <2>1, <2>2, <3>1, <3>2, <4>1
    <3>3. CASE ~(i <= w - r)
      <4>1. w < r + i /\ (r + i) - w = i - (w - r)
        BY <1>1, <3>1, <3>3
      <4> QED BY <1>4, <2>1, <2>2, <3>1, <3>3, <4>1
    <3> QED BY <3>2, <3>3
  <2> QED
    BY <2>1, <2>2, <2>3, SeqEqual DEF c
<1> QED
  BY <1>1, <1>4, <1>5, <1>6, <1>7 DEF size, h

(* append() appends.                                                       *)
LEMMA AppendFacts ==
    ASSUME NEW b, Valid(b), NEW d \in Seq(Byte)
    PROVE  LET a == append(b, d)
           IN  /\ Valid(a) /\ Contents(a) = Contents(b) \o d
               /\ readableBytes(a) = readableBytes(b) + Len(d)
               /\ \/ Len(a.buffer_) = Len(b.buffer_)
                  \/ Len(a.buffer_) <= kCheapPrepend + readableBytes(b) + 2 * Len(d)
<1> DEFINE e == ensureWritableBytes(b, Len(d))
<1>0. Len(d) \in Nat
  BY LenProperties
<1>1. /\ Valid(e) /\ Contents(e) = Contents(b) /\ readableBytes(e) = readableBytes(b)
      /\ writableBytes(e) >= Len(d)
      /\ \/ Len(e.buffer_) = Len(b.buffer_)
         \/ Len(e.buffer_) <= kCheapPrepend + readableBytes(b) + 2 * Len(d)
  BY <1>0, SpaceFacts
<1>2. append(b, d) = hasWritten(e, d)
  BY DEF append
<1> HIDE DEF e
<1>3. Len(d) <= writableBytes(e)
  BY <1>0, <1>1, ContentsFacts
<1> QED
  BY <1>1, <1>2, <1>3, WrittenFacts

(* prepend() prepends.                                                     *)
LEMMA PrependFacts ==
    ASSUME NEW b, Valid(b), NEW d \in Seq(Byte), Len(d) <= prependableBytes(b)
    PROVE  LET h == prepend(b, d)
           IN  /\ Valid(h) /\ Contents(h) = d \o Contents(b)
               /\ readableBytes(h) = readableBytes(b) + Len(d)
               /\ Len(h.buffer_) = Len(b.buffer_)
<1> DEFINE h == prepend(b, d)
           size == Len(b.buffer_)
           r == b.readerIndex_
           w == b.writerIndex_
           n == r - Len(d)
           s == copy(b.buffer_, d, n)
<1>1. /\ size \in Nat /\ r \in Nat /\ w \in Nat /\ r <= w /\ w <= size /\ kCheapPrepend <= size
      /\ b.buffer_ \in Seq(Byte)
      /\ b = [buffer_ |-> b.buffer_, readerIndex_ |-> r, writerIndex_ |-> w]
      /\ readableBytes(b) = w - r
      /\ Contents(b) \in Seq(Byte) /\ Len(Contents(b)) = w - r
      /\ \A i \in 1..(w - r) : Contents(b)[i] = b.buffer_[r + i]
  BY ContentsFacts DEF Valid, readableBytes
<1>2. Len(d) \in Nat /\ n \in Nat /\ n + Len(d) = r
  BY <1>1, LenProperties DEF prependableBytes
<1>3. h = [buffer_ |-> s, readerIndex_ |-> n, writerIndex_ |-> w]
  <2>1. h = [b EXCEPT !.buffer_ = s, !.readerIndex_ = n]
    BY DEF prepend
  <2> HIDE DEF s, h
  <2> QED BY <1>1, <2>1
<1> HIDE DEF n, size
<1>4. /\ s \in Seq(Byte) /\ Len(s) = size
      /\ \A i \in 1..size :
            s[i] = IF n < i /\ i <= n + Len(d) THEN d[i - n] ELSE b.buffer_[i]
  <2>1. n + Len(d) <= Len(b.buffer_)
    BY <1>1, <1>2 DEF size
  <2> QED
    BY <1>1, <1>2, <2>1, CopyFacts DEF size
<1> HIDE DEF s, r, w
<1>5. /\ h.buffer_ = s /\ h.readerIndex_ = n /\ h.writerIndex_ = w
      /\ h \in [buffer_ : Seq(Byte), readerIndex_ : Nat, writerIndex_ : Nat]
  BY <1>1, <1>2, <1>3, <1>4
<1> HIDE DEF h
<1>6. Valid(h) /\ readableBytes(h) = Len(d) + (w - r)
  <2>1. /\ r \in Nat /\ w \in Nat /\ r <= w /\ w <= size
        /\ kCheapPrepend <= size /\ Len(d) \in Nat /\ n \in Nat /\ n + Len(d) = r
    BY <1>1, <1>2
  <2>2. n <= w /\ w - n = Len(d) + (w - r)
    BY <2>1
  <2>3. Valid(h)
    BY <1>4, <1>5, <2>1, <2>2 DEF Valid
  <2>4. readableBytes(h) = w - n
    BY <1>5 DEF readableBytes
  <2> QED BY <2>2, <2>3, <2>4
<1>7. Contents(h) = d \o Contents(b)
  <2> DEFINE c == d \o Contents(b)
  <2>1. /\ c \in Seq(Byte) /\ Len(c) = Len(d) + (w - r)
        /\ \A i \in 1..(Len(d) + (w - r)) :
              c[i] = IF i <= Len(d) THEN d[i] ELSE Contents(b)[i - Len(d)]
    BY <1>1, <1>2, ConcatProperties
  <2> HIDE DEF c
  <2>2. /\ Contents(h) \in Seq(Byte) /\ Len(Contents(h)) = Len(d) + (w - r)
        /\ \A i \in 1..(Len(d) + (w - r)) : Contents(h)[i] = s[n + i]
    BY <1>5, <1>6, ContentsFacts
  <2>3. ASSUME NEW i \in 1..(Len(d) + (w - r))
        PROVE  Contents(h)[i] = c[i]
    <3>1. i \in Int /\ n + i \in 1..size
      BY <1>1, <1>2
    <3>2. CASE i <= Len(d)
      <4>1. n < n + i /\ n + i <= n + Len(d) /\ (n + i) - n = i
        BY <1>1, <1>2, <3>1, <3>2
      <4>2. s[n + i] = d[(n + i) - n]
        BY <1>4, <3>1, <4>1
      <4> QED BY <2>1, <2>2, <3>2, <4>1, <4>2
    <3>3. CASE ~(i <= Len(d))
      <4>1. ~(n + i <= n + Len(d)) /\ r + (i - Len(d)) = n + i /\ i - Len(d) \in 1..(w - r)
        <5>1. w - r \in Int /\ i <= Len(d) + (w - r)
          BY <1>1, <1>2
        <5>2. n \in Int /\ r \in Int /\ w \in Int /\ Len(d) \in Int /\ n + Len(d) = r
          BY <1>1, <1>2
        <5> QED BY <3>1, <3>3, <5>1, <5>2
      <4>2. s[n + i] = b.buffer_[n + i]
        BY <1>4, <3>1, <4>1
      <4>3. Contents(b)[i - Len(d)] = b.buffer_[r + (i - Len(d))]
        BY <1>1, <4>1
      <4> QED BY <2>1, <2>2, <3>3, <4>1, <4>2, <4>3
    <3> QED BY <3>2, <3>3
  <2> QED
    BY <2>1, <2>2, <2>3, SeqEqual DEF c
<1> QED
  BY <1>1, <1>2, <1>4, <1>5, <1>6, <1>7 DEF size, h

(* The end of a sequence, ...                                              *)
LEMMA SuffixFacts ==
    ASSUME NEW t \in Seq(Byte), NEW len \in Nat, len <= Len(t)
    PROVE  /\ SubSeq(t, len + 1, Len(t)) \in Seq(Byte)
           /\ Len(SubSeq(t, len + 1, Len(t))) = Len(t) - len
           /\ \A i \in 1..(Len(t) - len) : SubSeq(t, len + 1, Len(t))[i] = t[len + i]
<1>1. Len(t) \in Nat
  BY LenProperties
<1> QED
  BY <1>1

(* ... its front, ...                                                      *)
LEMMA PrefixFacts ==
    ASSUME NEW t \in Seq(Byte), NEW len \in Nat, len <= Len(t)
    PROVE  /\ SubSeq(t, 1, len) \in Seq(Byte)
           /\ Len(SubSeq(t, 1, len)) = len
           /\ \A i \in 1..len : SubSeq(t, 1, len)[i] = t[i]
<1>1. Len(t) \in Nat
  BY LenProperties
<1> QED
  BY <1>1

(* retrieve() removes from the front, also when it resets the indices.     *)
LEMMA RetrieveFacts ==
    ASSUME NEW b, Valid(b), NEW len \in Nat, len <= readableBytes(b)
    PROVE  LET h == retrieve(b, len)
           IN  /\ Valid(h) /\ Contents(h) = SubSeq(Contents(b), len + 1, Len(Contents(b)))
               /\ readableBytes(h) = readableBytes(b) - len
               /\ Len(h.buffer_) = Len(b.buffer_)
<1> DEFINE h == retrieve(b, len)
           size == Len(b.buffer_)
           r == b.readerIndex_
           w == b.writerIndex_
           c == SubSeq(Contents(b), len + 1, Len(Contents(b)))
<1>0. kCheapPrepend \in Nat
  BY BufferAssumption
<1>1. /\ size \in Nat /\ r \in Nat /\ w \in Nat /\ r <= w /\ w <= size /\ kCheapPrepend <= size
      /\ b.buffer_ \in Seq(Byte)
      /\ b = [buffer_ |-> b.buffer_, readerIndex_ |-> r, writerIndex_ |-> w]
      /\ readableBytes(b) = w - r
      /\ Contents(b) \in Seq(Byte) /\ Len(Contents(b)) = w - r
      /\ \A i \in 1..(w - r) : Contents(b)[i] = b.buffer_[r + i]
  BY ContentsFacts DEF Valid, readableBytes
<1>2. len <= w - r
  BY <1>1
<1>3. /\ c \in Seq(Byte) /\ Len(c) = (w - r) - len
      /\ \A i \in 1..((w - r) - len) : c[i] = Contents(b)[len + i]
  <2>1. len <= Len(Contents(b))
    BY <1>1, <1>2
  <2>2. Contents(b) \in Seq(Byte) /\ Len(Contents(b)) = w - r
    BY <1>1
  <2>3. /\ c \in Seq(Byte) /\ Len(c) = Len(Contents(b)) - len
        /\ \A i \in 1..(Len(Contents(b)) - len) : c[i] = Contents(b)[len + i]
    BY <2>1, <2>2, SuffixFacts
  <2> HIDE DEF c
  <2> QED
    BY <2>2, <2>3
<1>4. /\ h \in [buffer_ : Seq(Byte), readerIndex_ : Nat, writerIndex_ : Nat]
      /\ h.buffer_ = b.buffer_
      /\ \/ h.readerIndex_ = r + len /\ h.writerIndex_ = w
         \/ h.readerIndex_ = kCheapPrepend /\ h.writerIndex_ = kCheapPrepend /\ len = w - r
  <2> HIDE DEF r, w
  <2>1. CASE len < w - r
    <3>1. h = [b EXCEPT !.readerIndex_ = r + len]
      BY <1>1, <2>1 DEF retrieve, r
    <3> HIDE DEF h
    <3> QED BY <1>1, <3>1, SMTT(60)
  <2>2. CASE ~(len < w - r)
    <3>1. h = [b EXCEPT !.readerIndex_ = kCheapPrepend, !.writerIndex_ = kCheapPrepend]
      BY <1>1, <2>2 DEF retrieve
    <3>2. len = w - r
      BY <1>1, <1>2, <2>2
    <3> HIDE DEF h
    <3> QED BY <1>0, <1>1, <3>1, <3>2
  <2> QED BY <2>1, <2>2
<1> HIDE DEF h, r, w, size, c
<1>5. Valid(h) /\ readableBytes(h) = (w - r) - len
  BY <1>0, <1>1, <1>2, <1>4 DEF Valid, readableBytes, size
<1>6. Contents(h) = c
  <2>1. /\ Contents(h) \in Seq(Byte) /\ Len(Contents(h)) = (w - r) - len
        /\ \A i \in 1..((w - r) - len) : Contents(h)[i] = b.buffer_[h.readerIndex_ + i]
    BY <1>4, <1>5, ContentsFacts
  <2>2. ASSUME NEW i \in 1..((w - r) - len)
        PROVE  Contents(h)[i] = c[i]
    <3>1. /\ i \in Int /\ len + i \in 1..(w - r) /\ len # w - r
          /\ (r + len) + i = r + (len + i)
      BY <1>1, <1>2
    <3>2. h.readerIndex_ = r + len
      BY <1>4, <3>1
    <3>3. Contents(b)[len + i] = b.buffer_[r + (len + i)]
      BY <1>1, <3>1
    <3>4. Contents(h)[i] = b.buffer_[(r + len) + i]
      BY <2>1, <3>2
    <3>5. c[i] = Contents(b)[len + i]
      BY <1>3
    <3> QED BY <3>1, <3>3, <3>4, <3>5
  <2> QED
    BY <1>3, <2>1, <2>2, SeqEqual
<1> QED
  BY <1>1, <1>4, <1>5, <1>6 DEF size, h, c

(* A sequence is its front and its end together.                           *)
LEMMA SplitFacts ==
    ASSUME NEW t \in Seq(Byte), NEW n \in Nat, n <= Len(t)
    PROVE  SubSeq(t, 1, n) \o SubSeq(t, n + 1, Len(t)) = t
<1> DEFINE p == SubSeq(t, 1, n)
           q == SubSeq(t, n + 1, Len(t))
           c == p \o q
<1>0. Len(t) \in Nat
  BY LenProperties
<1>1. p \in Seq(Byte) /\ Len(p) = n /\ \A i \in 1..n : p[i] = t[i]
  BY PrefixFacts
<1>2. q \in Seq(Byte) /\ Len(q) = Len(t) - n /\ \A i \in 1..(Len(t) - n) : q[i] = t[n + i]
  BY SuffixFacts
<1> HIDE DEF p, q
<1>3. /\ c \in Seq(Byte) /\ Len(c) = Len(t)
      /\ \A i \in 1..Len(t) : c[i] = IF i <= n THEN p[i] ELSE q[i - n]
  BY <1>0, <1>1, <1>2, ConcatProperties
<1> HIDE DEF c
<1>4. ASSUME NEW i \in 1..Len(t) PROVE c[i] = t[i]
  <2>1. CASE i <= n
    BY <1>0, <1>1, <1>3, <2>1
  <2>2. CASE ~(i <= n)
    <3>1. i - n \in 1..(Len(t) - n) /\ n + (i - n) = i
      BY <1>0, <2>2
    <3> QED BY <1>2, <1>3, <2>2, <3>1
  <2> QED BY <2>1, <2>2
<1>5. c = t
  BY <1>3, <1>4, SeqEqual
<1> QED BY <1>5 DEF c, p, q

(* readFd() appends all that was read, whether or not it used extrabuf.    *)
LEMMA ReadFdFacts ==
    ASSUME NEW b, Valid(b), NEW d \in Seq(Byte)
    PROVE  LET h == readFd(b, d)
           IN  /\ Valid(h) /\ Contents(h) = Contents(b) \o d
               /\ readableBytes(h) = readableBytes(b) + Len(d)
               /\ \/ Len(h.buffer_) = Len(b.buffer_)
                  \/ Len(h.buffer_) <= kCheapPrepend + readableBytes(b) + 2 * Len(d)
<1> DEFINE n == writableBytes(b)
           f == hasWritten(b, SubSeq(d, 1, n))
           rest == SubSeq(d, n + 1, Len(d))
           h == readFd(b, d)
<1>1. n \in Nat /\ Len(d) \in Nat /\ readableBytes(b) \in Nat /\ kCheapPrepend \in Nat
      /\ Contents(b) \in Seq(Byte)
  BY ContentsFacts, LenProperties, BufferAssumption
<1>2. CASE Len(d) <= n
  <2>1. h = hasWritten(b, d)
    BY <1>2 DEF readFd
  <2> QED BY <1>2, <2>1, WrittenFacts
<1>3. CASE ~(Len(d) <= n)
  <2>1. h = append(f, rest)
    BY <1>3 DEF readFd
  <2>2. n <= Len(d)
    BY <1>1, <1>3
  <2> HIDE DEF n
  <2>3. SubSeq(d, 1, n) \in Seq(Byte) /\ Len(SubSeq(d, 1, n)) = n
    BY <1>1, <2>2, PrefixFacts
  <2>4. rest \in Seq(Byte) /\ Len(rest) = Len(d) - n
    BY <1>1, <2>2, SuffixFacts
  <2>5. SubSeq(d, 1, n) \o rest = d
    BY <1>1, <2>2, SplitFacts
  <2> DEFINE p == SubSeq(d, 1, n)
  <2> HIDE DEF rest, p
  <2>6. Len(p) <= writableBytes(b) /\ p \in Seq(Byte) /\ Len(p) = n
    BY <1>1, <2>3 DEF n, p
  <2>7. /\ Valid(f) /\ Contents(f) = Contents(b) \o p
        /\ readableBytes(f) = readableBytes(b) + Len(p)
        /\ Len(f.buffer_) = Len(b.buffer_)
    <3>1. f = hasWritten(b, p)
      BY DEF p
    <3> HIDE DEF f
    <3> QED BY <2>6, <3>1, WrittenFacts
  <2> HIDE DEF f, h
  <2>8. /\ Valid(h) /\ Contents(h) = Contents(f) \o rest
        /\ readableBytes(h) = readableBytes(f) + Len(rest)
        /\ \/ Len(h.buffer_) = Len(f.buffer_)
           \/ Len(h.buffer_) <= kCheapPrepend + readableBytes(f) + 2 * Len(rest)
    BY <2>1, <2>4, <2>7, AppendFacts
  <2>9. Contents(h) = Contents(b) \o d
    <3>1. (Contents(b) \o p) \o rest = Contents(b) \o (p \o rest)
      BY <1>1, <2>4, <2>6, ConcatAssociative, SMTT(60)
    <3> QED BY <2>5, <2>7, <2>8, <3>1 DEF p
  <2>10. Len(h.buffer_) \in Nat
    BY <2>8, ContentsFacts
  <2>11. Len(h.buffer_) = Len(b.buffer_) \/ Len(h.buffer_) <= kCheapPrepend + readableBytes(b) + 2 * Len(d)
    BY <1>1, <2>2, <2>4, <2>6, <2>7, <2>8, <2>10, SMTT(60)
  <2>12. readableBytes(h) = readableBytes(b) + Len(d)
    BY <1>1, <2>2, <2>4, <2>6, <2>7, <2>8
  <2> QED
    BY <2>8, <2>9, <2>11, <2>12 DEF h
<1> QED BY <1>2, <1>3

(* A new Buffer is empty.                                                  *)
LEMMA NewFacts ==
    /\ Valid(New) /\ Contents(New) = <<>> /\ readableBytes(New) = 0
    /\ Len(New.buffer_) = kCheapPrepend + kInitialSize
<1>1. kCheapPrepend \in Nat /\ kInitialSize \in Nat /\ kCheapPrepend + kInitialSize \in Nat
  BY BufferAssumption
<1> DEFINE z == Zeros(kCheapPrepend + kInitialSize)
<1>2. z \in Seq(Byte) /\ Len(z) = kCheapPrepend + kInitialSize
  BY <1>1, ZerosFacts
<1>3. New = [buffer_ |-> z, readerIndex_ |-> kCheapPrepend, writerIndex_ |-> kCheapPrepend]
  BY DEF New
<1> HIDE DEF z
<1>4. Valid(New) /\ readableBytes(New) = 0 /\ Len(New.buffer_) = kCheapPrepend + kInitialSize
  BY <1>1, <1>2, <1>3 DEF Valid, readableBytes
<1>5. Contents(New) \in Seq(Byte) /\ Len(Contents(New)) = 0
  BY <1>4, ContentsFacts
<1> QED
  BY <1>4, <1>5, EmptySeq

(* shrink() keeps the contents.                                            *)
LEMMA ShrunkFacts ==
    ASSUME NEW b, Valid(b), NEW reserve \in Nat
    PROVE  LET h == shrunk(b, reserve)
           IN  /\ Valid(h) /\ Contents(h) = Contents(b) /\ readableBytes(h) = readableBytes(b)
               /\ \/ Len(h.buffer_) = kCheapPrepend + kInitialSize
                  \/ Len(h.buffer_) <= kCheapPrepend + 2 * (readableBytes(b) + reserve)
<1> DEFINE n == readableBytes(b) + reserve
           e == ensureWritableBytes(New, n)
           h == shrunk(b, reserve)
<1>1. /\ n \in Nat /\ readableBytes(b) \in Nat /\ Contents(b) \in Seq(Byte)
      /\ Len(Contents(b)) = readableBytes(b) /\ kCheapPrepend \in Nat
  BY ContentsFacts, BufferAssumption
<1>2. h = append(e, Contents(b))
  BY DEF shrunk
<1> HIDE DEF n
<1>3. /\ Valid(e) /\ Contents(e) = <<>> /\ readableBytes(e) = 0
      /\ \/ Len(e.buffer_) = kCheapPrepend + kInitialSize
         \/ Len(e.buffer_) <= kCheapPrepend + 0 + 2 * n
  BY <1>1, NewFacts, SpaceFacts
<1> HIDE DEF e, h
<1>4. /\ Valid(h) /\ Contents(h) = Contents(e) \o Contents(b)
      /\ readableBytes(h) = readableBytes(e) + Len(Contents(b))
      /\ \/ Len(h.buffer_) = Len(e.buffer_)
         \/ Len(h.buffer_) <= kCheapPrepend + readableBytes(e) + 2 * Len(Contents(b))
  BY <1>1, <1>2, <1>3, AppendFacts
<1>5. Contents(h) = Contents(b)
  BY <1>1, <1>3, <1>4, ConcatEmptySeq
<1>6. Len(h.buffer_) \in Nat /\ Len(e.buffer_) \in Nat
  BY <1>3, <1>4, ContentsFacts
<1>7. Len(h.buffer_) = kCheapPrepend + kInitialSize \/ Len(h.buffer_) <= kCheapPrepend + 2 * n
  BY <1>1, <1>3, <1>4, <1>6 DEF n
<1> QED
  BY <1>1, <1>3, <1>4, <1>5, <1>7 DEF h, n

(* A set of naturals has a least element.                                  *)
LEMMA NatLeast ==
    ASSUME NEW T, T \subseteq Nat, T # {}
    PROVE  \E x \in T : \A y \in T : x <= y
<1>1. PICK x \in T : \A y \in T : <<y, x>> \notin OpToRel(<, Nat)
  BY WFMin, NatLessThanWellFounded, Zenon
<1>2. \A y \in T : ~(y < x)
  BY <1>1 DEF OpToRel
<1> QED BY <1>2

(* Up to the CRLF that findCRLF() returns there is one line, and not two.  *)
LEMMA LineFacts ==
    ASSUME NEW b, Valid(b), CRLFs(b) # {}
    PROVE  LET len == findCRLF(b) + 2 - b.readerIndex_
           IN  /\ findCRLF(b) # -1
               /\ len \in Nat /\ len <= readableBytes(b)
               /\ Stream!IsLine(SubSeq(Contents(b), 1, len))
<1> DEFINE r == b.readerIndex_
           w == b.writerIndex_
           m == findCRLF(b)
           len == m + 2 - r
           s == SubSeq(Contents(b), 1, len)
<1>1. /\ r \in Nat /\ w \in Nat /\ readableBytes(b) = w - r /\ r <= w
      /\ Contents(b) \in Seq(Byte) /\ Len(Contents(b)) = w - r
      /\ \A i \in 1..(w - r) : Contents(b)[i] = b.buffer_[r + i]
  BY ContentsFacts DEF Valid, readableBytes
<1>2. CRLFs(b) \subseteq Nat
  BY <1>1 DEF CRLFs
<1>3. m \in CRLFs(b) /\ \A x \in CRLFs(b) : m <= x
  BY <1>2, NatLeast DEF findCRLF, Min
<1> HIDE DEF m
<1>4. /\ m \in Nat /\ r <= m /\ m <= w - 2
      /\ b.buffer_[m + 1] = CR /\ b.buffer_[m + 2] = LF
  BY <1>1, <1>2, <1>3 DEF CRLFs
<1> HIDE DEF r, w
<1>5. len \in Nat /\ len <= w - r /\ len >= 2 /\ r + len = m + 2
  BY <1>1, <1>4
<1> HIDE DEF len
<1>6. s \in Seq(Byte) /\ Len(s) = len /\ \A i \in 1..len : s[i] = Contents(b)[i]
  BY <1>1, <1>5, PrefixFacts
<1> HIDE DEF s
<1>7. \A i \in 1..len : s[i] = b.buffer_[r + i]
  <2>1. ASSUME NEW i \in 1..len PROVE i \in 1..(w - r)
    BY <1>1, <1>5
  <2> QED BY <1>1, <1>6, <2>1
<1>8. s[len - 1] = CR /\ s[len] = LF
  <2>1. len - 1 \in 1..len /\ len \in 1..len /\ r + (len - 1) = m + 1 /\ r + len = m + 2
    BY <1>1, <1>4, <1>5
  <2> QED BY <1>4, <1>7, <2>1
<1>9. ASSUME NEW i \in 1..(len - 2), <<s[i], s[i + 1]>> = <<CR, LF>> PROVE FALSE
  <2>1. /\ i \in 1..len /\ i + 1 \in 1..len
        /\ r + (i + 1) = ((r + i) - 1) + 2 /\ r + i = ((r + i) - 1) + 1
    BY <1>1, <1>5
  <2>2. (r + i) - 1 \in r..(w - 2) /\ (r + i) - 1 < m
    BY <1>1, <1>4, <1>5
  <2>3. b.buffer_[r + i] = CR /\ b.buffer_[r + (i + 1)] = LF
    BY <1>7, <1>9, <2>1
  <2>4. (r + i) - 1 \in CRLFs(b)
    BY <2>1, <2>2, <2>3 DEF CRLFs, r, w
  <2> QED BY <1>1, <1>3, <1>4, <2>2, <2>4
<1>10. Stream!IsLine(s)
  <2>1. /\ Len(s) >= 2 /\ s[Len(s) - 1] = CR /\ s[Len(s)] = LF
    BY <1>5, <1>6, <1>8
  <2>2. \A i \in 1..(Len(s) - 2) : <<s[i], s[i + 1]>> # <<CR, LF>>
    BY <1>6, <1>9
  <2> QED BY <2>1, <2>2 DEF Stream!IsLine
<1>11. m # -1
  BY <1>4
<1> QED
  BY <1>1, <1>5, <1>10, <1>11 DEF m, len, s, r

(* The invariant is about a valid buffer.                                  *)
LEMMA InvValid == IInv <=> /\ Valid(buf) /\ failed = FALSE
                           /\ Len(buf.buffer_) <= Bound /\ readableBytes(buf) <= MaxReadable
BY DEF IInv, BufferSafe, TypeOK, SizeBounded, Valid, Bound

(* The constructor establishes the invariant, ...                          *)
LEMMA InitInv == Init => IInv
<1> SUFFICES ASSUME Init PROVE IInv
  OBVIOUS
<1>1. kCheapPrepend \in Nat /\ kInitialSize \in Nat /\ MaxReadable \in Nat
  BY BufferAssumption
<1>2. buf = New /\ failed = FALSE
  BY DEF Init
<1>3. Valid(buf) /\ readableBytes(buf) <= MaxReadable /\ Len(buf.buffer_) <= Bound
  BY <1>1, <1>2, NewFacts DEF Bound
<1> QED BY <1>2, <1>3, InvValid

(* ... and every public function keeps it.                                 *)
LEMMA NextInv == IInv /\ [Next]_vars => IInv'
<1> SUFFICES ASSUME IInv, [Next]_vars PROVE IInv'
  OBVIOUS
<1> DEFINE len == Len(buf.buffer_)
           n == readableBytes(buf)
<1>1. /\ kCheapPrepend \in Nat /\ kInitialSize \in Nat /\ MaxReadable \in Nat
      /\ Bound = kCheapPrepend + kInitialSize + 2 * MaxReadable
  BY BufferAssumption DEF Bound
<1>2. /\ Valid(buf) /\ failed = FALSE /\ len <= Bound /\ n <= MaxReadable
      /\ n \in Nat /\ len \in Nat
  BY InvValid, ContentsFacts
<1>3. \A d \in Data : d \in Seq(Byte) /\ Len(d) \in Nat
  BY BufferAssumption, LenProperties
<1>4. ASSUME NEW w \in Widths, NEW x \in IntOf(w)
      PROVE  w \in Nat /\ hostToNetwork(w, x) \in Seq(Byte) /\ Len(hostToNetwork(w, x)) = w
  <2>1. w \in Nat /\ x \in Int
    BY BufferAssumption DEF IntOf
  <2> QED BY <2>1, HostFacts
<1> HIDE DEF len, n
<1> DEFINE Kept == /\ Valid(buf') /\ failed' = FALSE /\ Len(buf'.buffer_) <= Bound
                   /\ readableBytes(buf') <= MaxReadable
<1> SUFFICES Kept
  BY DEF IInv, BufferSafe, TypeOK, SizeBounded, Valid, Bound, readableBytes
<1>5. ASSUME NEW d \in Seq(Byte), Len(d) \in Nat, n + Len(d) <= MaxReadable, buf' = append(buf, d)
      PROVE  /\ Valid(buf') /\ Len(buf'.buffer_) <= Bound /\ readableBytes(buf') <= MaxReadable
             /\ SpaceAsserts(buf, Len(d))
  <2>1. /\ Valid(buf') /\ readableBytes(buf') = n + Len(d)
        /\ Len(buf'.buffer_) = len \/ Len(buf'.buffer_) <= kCheapPrepend + n + 2 * Len(d)
        /\ Len(buf'.buffer_) \in Nat
    BY <1>2, <1>5, AppendFacts, ContentsFacts DEF len, n
  <2>2. SpaceAsserts(buf, Len(d))
    BY <1>2, <1>5, SpaceFacts
  <2> QED BY <1>1, <1>2, <1>5, <2>1, <2>2
<1>6. ASSUME NEW d \in Seq(Byte), Len(d) \in Nat, n + Len(d) <= MaxReadable,
             Len(d) <= prependableBytes(buf), buf' = prepend(buf, d)
      PROVE  Valid(buf') /\ Len(buf'.buffer_) <= Bound /\ readableBytes(buf') <= MaxReadable
  BY <1>1, <1>2, <1>6, PrependFacts DEF len, n
<1>7. ASSUME NEW k \in Nat, k <= n, buf' = retrieve(buf, k)
      PROVE  Valid(buf') /\ Len(buf'.buffer_) <= Bound /\ readableBytes(buf') <= MaxReadable
  BY <1>1, <1>2, <1>7, RetrieveFacts DEF len, n
<1>8. ASSUME NEW d \in Data, Append_(d) PROVE Kept
  BY <1>2, <1>3, <1>5, <1>8 DEF Append_, Fits, n
<1>9. ASSUME NEW d \in Data, Prepend_(d) PROVE Kept
  BY <1>2, <1>3, <1>6, <1>9 DEF Prepend_, Fits, n
<1>10. ASSUME NEW d \in Data, WriteInPlace(d) PROVE Kept
  BY <1>1, <1>2, <1>3, <1>10, WrittenFacts DEF WriteInPlace, Fits, len, n
<1>11. ASSUME NEW d \in Data, ReadFd(d) PROVE Kept
  <2>1. n + Len(d) <= MaxReadable /\ buf' = readFd(buf, d) /\ d \in Seq(Byte) /\ Len(d) \in Nat
    BY <1>3, <1>11 DEF ReadFd, Fits, n
  <2>2. /\ Valid(buf') /\ readableBytes(buf') = n + Len(d)
        /\ Len(buf'.buffer_) = len \/ Len(buf'.buffer_) <= kCheapPrepend + n + 2 * Len(d)
        /\ Len(buf'.buffer_) \in Nat
    BY <1>2, <2>1, ReadFdFacts, ContentsFacts DEF len, n
  <2>3. ASSUME Len(d) > writableBytes(buf)
        PROVE  SpaceAsserts([buf EXCEPT !.writerIndex_ = Len(buf.buffer_)],
                            Len(d) - writableBytes(buf))
    <3> DEFINE f == [buf EXCEPT !.writerIndex_ = Len(buf.buffer_)]
    <3>1. Valid(f)
      BY <1>2, ContentsFacts DEF Valid
    <3>2. Len(d) - writableBytes(buf) \in Nat
      BY <1>2, <2>1, <2>3, ContentsFacts
    <3> HIDE DEF f
    <3>3. SpaceAsserts(f, Len(d) - writableBytes(buf))
      BY <3>1, <3>2, SpaceFacts
    <3> QED BY <3>3 DEF f
  <2>4. failed' = FALSE
    BY <1>2, <1>11, <2>3 DEF ReadFd
  <2> QED BY <1>1, <1>2, <2>1, <2>2, <2>4
<1>12. ASSUME NEW w \in Widths, ReadInt(w) PROVE Kept
  <2>1. w \in Nat
    BY BufferAssumption
  <2> QED BY <1>2, <1>7, <1>12, <2>1 DEF ReadInt, n
<1>13. ASSUME NEW w \in Widths, NEW x \in IntOf(w), AppendInt(w, x) PROVE Kept
  BY <1>2, <1>4, <1>5, <1>13 DEF AppendInt, Fits, n
<1>14. ASSUME NEW w \in Widths, NEW x \in IntOf(w), PrependInt(w, x) PROVE Kept
  BY <1>2, <1>4, <1>6, <1>14 DEF PrependInt, Fits, n
<1>15. ASSUME NEW k \in 0..MaxReadable, RetrieveAsString(k) PROVE Kept
  BY <1>1, <1>2, <1>7, <1>15 DEF RetrieveAsString, n
<1>16. ASSUME NEW k \in 0..MaxReadable, EnsureWritable(k) PROVE Kept
  <2>1. k \in Nat /\ n + k <= MaxReadable /\ buf' = ensureWritableBytes(buf, k)
    BY <1>1, <1>16 DEF EnsureWritable, Fits, n
  <2>2. /\ Valid(buf') /\ readableBytes(buf') = n
        /\ Len(buf'.buffer_) = len \/ Len(buf'.buffer_) <= kCheapPrepend + n + 2 * k
        /\ Len(buf'.buffer_) \in Nat /\ SpaceAsserts(buf, k)
    BY <1>2, <2>1, SpaceFacts, ContentsFacts DEF len, n
  <2>3. failed' = FALSE
    BY <1>2, <1>16, <2>2 DEF EnsureWritable
  <2> QED BY <1>1, <1>2, <2>1, <2>2, <2>3
<1>17. ASSUME NEW k \in 0..MaxReadable, Shrink(k) PROVE Kept
  <2>1. k \in Nat /\ n + k <= MaxReadable /\ buf' = shrunk(buf, k) /\ n + k \in Nat
    BY <1>1, <1>2, <1>17 DEF Shrink, Fits, n
  <2>2. /\ Valid(buf') /\ readableBytes(buf') = n
        /\ \/ Len(buf'.buffer_) = kCheapPrepend + kInitialSize
           \/ Len(buf'.buffer_) <= kCheapPrepend + 2 * (n + k)
        /\ Len(buf'.buffer_) \in Nat
    BY <1>2, <2>1, ShrunkFacts, ContentsFacts DEF n
  <2>3. SpaceAsserts(New, n + k)
    BY <2>1, NewFacts, SpaceFacts
  <2>4. failed' = FALSE
    BY <1>2, <1>17, <2>3 DEF Shrink, n
  <2> QED BY <1>1, <1>2, <2>1, <2>2, <2>4
<1>18. ASSUME RetrieveLine PROVE Kept
  <2>1. CASE findCRLF(buf) = -1
    BY <1>2, <1>18, <2>1 DEF RetrieveLine, len, n
  <2>2. CASE findCRLF(buf) # -1
    <3>1. CRLFs(buf) # {}
      BY <2>2 DEF findCRLF
    <3> DEFINE k == findCRLF(buf) + 2 - buf.readerIndex_
    <3>2. k \in Nat /\ k <= n
      BY <1>2, <3>1, LineFacts DEF n
    <3>3. buf' = retrieve(buf, k) /\ failed' = failed
      BY <1>18, <2>2 DEF RetrieveLine
    <3> HIDE DEF k
    <3> QED BY <1>2, <1>7, <3>2, <3>3
  <2> QED BY <2>1, <2>2
<1>19. ASSUME UNCHANGED vars PROVE Kept
  BY <1>2, <1>19 DEF vars, len, n
<1> QED
  BY <1>8, <1>9, <1>10, <1>11, <1>12, <1>13, <1>14, <1>15, <1>16, <1>17, <1>18, <1>19 DEF Next

(* The inductive invariant holds in every reachable state.                 *)
THEOREM Inductive == Spec => []IInv
BY InitInv, NextInv, PTL DEF Spec

(* Buffer.h's assertions about space hold, the indices stay in order, and  *)
(* the vector stays within the bound, whatever is called.                  *)
THEOREM Safe == Spec => []BufferSafe
<1>1. IInv => BufferSafe
  BY DEF IInv
<1> QED BY Inductive, <1>1, PTL

(* A step of ByteStream.  Of readInt only the bytes it takes are stated:   *)
(* that the number it returns has these digits is a sum over 1..w, which   *)
(* TLC evaluates.                                                          *)
StreamStep ==
    \/ Stream!Next
    \/ \E w \in Widths : w <= Len(Contents(buf)) /\ Stream!Drop(w) /\ ReadInt(w)

(* Every public function is a step of the stream.                          *)
LEMMA NextStreams == IInv /\ [Next]_vars => [StreamStep]_<<Contents(buf), call>>
<1> SUFFICES ASSUME IInv, [Next]_vars
             PROVE  StreamStep \/ UNCHANGED <<Contents(buf), call>>
  OBVIOUS
<1> DEFINE c == Contents(buf)
<1>1. Valid(buf) /\ c \in Seq(Byte) /\ Len(c) \in Nat /\ Len(c) = readableBytes(buf)
  BY InvValid, ContentsFacts
<1>2. \A d \in Data : d \in Seq(Byte)
  BY BufferAssumption
<1>3. ASSUME NEW w \in Widths, NEW x \in IntOf(w)
      PROVE  LET h == hostToNetwork(w, x)
             IN  /\ h \in Seq(Byte) /\ Len(h) = w /\ h \in [1..w -> Byte]
                 /\ Stream!IsInt(x, h) /\ x \in Stream!IntOf(w)
  <2>1. w \in Nat /\ x \in Int
    BY BufferAssumption DEF IntOf
  <2> DEFINE h == hostToNetwork(w, x)
  <2>2. h \in Seq(Byte) /\ Len(h) = w /\ h \in [1..w -> Byte]
    BY <2>1, HostFacts
  <2>3. \A i \in 1..w : h[i] = (x \div Base ^ (w - i)) % Base
    BY DEF hostToNetwork
  <2> HIDE DEF h
  <2>4. Stream!Base = Base
    BY Zenon DEF Base, Stream!Base, Cardinality, Stream!Cardinality
  <2>5. Stream!IsInt(x, h)
    BY <2>2, <2>3, <2>4 DEF Stream!IsInt
  <2>6. x \in Stream!IntOf(w)
    BY <2>4 DEF Stream!IntOf, IntOf
  <2> QED BY <2>2, <2>5, <2>6 DEF h
<1>4. ASSUME NEW k \in Nat, k <= readableBytes(buf), buf' = retrieve(buf, k)
      PROVE  k \in 0..Len(c) /\ Stream!Drop(k) /\ Contents(buf') = SubSeq(c, k + 1, Len(c))
  <2>1. Contents(buf') = SubSeq(c, k + 1, Len(c))
    BY <1>1, <1>4, RetrieveFacts
  <2> QED BY <1>1, <1>4, <2>1 DEF Stream!Drop
<1>5. ASSUME NEW d \in Data, Contents(buf') = c \o d, call' = <<"append", d>>
      PROVE  StreamStep
  BY <1>5 DEF StreamStep, Stream!Next, Stream!Write
<1>6. ASSUME NEW d \in Data, Contents(buf') = d \o c, call' = <<"prepend", d>>
      PROVE  StreamStep
  BY <1>6 DEF StreamStep, Stream!Next, Stream!Write
<1>7. ASSUME Contents(buf') = c, call' \in {<<"no line">>, <<"room">>}
      PROVE  StreamStep
  BY <1>7 DEF StreamStep, Stream!Next, Stream!Other
<1>8. ASSUME NEW d \in Data, Append_(d) PROVE StreamStep
  BY <1>1, <1>2, <1>5, <1>8, AppendFacts DEF Append_
<1>9. ASSUME NEW d \in Data, Prepend_(d) PROVE StreamStep
  BY <1>1, <1>2, <1>6, <1>9, PrependFacts DEF Prepend_
<1>10. ASSUME NEW d \in Data, WriteInPlace(d) PROVE StreamStep
  BY <1>1, <1>2, <1>5, <1>10, WrittenFacts DEF WriteInPlace
<1>11. ASSUME NEW d \in Data, ReadFd(d) PROVE StreamStep
  BY <1>1, <1>2, <1>5, <1>11, ReadFdFacts DEF ReadFd
<1>12. ASSUME NEW w \in Widths, ReadInt(w) PROVE StreamStep
  <2>1. w \in Nat
    BY BufferAssumption
  <2>2. w \in 0..Len(c) /\ Stream!Drop(w)
    BY <1>4, <1>12, <2>1 DEF ReadInt
  <2> QED BY <1>12, <2>2 DEF StreamStep
<1>13. ASSUME NEW w \in Widths, NEW x \in IntOf(w), AppendInt(w, x) PROVE StreamStep
  <2> DEFINE h == hostToNetwork(w, x)
  <2>1. /\ h \in Seq(Byte) /\ Len(h) = w /\ h \in [1..w -> Byte]
        /\ Stream!IsInt(x, h) /\ x \in Stream!IntOf(w)
    BY <1>3
  <2>2. buf' = append(buf, h) /\ call' = <<"appendInt", x>>
    BY <1>13 DEF AppendInt
  <2> HIDE DEF h
  <2>3. Contents(buf') = c \o h
    BY <1>1, <2>1, <2>2, AppendFacts
  <2>4. Stream!WriteInt(w, x)
    BY <2>1, <2>2, <2>3 DEF Stream!WriteInt
  <2> QED BY <2>1, <2>4 DEF StreamStep, Stream!Next
<1>14. ASSUME NEW w \in Widths, NEW x \in IntOf(w), PrependInt(w, x) PROVE StreamStep
  <2> DEFINE h == hostToNetwork(w, x)
  <2>1. /\ h \in Seq(Byte) /\ Len(h) = w /\ h \in [1..w -> Byte]
        /\ Stream!IsInt(x, h) /\ x \in Stream!IntOf(w)
    BY <1>3
  <2>2. buf' = prepend(buf, h) /\ call' = <<"prependInt", x>> /\ w <= prependableBytes(buf)
    BY <1>14 DEF PrependInt
  <2> HIDE DEF h
  <2>3. Contents(buf') = h \o c
    BY <1>1, <2>1, <2>2, PrependFacts
  <2>4. Stream!WriteInt(w, x)
    BY <2>1, <2>2, <2>3 DEF Stream!WriteInt
  <2> QED BY <2>1, <2>4 DEF StreamStep, Stream!Next
<1>15. ASSUME NEW k \in 0..MaxReadable, RetrieveAsString(k) PROVE StreamStep
  <2>1. k \in Nat
    BY BufferAssumption
  <2>2. k \in 0..Len(c) /\ Stream!Drop(k)
    BY <1>4, <1>15, <2>1 DEF RetrieveAsString
  <2>3. call' = <<"retrieve", Stream!Front(k)>>
    BY <1>15 DEF RetrieveAsString, Stream!Front
  <2> QED BY <2>2, <2>3 DEF StreamStep, Stream!Next, Stream!Read
<1>16. ASSUME NEW k \in 0..MaxReadable, EnsureWritable(k) PROVE StreamStep
  <2>1. k \in Nat
    BY BufferAssumption
  <2> QED BY <1>1, <1>7, <1>16, <2>1, SpaceFacts DEF EnsureWritable
<1>17. ASSUME NEW k \in 0..MaxReadable, Shrink(k) PROVE StreamStep
  <2>1. k \in Nat
    BY BufferAssumption
  <2> QED BY <1>1, <1>7, <1>17, <2>1, ShrunkFacts DEF Shrink
<1>18. ASSUME RetrieveLine PROVE StreamStep
  <2>1. CASE findCRLF(buf) = -1
    <3>1. buf' = buf /\ call' = <<"no line">>
      BY <1>18, <2>1 DEF RetrieveLine
    <3> QED BY <1>7, <3>1
  <2>2. CASE findCRLF(buf) # -1
    <3>1. CRLFs(buf) # {}
      BY <2>2 DEF findCRLF
    <3> DEFINE k == findCRLF(buf) + 2 - buf.readerIndex_
    <3>2. k \in Nat /\ k <= readableBytes(buf) /\ Stream!IsLine(SubSeq(c, 1, k))
      BY <1>1, <3>1, LineFacts
    <3>3. buf' = retrieve(buf, k) /\ call' = <<"line", SubSeq(c, 1, k)>>
      BY <1>18, <2>2 DEF RetrieveLine
    <3> HIDE DEF k
    <3>4. k \in 0..Len(c) /\ Stream!Drop(k)
      BY <1>4, <3>2, <3>3
    <3> QED BY <3>2, <3>3, <3>4 DEF StreamStep, Stream!Next, Stream!Read, Stream!Front
  <2> QED BY <2>1, <2>2
<1>19. ASSUME UNCHANGED vars PROVE UNCHANGED <<Contents(buf), call>>
  BY <1>19 DEF vars
<1> QED
  BY <1>8, <1>9, <1>10, <1>11, <1>12, <1>13, <1>14, <1>15, <1>16, <1>17, <1>18, <1>19 DEF Next

(* Through every growth, move, shrinking and read in two parts, Buffer is  *)
(* a sequence of bytes that is written at both ends and read, by length or *)
(* by line, at the front.                                                  *)
THEOREM KeepsStream ==
    Spec => Stream!Init /\ [][StreamStep]_<<Contents(buf), call>>
<1>1. Init => Stream!Init
  BY NewFacts DEF Init, Stream!Init
<1> QED
  BY Inductive, NextStreams, <1>1, PTL DEF Spec

-----------------------------------------------------------------------------
(***************************************************************************)
(* The HTTP server, which parses what the input buffer of a connection     *)
(* holds.  Its answers go out on one connection.                           *)
(***************************************************************************)
(* The requests handled so far end here, and the lines of the next one     *)
(* that have been retrieved go to there.                                   *)
Ended == IF handled = <<>> THEN 0 ELSE handled[Len(handled)].end
Read == Server!Retrieved

(* c is the value of the last Connection header of these lines.            *)
IsConnection(l) == l.field = "Connection"
LastValue(q, c, from, to) ==
    \/ c = Server!NoHeader /\ \A j \in from..to : ~IsConnection(q[j])
    \/ \E j \in from..to : /\ IsConnection(q[j]) /\ q[j].value = c
                           /\ \A k \in (j + 1)..to : ~IsConnection(q[k])

(* The values of the histories.                                            *)
MethodCodes == {"kInvalid", "kGet", "kPost", "kHead", "kDelete"}
Requests == [method_ : MethodCodes, status : {"200", "404"}, end : Nat]
Answers == [to : Nat, status : {"200", "404", "400", "none"},
            close : BOOLEAN, chosen : BOOLEAN]

(* The requests handled, in the lines retrieved.                           *)
HandledInv ==
    /\ handled \in Seq(Requests)
    /\ \A i \in DOMAIN handled : handled[i].end <= Ended /\ Server!First(i) <= Ended
    /\ \A i \in DOMAIN handled :
          \E c : LastValue(stream, c, Server!First(i) + 1, handled[i].end - 1)
    /\ Ended <= Read /\ Server!FramesTheStream

(* The request that is parsed, from where the last one ended.              *)
RequestInv ==
    /\ state_ = "kExpectRequestLine" => Read = Ended /\ request_.connection = Server!NoHeader
    /\ state_ # "kExpectRequestLine" =>
          LET end == IF state_ = "kGotAll" THEN Read - 1 ELSE Read
          IN  /\ Ended < end
              /\ Server!IsRequestLine(stream[Ended + 1])
              /\ request_.version_ = "kHttp10" <=> stream[Ended + 1].version = "HTTP/1.0"
              /\ \A j \in (Ended + 2)..end : Server!HasColon(stream[j])
              /\ LastValue(stream, request_.connection, Ended + 2, end)
    /\ state_ = "kGotAll" => ~Server!HasColon(stream[Read])

(* The answers, one for each request handled until the shutdown.           *)
WireInv ==
    /\ wire \in Seq(Answers)
    /\ Server!AnswersInOrder /\ Server!PersistsAsAsked
    /\ \A i \in DOMAIN wire : wire[i].to <= Len(handled)
    /\ conn = "kConnected" => Len(wire) = Len(handled)

IsBlank(l) == l = Server!Blank
Blanks == {i \in DOMAIN stream : IsBlank(stream[i])}
Pending == state_ = "kGotAll" \/ (input # <<>> /\ IsBlank(stream[Len(stream)]))

(* A client that waits sends well-formed lines, and nothing behind a blank *)
(* one; of these, the last is the only one whose request is not handled.   *)
WaitInv == waits =>
    /\ \A i \in DOMAIN stream :
          IF i = 1 \/ IsBlank(stream[i - 1]) THEN Server!IsRequestLine(stream[i])
          ELSE Server!HasColon(stream[i]) \/ IsBlank(stream[i])
    /\ \A i \in (Read + 1)..Len(stream) : IsBlank(stream[i]) => i = Len(stream)
    /\ state_ = "kExpectRequestLine" =>
          (Read = 0 \/ IsBlank(stream[Read])) /\ request_.method_ = "kInvalid"
    /\ state_ = "kExpectHeaders" => Read > 0 /\ ~IsBlank(stream[Read])
    /\ state_ = "kGotAll" => Read = Len(stream) /\ IsBlank(stream[Read])
    /\ parsing = "loop" => input = <<>>
    /\ Cardinality(Blanks) = Len(handled) + IF Pending THEN 1 ELSE 0

ServerInv == Server!TypeOK /\ HandledInv /\ RequestInv /\ WireInv /\ WaitInv

(* The rest of a sequence.                                                 *)
LEMMA RestFacts ==
    ASSUME NEW S, NEW q \in Seq(S), NEW k \in Nat, k <= Len(q)
    PROVE  /\ SubSeq(q, k + 1, Len(q)) \in Seq(S)
           /\ Len(SubSeq(q, k + 1, Len(q))) = Len(q) - k
           /\ \A i \in 1..(Len(q) - k) : SubSeq(q, k + 1, Len(q))[i] = q[k + i]
<1> DEFINE p == SubSeq(q, k + 1, Len(q))
<1>1. Len(q) \in Nat /\ k + 1 \in Int /\ Len(q) \in Int
      /\ \A i \in (k + 1)..Len(q) : q[i] \in S
  BY SMT
<1>2. p \in Seq(S) /\ Len(p) = (IF k + 1 <= Len(q) THEN Len(q) - (k + 1) + 1 ELSE 0)
      /\ \A i \in 1..(Len(q) - (k + 1) + 1) : p[i] = q[(k + 1) + i - 1]
  <2> DEFINE m == k + 1
             n == Len(q)
  <2>1. m \in Int /\ n \in Int /\ \A i \in m..n : q[i] \in S
    BY <1>1
  <2> HIDE DEF m, n
  <2>2. /\ SubSeq(q, m, n) \in Seq(S)
        /\ Len(SubSeq(q, m, n)) = IF m <= n THEN n - m + 1 ELSE 0
        /\ \A i \in 1..(n - m + 1) : SubSeq(q, m, n)[i] = q[m + i - 1]
    BY <2>1, SubSeqProperties
  <2> QED BY <2>2 DEF m, n
<1> HIDE DEF p
<1>3. Len(p) = Len(q) - k
  BY <1>1, <1>2
<1>4. ASSUME NEW i \in 1..(Len(q) - k)
      PROVE  p[i] = q[k + i]
  <2>1. i \in 1..(Len(q) - (k + 1) + 1) /\ (k + 1) + i - 1 = k + i
    BY <1>1
  <2> QED BY <1>2, <2>1
<1> QED BY <1>2, <1>3, <1>4 DEF p

(* The first of the lines that wait is the next of the stream.             *)
LEMMA ReadFacts ==
    ASSUME Server!TypeOK, HandledInv
    PROVE  /\ Read \in Nat /\ Ended \in Nat /\ Len(stream) \in Nat /\ Len(input) \in Nat
           /\ Read + Len(input) = Len(stream) /\ Ended <= Read
           /\ \A i \in 1..Len(input) : input[i] = stream[Read + i]
           /\ Server!First(Len(handled) + 1) = Ended + 1
           /\ Len(handled) \in Nat
<1>1. stream \in Seq(Lines) /\ input \in Seq(Lines) /\ Read = Len(stream) - Len(input)
      /\ Read >= 0 /\ input = SubSeq(stream, Read + 1, Len(stream))
  BY DEF Server!TypeOK, Read, Server!Retrieved
<1>2. Read \in Nat /\ Len(stream) \in Nat /\ Len(input) \in Nat
      /\ Read + Len(input) = Len(stream)
  BY <1>1
<1>3. Ended \in Nat /\ Ended <= Read /\ Len(handled) \in Nat
  <2>1. handled \in Seq(Requests) /\ Ended <= Read
    BY DEF HandledInv
  <2>2. CASE handled = <<>>
    BY <2>1, <2>2 DEF Ended
  <2>3. CASE handled # <<>>
    <3>1. Len(handled) \in 1..Len(handled)
      BY <2>1, <2>3
    <3>2. handled[Len(handled)] \in Requests
      BY <2>1, <3>1
    <3>3. handled[Len(handled)].end \in Nat
      BY <3>2 DEF Requests
    <3> QED BY <2>1, <2>3, <3>1, <3>3 DEF Ended
  <2> QED BY <2>2, <2>3
<1>4. \A i \in 1..Len(input) : input[i] = stream[Read + i]
  <2>1. Read <= Len(stream) /\ Len(stream) - Read = Len(input)
    BY <1>2
  <2>2. \A i \in 1..(Len(stream) - Read) :
           SubSeq(stream, Read + 1, Len(stream))[i] = stream[Read + i]
    BY <1>1, <1>2, <2>1, RestFacts
  <2> QED BY <1>1, <2>1, <2>2
<1>5. Server!First(Len(handled) + 1) = Ended + 1
  <2>2. CASE handled = <<>>
    BY <2>2 DEF Server!First, Ended
  <2>3. CASE handled # <<>>
    <3>0. handled \in Seq(Requests)
      BY DEF HandledInv
    <3>1. Len(handled) \in Nat \ {0}
      BY <3>0, <2>3
    <3> QED BY <3>1, <2>3 DEF Server!First, Ended
  <2> QED BY <2>2, <2>3
<1> QED BY <1>2, <1>3, <1>4, <1>5

(* retrieveUntil() takes the first of the lines that wait.                 *)
LEMMA Retrieving ==
    ASSUME Server!TypeOK, HandledInv, input # <<>>, Server!Retrieve, stream' = stream
    PROVE  /\ Read' = Read + 1 /\ Read + 1 <= Len(stream)
           /\ input[1] = stream[Read + 1] /\ input[1] \in Lines
           /\ input' \in Seq(Lines) /\ Len(input') = Len(input) - 1
           /\ input' = SubSeq(stream', Read' + 1, Len(stream'))
<1>1. input' = Tail(input) /\ input \in Seq(Lines) /\ stream \in Seq(Lines)
  BY DEF Server!Retrieve, Server!TypeOK
<1>2. Len(input) \in Nat /\ Len(input) > 0
  BY <1>1
<1>3. input' \in Seq(Lines) /\ Len(input') = Len(input) - 1 /\ input[1] \in Lines
      /\ \A i \in 1..(Len(input) - 1) : input'[i] = input[i + 1]
  BY <1>1, <1>2
<1>4. Read' = Read + 1 /\ Read + 1 <= Len(stream) /\ input[1] = stream[Read + 1]
  BY <1>2, <1>3, ReadFacts DEF Read, Server!Retrieved
<1>5. input' = SubSeq(stream', Read' + 1, Len(stream'))
  <2> DEFINE q == SubSeq(stream, (Read + 1) + 1, Len(stream))
  <2>1. q \in Seq(Lines) /\ Len(q) = Len(stream) - (Read + 1)
        /\ \A i \in 1..(Len(stream) - (Read + 1)) : q[i] = stream[(Read + 1) + i]
    <3>1. Read + 1 \in Nat
      BY ReadFacts
    <3> QED BY <1>1, <1>4, <3>1, RestFacts
  <2> HIDE DEF q
  <2>2. Len(q) = Len(input')
    BY <2>1, <1>3, ReadFacts
  <2>3. \A i \in 1..Len(q) : q[i] = input'[i]
    <3> TAKE i \in 1..Len(q)
    <3>1. i + 1 \in 1..Len(input) /\ i \in 1..(Len(input) - 1)
      BY <2>1, <1>2, ReadFacts
    <3>2. input[i + 1] = stream[Read + (i + 1)] /\ input'[i] = input[i + 1]
      BY <3>1, <1>3, ReadFacts
    <3>3. Read + (i + 1) = (Read + 1) + i /\ i \in 1..(Len(stream) - (Read + 1))
      BY <2>1, ReadFacts
    <3> QED BY <2>1, <3>2, <3>3
  <2>4. q = input'
    BY <2>1, <2>2, <2>3, <1>3, SeqEqual
  <2> QED BY <2>4, <1>4 DEF q
<1> QED BY <1>3, <1>4, <1>5

(* The lines of a request handled lie in what was retrieved.               *)
LEMMA HandledFacts ==
    ASSUME Server!TypeOK, HandledInv, NEW i \in DOMAIN handled
    PROVE  /\ i \in Nat \ {0} /\ i <= Len(handled)
           /\ Server!First(i) \in Nat \ {0} /\ handled[i].end \in Nat
           /\ Server!First(i) < handled[i].end /\ handled[i].end <= Ended
           /\ Ended <= Len(stream)
<1>1. handled \in Seq(Requests)
  BY DEF HandledInv
<1>2. i \in Nat \ {0} /\ i <= Len(handled) /\ Len(handled) \in Nat /\ handled[i] \in Requests
      /\ (i # 1 => handled[i - 1] \in Requests)
  <2>1. DOMAIN handled = 1..Len(handled) /\ Len(handled) \in Nat
    BY <1>1
  <2>2. i # 1 => i - 1 \in DOMAIN handled
    BY <2>1
  <2> QED BY <1>1, <2>1, <2>2
<1>3. Server!First(i) \in Nat \ {0}
  <2>1. CASE i = 1
    BY <2>1 DEF Server!First
  <2>2. CASE i # 1
    <3>1. handled[i - 1].end \in Nat
      BY <1>2, <2>2 DEF Requests
    <3> QED BY <3>1, <2>2 DEF Server!First
  <2> QED BY <2>1, <2>2
<1>4. handled[i].end \in Nat
  BY <1>2 DEF Requests
<1>5. Server!First(i) < handled[i].end
  BY <1>3, <1>4 DEF HandledInv, Server!FramesTheStream
<1>6. handled[i].end <= Ended
  BY DEF HandledInv
<1>7. Ended <= Len(stream)
  BY ReadFacts
<1> QED BY <1>2, <1>3, <1>4, <1>5, <1>6, <1>7

(* The last Connection header is found by the lines that it is said of.    *)
LEMMA LastValueKept ==
    ASSUME NEW q, NEW r, NEW c, NEW from \in Nat, NEW to \in Int, LastValue(q, c, from, to),
           \A j \in from..to : r[j] = q[j]
    PROVE  LastValue(r, c, from, to)
<1>1. ASSUME c = Server!NoHeader, \A j \in from..to : ~IsConnection(q[j])
      PROVE  LastValue(r, c, from, to)
  BY <1>1 DEF LastValue, IsConnection
<1>2. ASSUME NEW j \in from..to, IsConnection(q[j]), q[j].value = c,
             \A k \in (j + 1)..to : ~IsConnection(q[k])
      PROVE  LastValue(r, c, from, to)
  <2>1. IsConnection(r[j]) /\ r[j].value = c
    BY <1>2
  <2>2. \A k \in (j + 1)..to : ~IsConnection(r[k])
    <3> TAKE k \in (j + 1)..to
    <3>1. k \in from..to
      OBVIOUS
    <3> QED BY <1>2, <3>1
  <2> QED BY <2>1, <2>2 DEF LastValue
<1> QED BY <1>1, <1>2 DEF LastValue

AskedIn(q, lines) ==
    LET hs == {j \in lines : q[j].field = "Connection"}
        last == CHOOSE j \in hs : \A k \in hs : k <= j
    IN  IF hs = {} THEN Server!NoHeader ELSE q[last].value

(* ... and Asked() is that value.                                          *)
LEMMA AskedValue ==
    ASSUME NEW q, NEW c, NEW from \in Nat, NEW to \in Int, LastValue(q, c, from, to)
    PROVE  AskedIn(q, from..to) = c
<1> DEFINE hs == {j \in from..to : q[j].field = "Connection"}
           last == CHOOSE j \in hs : \A k \in hs : k <= j
<1>2. AskedIn(q, from..to) = IF hs = {} THEN Server!NoHeader ELSE q[last].value
  BY DEF AskedIn
<1>3. ASSUME c = Server!NoHeader, \A j \in from..to : ~IsConnection(q[j])
      PROVE  AskedIn(q, from..to) = c
  BY <1>2, <1>3 DEF IsConnection
<1>4. ASSUME NEW j \in from..to, IsConnection(q[j]), q[j].value = c,
             \A k \in (j + 1)..to : ~IsConnection(q[k])
      PROVE  AskedIn(q, from..to) = c
  <2>1. j \in hs
    BY <1>4 DEF IsConnection
  <2>2. \A k \in hs : k \in Int /\ k <= j
    <3> TAKE k \in hs
    <3>1. k \in from..to /\ IsConnection(q[k])
      BY DEF IsConnection
    <3> HIDE DEF hs
    <3> QED BY <1>4, <3>1
  <2> HIDE DEF hs
  <2>3. last \in hs /\ \A k \in hs : k <= last
    BY <2>1, <2>2
  <2> HIDE DEF last
  <2>4. last = j
    BY <2>1, <2>2, <2>3
  <2> QED BY <1>2, <1>4, <2>1, <2>4
<1> QED BY <1>3, <1>4 DEF LastValue

LEMMA AskedIs ==
    /\ \A i : Server!Asked(i) = AskedIn(stream, (Server!First(i) + 1)..(handled[i].end - 1))
    /\ \A i : Server!Asked(i)' =
               AskedIn(stream', (Server!First(i)' + 1)..(handled'[i].end - 1))
BY DEF AskedIn, Server!Asked, Server!Headers

(* More of the stream received or retrieved changes nothing that was said  *)
(* of the requests handled.                                                *)
Extends == \A i \in 1..Len(stream) : stream'[i] = stream[i]

LEMMA HandledKept ==
    ASSUME Server!TypeOK, HandledInv, handled' = handled, Extends, Ended <= Read'
    PROVE  HandledInv' /\ Ended' = Ended
           /\ \A i \in DOMAIN handled : Server!First(i)' = Server!First(i)
<1>1. Ended' = Ended
  BY DEF Ended
<1>2. \A i : Server!First(i)' = Server!First(i)
  BY DEF Server!First
<1>3. ASSUME NEW i \in DOMAIN handled
      PROVE  /\ \A j \in Server!First(i)..handled[i].end : stream'[j] = stream[j]
             /\ Server!First(i) \in Nat /\ handled[i].end \in Nat \ {0}
             /\ Server!First(i) < handled[i].end
  <2>1. \A j \in Server!First(i)..handled[i].end : j \in 1..Len(stream)
    BY HandledFacts, ReadFacts
  <2> QED BY <2>1, HandledFacts DEF Extends
<1>4. Server!FramesTheStream'
  <2> SUFFICES ASSUME NEW i \in DOMAIN handled
               PROVE  /\ Server!IsRequestLine(stream'[Server!First(i)])
                      /\ handled[i].end > Server!First(i)
                      /\ ~Server!HasColon(stream'[handled[i].end])
                      /\ \A j \in (Server!First(i) + 1)..(handled[i].end - 1) :
                            Server!HasColon(stream'[j])
    BY <1>2 DEF Server!FramesTheStream, Server!Headers
  <2>1. /\ Server!IsRequestLine(stream[Server!First(i)])
        /\ handled[i].end > Server!First(i)
        /\ ~Server!HasColon(stream[handled[i].end])
        /\ \A j \in (Server!First(i) + 1)..(handled[i].end - 1) :
               Server!HasColon(stream[j])
    BY DEF HandledInv, Server!FramesTheStream, Server!Headers
  <2>2. stream'[Server!First(i)] = stream[Server!First(i)]
        /\ stream'[handled[i].end] = stream[handled[i].end]
    BY <1>3
  <2>3. \A j \in (Server!First(i) + 1)..(handled[i].end - 1) :
           j \in Server!First(i)..handled[i].end
    BY <1>3
  <2> QED BY <1>3, <2>1, <2>2, <2>3
<1>5. ASSUME NEW i \in DOMAIN handled
      PROVE  \E c : LastValue(stream', c, Server!First(i) + 1, handled[i].end - 1)
  <2>1. PICK c : LastValue(stream, c, Server!First(i) + 1, handled[i].end - 1)
    BY DEF HandledInv
  <2>2. \A j \in (Server!First(i) + 1)..(handled[i].end - 1) : stream'[j] = stream[j]
    <3>1. \A j \in (Server!First(i) + 1)..(handled[i].end - 1) :
             j \in Server!First(i)..handled[i].end
      BY <1>3
    <3> QED BY <1>3, <3>1
  <2>3. Server!First(i) + 1 \in Nat /\ handled[i].end - 1 \in Int
    BY <1>3
  <2> QED BY <2>1, <2>2, <2>3, LastValueKept
<1> QED BY <1>1, <1>2, <1>4, <1>5 DEF HandledInv

LEMMA AnswersKept ==
    ASSUME Server!TypeOK, HandledInv, WireInv,
           handled' = handled, Extends, wire' = wire, conn' = conn
    PROVE  WireInv'
<1>1. ASSUME NEW i \in DOMAIN handled
      PROVE  /\ Server!First(i)' = Server!First(i) /\ Server!Asked(i)' = Server!Asked(i)
             /\ stream'[Server!First(i)] = stream[Server!First(i)]
  <2> DEFINE m == Server!First(i) + 1
             n == handled[i].end - 1
  <2>1. Server!First(i)' = Server!First(i)
    BY DEF Server!First
  <2>2. Server!First(i) \in 1..Len(stream)
    BY HandledFacts, ReadFacts
  <2>3. \A j \in m..n : stream'[j] = stream[j]
    <3>1. \A j \in m..n : j \in 1..Len(stream)
      BY HandledFacts, ReadFacts
    <3> QED BY <3>1 DEF Extends
  <2>4. PICK c : LastValue(stream, c, m, n)
    BY DEF HandledInv
  <2>5. m \in Nat /\ n \in Int
    BY HandledFacts
  <2>6. LastValue(stream', c, m, n)
    BY <2>3, <2>4, <2>5, LastValueKept
  <2>7. AskedIn(stream, m..n) = c /\ AskedIn(stream', m..n) = c
    BY <2>4, <2>5, <2>6, AskedValue
  <2>8. Server!Asked(i) = c /\ Server!Asked(i)' = c
    BY <2>1, <2>7, AskedIs
  <2> QED BY <2>1, <2>2, <2>8 DEF Extends
<1>2. ASSUME NEW i \in DOMAIN wire, wire[i].to # 0
      PROVE  i \in DOMAIN handled
  <2>1. wire[i].to = i /\ wire[i].to <= Len(handled) /\ i \in Nat
    BY <1>2 DEF WireInv, Server!AnswersInOrder
  <2>2. handled \in Seq(Requests)
    BY DEF HandledInv
  <2> QED BY <1>2, <2>1, <2>2
<1>3. Server!PersistsAsAsked'
  BY <1>1, <1>2 DEF WireInv, Server!PersistsAsAsked
<1>4. Server!AnswersInOrder'
  BY DEF WireInv, Server!AnswersInOrder
<1> QED BY <1>3, <1>4 DEF WireInv

(* What onMessage() takes in is only added to the stream.                  *)
LEMMA MessageStep ==
    ASSUME ServerInv, NEW k \in Nat, NEW ls \in [1..k -> Lines], Server!onMessage(ls)
    PROVE  ServerInv'
<1> USE DEF ServerInv
<1>1. /\ parsing = "loop" /\ waits' = (waits /\ Server!OneByOne(ls))
      /\ input' = input \o ls /\ stream' = stream \o ls /\ parsing' = "parse"
      /\ UNCHANGED <<state_, request_, conn, wire, handled>>
  BY DEF Server!onMessage
<1>2. ls \in Seq(Lines) /\ Len(ls) = k
  OBVIOUS
<1>3. stream \in Seq(Lines) /\ input \in Seq(Lines)
  BY DEF Server!TypeOK
<1>4. /\ stream' \in Seq(Lines) /\ Len(stream') = Len(stream) + k
      /\ \A i \in 1..(Len(stream) + k) :
            stream'[i] = IF i <= Len(stream) THEN stream[i] ELSE ls[i - Len(stream)]
  BY <1>1, <1>2, <1>3, ConcatProperties
<1>5. /\ input' \in Seq(Lines) /\ Len(input') = Len(input) + k
      /\ \A i \in 1..(Len(input) + k) :
            input'[i] = IF i <= Len(input) THEN input[i] ELSE ls[i - Len(input)]
  BY <1>1, <1>2, <1>3, ConcatProperties
<1>6. Read' = Read /\ Read' \in Nat
  BY <1>4, <1>5, ReadFacts DEF Read, Server!Retrieved
<1>7. Extends
  BY <1>4, ReadFacts DEF Extends
<1>8. input' = SubSeq(stream', Read' + 1, Len(stream'))
  <2> DEFINE q == SubSeq(stream', Read + 1, Len(stream'))
  <2>1. Read <= Len(stream') /\ Read \in Nat
    BY <1>4, ReadFacts
  <2>2. q \in Seq(Lines) /\ Len(q) = Len(stream') - Read
        /\ \A i \in 1..(Len(stream') - Read) : q[i] = stream'[Read + i]
    BY <1>4, <2>1, RestFacts
  <2> HIDE DEF q
  <2>3. Len(q) = Len(input')
    <3>1. Len(stream') - Read = Len(input) + k
      <4>1. Len(stream') = Len(stream) + k
        BY <1>4
      <4>2. Read + Len(input) = Len(stream) /\ Read \in Nat /\ Len(input) \in Nat
        BY ReadFacts
      <4> QED BY <4>1, <4>2
    <3> QED BY <1>5, <2>2, <3>1
  <2>4. \A i \in 1..Len(q) : q[i] = input'[i]
    <3> TAKE i \in 1..Len(q)
    <3>1. i \in 1..(Len(input) + k) /\ Read + i \in 1..(Len(stream) + k)
          /\ q[i] = stream'[Read + i]
      BY <1>4, <1>5, <2>2, <2>3, ReadFacts, SMTT(60)
    <3>2. CASE i <= Len(input)
      <4>1. stream'[Read + i] = stream[Read + i] /\ input'[i] = input[i]
            /\ input[i] = stream[Read + i]
        BY <1>4, <1>5, <3>1, <3>2, ReadFacts, SMTT(60)
      <4> QED BY <3>1, <4>1
    <3>3. CASE i > Len(input)
      <4>1. (Read + i) - Len(stream) = i - Len(input) /\ ~(Read + i <= Len(stream))
        BY <3>1, <3>3, ReadFacts
      <4>2. stream'[Read + i] = ls[(Read + i) - Len(stream)]
        BY <1>4, <3>1, <4>1
      <4>3. input'[i] = ls[i - Len(input)]
        BY <1>5, <3>1, <3>3, ReadFacts
      <4> QED BY <3>1, <4>1, <4>2, <4>3
    <3> QED BY <3>1, <3>2, <3>3, ReadFacts
  <2>5. q = input'
    BY <1>5, <2>2, <2>3, <2>4, SeqEqual
  <2> QED BY <1>6, <2>5 DEF q
<1>9. Server!TypeOK'
  <2>1. Server!Retrieved' >= 0 /\ Server!Retrieved' = Read'
    BY <1>6 DEF Read
  <2>2. waits' \in BOOLEAN
    BY <1>1 DEF Server!OneByOne, Server!TypeOK
  <2>3. state_ # "kGotAll"
    BY <1>1 DEF Server!TypeOK
  <2>4. /\ state_' \in {"kExpectRequestLine", "kExpectHeaders", "kGotAll"}
        /\ (state_' = "kGotAll") <=> (parsing' = "request")
        /\ request_' \in [method_ : {"kInvalid", "kGet", "kPost", "kHead", "kDelete"},
                          version_ : {"kUnknow", "kHttp10", "kHttp11"},
                          connection : {Server!NoHeader} \cup {l.value : l \in Lines}]
        /\ conn' \in {"kConnected", "kDisconnecting"}
        /\ parsing' \in {"loop", "parse", "request", "aborted"}
    BY <1>1, <2>3 DEF Server!TypeOK
  <2> QED BY <1>4, <1>5, <1>8, <2>1, <2>2, <2>4 DEF Server!TypeOK
<1>10. HandledInv' /\ Ended' = Ended
  BY <1>1, <1>6, <1>7, HandledKept, ReadFacts
<1>11. WireInv'
  BY <1>1, <1>7, AnswersKept
<1>12. RequestInv'
  <2>1. \A i \in (Ended + 1)..Read : stream'[i] = stream[i]
    BY <1>7, ReadFacts DEF Extends
  <2>2. state_ # "kGotAll"
    BY <1>1 DEF Server!TypeOK
  <2>3. CASE state_ = "kExpectRequestLine"
    BY <1>1, <1>6, <1>10, <2>3 DEF RequestInv
  <2>4. CASE state_ = "kExpectHeaders"
    <3>1. /\ Ended < Read /\ Server!IsRequestLine(stream[Ended + 1])
          /\ request_.version_ = "kHttp10" <=> stream[Ended + 1].version = "HTTP/1.0"
          /\ \A j \in (Ended + 2)..Read : Server!HasColon(stream[j])
          /\ LastValue(stream, request_.connection, Ended + 2, Read)
      BY <2>4 DEF RequestInv
    <3>2. Ended + 2 \in Nat /\ Read \in Int /\ stream'[Ended + 1] = stream[Ended + 1]
          /\ \A j \in (Ended + 2)..Read : stream'[j] = stream[j]
      <4>1. Ended \in Nat /\ Read \in Nat /\ Ended < Read
        BY <3>1, ReadFacts
      <4>2. Ended + 1 \in (Ended + 1)..Read
            /\ \A j \in (Ended + 2)..Read : j \in (Ended + 1)..Read
        BY <4>1
      <4> QED BY <2>1, <4>1, <4>2
    <3>3. LastValue(stream', request_.connection, Ended + 2, Read)
      BY <3>1, <3>2, LastValueKept
    <3> QED BY <1>1, <1>6, <1>10, <2>4, <3>1, <3>2, <3>3 DEF RequestInv
  <2> QED BY <2>2, <2>3, <2>4 DEF Server!TypeOK
<1>13. WaitInv'
  <2> SUFFICES ASSUME waits'
               PROVE  WaitInv'
    BY DEF WaitInv
  <2>1. waits /\ Server!OneByOne(ls)
    BY <1>1
  <2>2. input = <<>> /\ Read = Len(stream)
    BY <1>1, <2>1, ReadFacts DEF WaitInv
  <2>3. /\ \A i \in 1..Len(stream') :
              IF i = 1 \/ IsBlank(stream'[i - 1]) THEN Server!IsRequestLine(stream'[i])
              ELSE Server!HasColon(stream'[i]) \/ IsBlank(stream'[i])
        /\ \A i \in 1..k : IsBlank(ls[i]) => i = k
    <3>1. /\ \A i \in DOMAIN stream' :
                 IF i = 1 \/ stream'[i - 1] = Server!Blank THEN Server!IsRequestLine(stream'[i])
                 ELSE Server!HasColon(stream'[i]) \/ stream'[i] = Server!Blank
          /\ \A i \in DOMAIN ls : ls[i] = Server!Blank => i = Len(ls)
      BY <1>1, <2>1 DEF Server!OneByOne
    <3>2. DOMAIN stream' = 1..Len(stream') /\ DOMAIN ls = 1..k
      BY <1>2, <1>4
    <3> QED BY <1>2, <3>1, <3>2 DEF IsBlank
  <2>4. \A i \in (Read' + 1)..Len(stream') : IsBlank(stream'[i]) => i = Len(stream')
    <3> TAKE i \in (Read' + 1)..Len(stream')
    <3>1. i \in 1..(Len(stream) + k) /\ ~(i <= Len(stream)) /\ i - Len(stream) \in 1..k
      BY <1>4, <1>6, <2>2, ReadFacts
    <3>2. stream'[i] = ls[i - Len(stream)]
      BY <1>4, <3>1
    <3> QED BY <1>4, <2>3, <3>1, <3>2, ReadFacts
  <2>5. state_ # "kGotAll"
    BY <1>1 DEF Server!TypeOK
  <2>6. Read > 0 => stream'[Read] = stream[Read]
    BY <1>7, <2>2, ReadFacts DEF Extends
  <2>7. Cardinality(Blanks)' = Len(handled) + IF Pending' THEN 1 ELSE 0
    <3>1. Cardinality(Blanks) = Len(handled) /\ IsFiniteSet(Blanks)
          /\ Blanks \subseteq 1..Len(stream)
      <4>1. Blanks \subseteq 1..Len(stream) /\ IsFiniteSet(1..Len(stream))
        BY <1>3, FS_Interval, ReadFacts DEF Blanks
      <4>2. IsFiniteSet(Blanks)
        BY <4>1, FS_Subset
      <4> QED BY <2>1, <2>2, <2>5, <4>1, <4>2, ReadFacts DEF WaitInv, Pending
    <3>2. Pending' <=> k > 0 /\ IsBlank(stream'[Len(stream')])
      BY <1>1, <1>2, <1>5, <2>2, <2>5 DEF Pending
    <3>3. Blanks' = {i \in 1..(Len(stream) + k) : IsBlank(stream'[i])}
      BY <1>4 DEF Blanks
    <3>4. ASSUME NEW i \in 1..(Len(stream) + k), IsBlank(stream'[i]), i \notin Blanks
          PROVE  i = Len(stream') /\ k > 0
      <4>1. CASE i <= Len(stream)
        BY <1>3, <1>4, <3>4, <4>1, ReadFacts DEF Blanks
      <4>2. CASE i > Len(stream)
        BY <1>4, <1>6, <2>2, <2>4, <4>2, <3>4, ReadFacts
      <4> QED BY <4>1, <4>2, ReadFacts
    <3>5. \A i \in Blanks : i \in 1..(Len(stream) + k) /\ IsBlank(stream'[i])
      BY <1>3, <1>4, ReadFacts, SMTT(60) DEF Blanks
    <3>6. CASE Pending'
      <4>1. Len(stream') \notin Blanks /\ Len(stream') \in 1..(Len(stream) + k)
        BY <1>4, <3>1, <3>2, <3>6, ReadFacts
      <4>2. Blanks' = Blanks \cup {Len(stream')}
        BY <3>2, <3>3, <3>4, <3>5, <3>6, <4>1
      <4>3. Cardinality(Blanks \cup {Len(stream')}) = Cardinality(Blanks) + 1
        BY <3>1, <4>1, FS_AddElement
      <4> QED BY <3>1, <3>6, <4>2, <4>3
    <3>7. CASE ~Pending'
      <4>1. Blanks' = Blanks
        BY <3>2, <3>3, <3>4, <3>5, <3>7
      <4> QED BY <3>1, <3>7, <4>1, ReadFacts
    <3> QED BY <3>6, <3>7
  <2>8. DOMAIN stream' = 1..Len(stream')
    BY <1>4
  <2>9. /\ state_' = "kExpectRequestLine" =>
              (Read' = 0 \/ IsBlank(stream'[Read'])) /\ request_'.method_ = "kInvalid"
        /\ state_' = "kExpectHeaders" => Read' > 0 /\ ~IsBlank(stream'[Read'])
        /\ state_' # "kGotAll" /\ parsing' # "loop"
    <3>1. /\ state_ = "kExpectRequestLine" =>
                (Read = 0 \/ IsBlank(stream[Read])) /\ request_.method_ = "kInvalid"
          /\ state_ = "kExpectHeaders" => Read > 0 /\ ~IsBlank(stream[Read])
      BY <2>1 DEF WaitInv
    <3> QED BY <1>1, <1>6, <2>5, <2>6, <3>1, ReadFacts
  <2> QED BY <1>1, <2>3, <2>4, <2>7, <2>8, <2>9 DEF WaitInv
<1> QED BY <1>9, <1>10, <1>11, <1>12, <1>13

(* Parsing a line leaves what was handled and answered alone.              *)
LEMMA ParsedFacts ==
    ASSUME ServerInv, handled' = handled, stream' = stream, wire' = wire, conn' = conn,
           Read' \in Nat, Ended <= Read'
    PROVE  HandledInv' /\ WireInv' /\ Ended' = Ended /\ Blanks' = Blanks
<1>1. Extends
  BY DEF Extends
<1>2. HandledInv' /\ Ended' = Ended
  BY <1>1, HandledKept DEF ServerInv
<1>3. WireInv'
  BY <1>1, AnswersKept DEF ServerInv
<1> QED BY <1>2, <1>3 DEF Blanks

(* A line retrieved is the next of the stream, and with it go the types.   *)
LEMMA NextLineFacts ==
    ASSUME ServerInv, parsing = "parse", input # <<>>
    PROVE  /\ input[1] = stream[Read + 1] /\ Read + 1 \in 1..Len(stream)
           /\ input[1] \in Lines
<1>1. input \in Seq(Lines) /\ Len(input) \in Nat
  BY ReadFacts DEF ServerInv, Server!TypeOK
<1>2. 1 \in 1..Len(input)
  BY <1>1
<1>3. input[1] \in Lines
  BY <1>1, <1>2
<1>4. input[1] = stream[Read + 1]
  BY <1>2, ReadFacts DEF ServerInv
<1> QED BY <1>1, <1>2, <1>3, <1>4, ReadFacts DEF ServerInv

(* A request line of the right form begins a request.                      *)
LEMMA ParseRequestLineStep ==
    ASSUME ServerInv, Server!ParseRequestLine
    PROVE  ServerInv'
<1> DEFINE l == input[1]
<1>1. /\ parsing = "parse" /\ state_ = "kExpectRequestLine" /\ input # <<>>
      /\ Server!Retrieve /\ state_' = "kExpectHeaders"
      /\ conn' = conn /\ parsing' = parsing /\ wire' = wire /\ stream' = stream
      /\ handled' = handled /\ waits' = waits
  BY DEF Server!ParseRequestLine
<1>2. /\ Read' = Read + 1 /\ l = stream[Read + 1] /\ Read + 1 <= Len(stream)
      /\ input' \in Seq(Lines) /\ Len(input') = Len(input) - 1
  BY <1>1, Retrieving DEF ServerInv
<1>0. input' = SubSeq(stream', Read' + 1, Len(stream'))
  BY <1>1, Retrieving DEF ServerInv
<1>3. Read = Ended /\ Read \in Nat /\ request_.connection = Server!NoHeader /\ Read' \in Nat
  BY <1>1, <1>2, ReadFacts DEF ServerInv, RequestInv
<1>4. /\ Server!setMethod(l.word) # "kInvalid" /\ Server!VersionOf(l.version) # "kUnknow"
      /\ request_' = [request_ EXCEPT !.method_ = Server!setMethod(l.word),
                                      !.version_ = Server!VersionOf(l.version)]
  BY DEF Server!processRequestLine, Server!ParseRequestLine
<1>5. /\ Server!setMethod(l.word) \in {"kGet", "kPost", "kHead", "kDelete"}
      /\ l.word \in Server!Methods
  BY <1>4 DEF Server!setMethod, Server!Methods
<1>6. /\ Server!VersionOf(l.version) \in {"kHttp10", "kHttp11"}
      /\ l.version \in Server!Versions
      /\ Server!VersionOf(l.version) = "kHttp10" <=> l.version = "HTTP/1.0"
  BY <1>4 DEF Server!VersionOf, Server!Versions
<1>7. Server!IsRequestLine(l)
  BY <1>5, <1>6 DEF Server!IsRequestLine
<1>8. request_ \in [method_ : {"kInvalid", "kGet", "kPost", "kHead", "kDelete"},
                   version_ : {"kUnknow", "kHttp10", "kHttp11"},
                   connection : {Server!NoHeader} \cup {m.value : m \in Lines}]
  BY DEF ServerInv, Server!TypeOK
<1>9. /\ request_' \in [method_ : {"kInvalid", "kGet", "kPost", "kHead", "kDelete"},
                        version_ : {"kUnknow", "kHttp10", "kHttp11"},
                        connection : {Server!NoHeader} \cup {m.value : m \in Lines}]
      /\ request_'.version_ = Server!VersionOf(l.version) /\ request_'.connection = Server!NoHeader
  BY <1>3, <1>4, <1>5, <1>6, <1>8
<1>10. Server!TypeOK'
  <2>1. stream \in Seq(Lines) /\ conn \in {"kConnected", "kDisconnecting"} /\ waits \in BOOLEAN
    BY DEF ServerInv, Server!TypeOK
  <2>2. Server!Retrieved' = Read' /\ Read' >= 0
    BY <1>3 DEF Read
  <2> QED BY <1>0, <1>1, <1>2, <1>9, <2>1, <2>2 DEF Server!TypeOK
<1>11. HandledInv' /\ WireInv' /\ Ended' = Ended /\ Blanks' = Blanks
  BY <1>1, <1>2, <1>3, ParsedFacts
<1>12. RequestInv'
  <2>1. LastValue(stream', Server!NoHeader, Ended + 2, Read')
    BY <1>2, <1>3 DEF LastValue
  <2>2. (Ended + 2)..Read' = {}
    BY <1>2, <1>3
  <2>3. Ended < Read' /\ stream'[Ended + 1] = l
    BY <1>1, <1>2, <1>3
  <2> QED BY <1>1, <1>6, <1>7, <1>9, <1>11, <2>1, <2>2, <2>3 DEF RequestInv
<1>13. WaitInv'
  <2> SUFFICES ASSUME waits'
               PROVE  WaitInv'
    BY DEF WaitInv
  <2>0. waits
    BY <1>1
  <2>1. ~IsBlank(l)
    BY <1>5 DEF IsBlank, Server!Blank, Server!HeaderLine, Server!None, Server!Methods
  <2>2. /\ \A i \in DOMAIN stream' :
              IF i = 1 \/ IsBlank(stream'[i - 1]) THEN Server!IsRequestLine(stream'[i])
              ELSE Server!HasColon(stream'[i]) \/ IsBlank(stream'[i])
        /\ \A i \in (Read + 1)..Len(stream') : IsBlank(stream'[i]) => i = Len(stream')
    BY <1>1, <2>0 DEF ServerInv, WaitInv
  <2>3. \A i \in (Read' + 1)..Len(stream') : IsBlank(stream'[i]) => i = Len(stream')
    BY <1>1, <1>2, <1>3, <2>2, ReadFacts DEF ServerInv
  <2>4. Cardinality(Blanks') = Len(handled') + IF Pending' THEN 1 ELSE 0
    <3>1. Cardinality(Blanks) = Len(handled) + IF Pending THEN 1 ELSE 0
      BY <2>0 DEF ServerInv, WaitInv
    <3>2. Pending <=> IsBlank(stream[Len(stream)])
      BY <1>1 DEF Pending
    <3>3. Pending' <=> input' # <<>> /\ IsBlank(stream[Len(stream)])
      BY <1>1 DEF Pending
    <3>4. CASE input' = <<>>
      <4>1. Read + 1 = Len(stream)
        <5>1. Len(input') = 0
          BY <3>4
        <5>2. Len(input) \in Nat /\ Read \in Nat /\ Read + Len(input) = Len(stream)
          BY ReadFacts DEF ServerInv
        <5>3. Len(input') = Len(input) - 1
          BY <1>2
        <5>4. Len(input) = 1
          BY <5>1, <5>2, <5>3
        <5> QED BY <5>2, <5>4
      <4> QED BY <1>1, <1>2, <1>11, <2>1, <3>1, <3>2, <3>3, <3>4, <4>1
    <3>5. CASE input' # <<>>
      BY <1>1, <1>11, <3>1, <3>2, <3>3, <3>5
    <3> QED BY <3>4, <3>5
  <2>5. Read' > 0 /\ ~IsBlank(stream'[Read'])
    BY <1>1, <1>2, <1>3, <2>1
  <2> QED BY <1>1, <2>2, <2>3, <2>4, <2>5 DEF WaitInv
<1> QED BY <1>10, <1>11, <1>12, <1>13 DEF ServerInv

(* "400 Bad Request" answers none of them, and is the last that is sent.   *)
LEMMA BadRequestStep ==
    ASSUME ServerInv, Server!BadRequest
    PROVE  ServerInv'
<1> DEFINE l == input[1]
<1>1. /\ parsing = "parse" /\ state_ = "kExpectRequestLine" /\ input # <<>>
      /\ Server!MethodAssert(l) /\ parsing' = "loop"
      /\ input' = input /\ state_' = state_ /\ stream' = stream
      /\ handled' = handled /\ waits' = waits /\ conn' = "kDisconnecting"
  BY DEF Server!BadRequest, Server!shutdown
<1>2. wire' = IF conn = "kConnected"
              THEN Append(wire, [to |-> 0, status |-> "400", close |-> TRUE, chosen |-> TRUE])
              ELSE wire
  BY DEF Server!BadRequest, Server!send
<1>3. /\ Server!setMethod(l.word) = "kInvalid" \/ Server!VersionOf(l.version) = "kUnknow"
      /\ request_' = [request_ EXCEPT !.method_ = Server!setMethod(l.word),
                                      !.version_ = request_.version_]
  BY DEF Server!BadRequest, Server!processRequestLine
<1>4. Server!setMethod(l.word) \in {"kInvalid", "kGet", "kPost", "kHead", "kDelete"}
  BY DEF Server!setMethod
<1>5. /\ request_' \in [method_ : {"kInvalid", "kGet", "kPost", "kHead", "kDelete"},
                        version_ : {"kUnknow", "kHttp10", "kHttp11"},
                        connection : {Server!NoHeader} \cup {m.value : m \in Lines}]
      /\ request_'.connection = request_.connection
  BY <1>3, <1>4 DEF ServerInv, Server!TypeOK
<1>6. /\ Read' = Read /\ Read \in Nat /\ Ended <= Read
  BY <1>1, ReadFacts DEF ServerInv, Read, Server!Retrieved
<1>7. Server!TypeOK'
  <2>1. Server!Retrieved' = Server!Retrieved
    BY <1>1 DEF Server!Retrieved
  <2> QED BY <1>1, <1>5, <2>1 DEF ServerInv, Server!TypeOK
<1>8. HandledInv' /\ Ended' = Ended /\ Extends
  <2>1. Extends
    BY <1>1 DEF Extends
  <2> QED BY <1>1, <1>6, <2>1, HandledKept DEF ServerInv
<1>9. RequestInv'
  BY <1>1, <1>5, <1>6, <1>8 DEF ServerInv, RequestInv
<1>10. WireInv'
  <2>1. CASE conn # "kConnected"
    <3>1. wire' = wire /\ conn' = conn
      BY <1>1, <1>2, <2>1 DEF ServerInv, Server!TypeOK
    <3> QED BY <1>1, <1>8, <3>1, AnswersKept DEF ServerInv
  <2>2. CASE conn = "kConnected"
    <3> DEFINE a == [to |-> 0, status |-> "400", close |-> TRUE, chosen |-> TRUE]
    <3>1. wire \in Seq(Answers) /\ a \in Answers /\ wire' = Append(wire, a)
      <4>1. wire \in Seq(Answers)
        BY DEF ServerInv, WireInv
      <4>2. a \in Answers
        BY DEF Answers
      <4> QED BY <1>2, <2>2, <4>1, <4>2
    <3>2. /\ wire' \in Seq(Answers) /\ Len(wire') = Len(wire) + 1 /\ Len(wire) \in Nat
          /\ \A i \in 1..Len(wire) : wire'[i] = wire[i] /\ i \in DOMAIN wire
          /\ wire'[Len(wire) + 1] = a
      <4> HIDE DEF a
      <4> QED BY <3>1, AppendProperties
    <3>3. DOMAIN wire' = 1..(Len(wire) + 1) /\ DOMAIN wire = 1..Len(wire)
      <4> HIDE DEF a
      <4> QED BY <3>1, <3>2
    <3>4. \A i \in DOMAIN wire' : i \in DOMAIN wire \/ i = Len(wire) + 1
      BY <3>2, <3>3
    <3>5. /\ a.to = 0 /\ a.status = "400" /\ a.close = TRUE
      OBVIOUS
    <3> HIDE DEF a
    <3>6. \A i \in DOMAIN wire : ~wire[i].close /\ wire'[i] = wire[i] /\ i # Len(wire) + 1
      BY <2>2, <3>2, <3>3 DEF ServerInv, WireInv, Server!AnswersInOrder
    <3>7. Server!AnswersInOrder'
      <4>1. \A i \in DOMAIN wire' :
               wire'[i].to = IF wire'[i].status = "400" THEN 0 ELSE i
        BY <3>2, <3>4, <3>5, <3>6 DEF ServerInv, WireInv, Server!AnswersInOrder
      <4>2. \A i \in DOMAIN wire' :
               wire'[i].close <=> (i = Len(wire') /\ conn' = "kDisconnecting")
        BY <1>1, <3>2, <3>4, <3>5, <3>6
      <4> QED BY <4>1, <4>2 DEF Server!AnswersInOrder
    <3>8. Server!PersistsAsAsked'
      <4>1. \A i : /\ Server!First(i)' = Server!First(i) /\ Server!Headers(i)' = Server!Headers(i)
        BY <1>1 DEF Server!First, Server!Headers
      <4>2. \A i : Server!Asked(i)' = Server!Asked(i)
        BY <1>1, <4>1, AskedIs
      <4>3. \A i \in DOMAIN wire' : wire'[i].to # 0 => i \in DOMAIN wire /\ wire'[i] = wire[i]
        BY <3>2, <3>4, <3>5, <3>6
      <4> QED BY <1>1, <4>1, <4>2, <4>3 DEF ServerInv, WireInv, Server!PersistsAsAsked
    <3>9. \A i \in DOMAIN wire' : wire'[i].to <= Len(handled')
      BY <1>1, <3>2, <3>4, <3>5, <3>6, ReadFacts DEF ServerInv, WireInv
    <3>10. wire' \in Seq(Answers)
      BY <3>2 DEF Answers
    <3> QED BY <1>1, <3>7, <3>8, <3>9, <3>10 DEF WireInv
  <2> QED BY <2>1, <2>2
<1>11. WaitInv'
  <2> SUFFICES ASSUME waits
               PROVE  FALSE
    BY <1>1 DEF WaitInv
  <2>1. l = stream[Read + 1] /\ Read + 1 \in 1..Len(stream)
    BY <1>1, NextLineFacts
  <2>2. Read = 0 \/ IsBlank(stream[Read])
    BY <1>1 DEF ServerInv, WaitInv
  <2>3. stream \in Seq(Lines)
    BY DEF ServerInv, Server!TypeOK
  <2>4. Server!IsRequestLine(l)
    <3>1. Read + 1 \in DOMAIN stream
      BY <2>1, <2>3
    <3>2. (Read + 1) - 1 = Read /\ (Read + 1 = 1 <=> Read = 0)
      BY <1>6
    <3>3. IF Read + 1 = 1 \/ IsBlank(stream[(Read + 1) - 1])
          THEN Server!IsRequestLine(stream[Read + 1])
          ELSE Server!HasColon(stream[Read + 1]) \/ IsBlank(stream[Read + 1])
      BY <3>1 DEF ServerInv, WaitInv
    <3> QED BY <2>1, <2>2, <3>2, <3>3
  <2>5. Server!setMethod(l.word) # "kInvalid" /\ Server!VersionOf(l.version) # "kUnknow"
    BY <2>4 DEF Server!IsRequestLine, Server!Methods, Server!Versions, Server!setMethod,
                Server!VersionOf
  <2> QED BY <1>3, <2>5
<1> QED BY <1>7, <1>8, <1>9, <1>10, <1>11 DEF ServerInv

(* onMessage() goes back to the loop, or the program ends.                 *)
LEMMA IdleStep ==
    ASSUME ServerInv, parsing = "parse", parsing' \in {"loop", "aborted"},
           waits /\ parsing' = "loop" => input = <<>>,
           UNCHANGED <<input, state_, request_, conn, wire, stream, handled, waits>>
    PROVE  ServerInv'
<1>1. Read' = Read /\ Read \in Nat /\ Ended <= Read
  BY ReadFacts DEF ServerInv, Read, Server!Retrieved
<1>2. HandledInv' /\ WireInv' /\ Ended' = Ended /\ Blanks' = Blanks
  BY <1>1, ParsedFacts
<1>3. Server!TypeOK'
  <2>1. Server!Retrieved' = Server!Retrieved
    BY DEF Server!Retrieved
  <2> QED BY <2>1 DEF ServerInv, Server!TypeOK
<1>4. RequestInv'
  BY <1>1, <1>2 DEF ServerInv, RequestInv
<1>5. WaitInv'
  BY <1>1, <1>2 DEF ServerInv, WaitInv, Pending
<1> QED BY <1>2, <1>3, <1>4, <1>5 DEF ServerInv

(* While headers are expected, the lines since the request line are some.  *)
LEMMA HeaderFacts ==
    ASSUME ServerInv, parsing = "parse", state_ = "kExpectHeaders", input # <<>>,
           Server!Retrieve, stream' = stream, handled' = handled,
           wire' = wire, conn' = conn
    PROVE  /\ Read' = Read + 1 /\ Read + 1 <= Len(stream) /\ input[1] = stream[Read + 1]
           /\ Read \in Nat /\ Ended \in Nat /\ Ended < Read /\ Read' \in Nat
           /\ HandledInv' /\ WireInv' /\ Ended' = Ended /\ Blanks' = Blanks
           /\ Server!IsRequestLine(stream[Ended + 1])
           /\ request_.version_ = "kHttp10" <=> stream[Ended + 1].version = "HTTP/1.0"
           /\ \A j \in (Ended + 2)..Read : Server!HasColon(stream[j])
           /\ LastValue(stream, request_.connection, Ended + 2, Read)
<1>1. Read' = Read + 1 /\ Read + 1 <= Len(stream) /\ input[1] = stream[Read + 1]
  BY Retrieving DEF ServerInv
<1>2. Read \in Nat /\ Ended \in Nat /\ Ended <= Read
  BY ReadFacts DEF ServerInv
<1>3. HandledInv' /\ WireInv' /\ Ended' = Ended /\ Blanks' = Blanks
  BY <1>1, <1>2, ParsedFacts
<1>4. /\ Ended < Read
      /\ Server!IsRequestLine(stream[Ended + 1])
      /\ request_.version_ = "kHttp10" <=> stream[Ended + 1].version = "HTTP/1.0"
      /\ \A j \in (Ended + 2)..Read : Server!HasColon(stream[j])
      /\ LastValue(stream, request_.connection, Ended + 2, Read)
  BY DEF ServerInv, RequestInv
<1> QED BY <1>1, <1>2, <1>3, <1>4

(* A further line tells the last Connection header anew.                   *)
LEMMA LastValueNext ==
    ASSUME NEW q, NEW c, NEW d, NEW from \in Nat, NEW to \in Nat, from <= to + 1,
           LastValue(q, c, from, to),
           d = IF IsConnection(q[to + 1]) THEN q[to + 1].value ELSE c
    PROVE  LastValue(q, d, from, to + 1)
<1>1. CASE IsConnection(q[to + 1])
  <2>1. to + 1 \in from..(to + 1) /\ q[to + 1].value = d
        /\ \A k \in ((to + 1) + 1)..(to + 1) : ~IsConnection(q[k])
    BY <1>1
  <2> QED BY <1>1, <2>1 DEF LastValue
<1>2. CASE ~IsConnection(q[to + 1])
  <2>1. ASSUME c = Server!NoHeader, \A j \in from..to : ~IsConnection(q[j])
        PROVE  LastValue(q, c, from, to + 1)
    <3>1. \A j \in from..(to + 1) : j \in from..to \/ j = to + 1
      OBVIOUS
    <3> QED BY <1>2, <2>1, <3>1 DEF LastValue
  <2>2. ASSUME NEW j \in from..to, IsConnection(q[j]), q[j].value = c,
               \A k \in (j + 1)..to : ~IsConnection(q[k])
        PROVE  LastValue(q, c, from, to + 1)
    <3>1. \A k \in (j + 1)..(to + 1) : k \in (j + 1)..to \/ k = to + 1
      OBVIOUS
    <3>2. j \in from..(to + 1)
      OBVIOUS
    <3> QED BY <1>2, <2>2, <3>1, <3>2 DEF LastValue
  <2> QED BY <1>2, <2>1, <2>2 DEF LastValue
<1> QED BY <1>1, <1>2

(* A header may set what the request asks of the connection.               *)
LEMMA ParseHeaderStep ==
    ASSUME ServerInv, Server!ParseHeader
    PROVE  ServerInv'
<1> DEFINE l == input[1]
<1>1. /\ parsing = "parse" /\ state_ = "kExpectHeaders" /\ input # <<>>
      /\ Server!HasColon(l) /\ Server!Retrieve
      /\ UNCHANGED <<state_, conn, parsing, wire, stream, handled, waits>>
      /\ request_' = IF l.field = "Connection" THEN [request_ EXCEPT !.connection = l.value]
                     ELSE request_
  BY DEF Server!ParseHeader, Server!addHeader
<1>2. /\ Read' = Read + 1 /\ Read + 1 <= Len(stream) /\ l = stream[Read + 1]
      /\ Read \in Nat /\ Ended \in Nat /\ Ended < Read /\ Read' \in Nat
      /\ HandledInv' /\ WireInv' /\ Ended' = Ended /\ Blanks' = Blanks
  BY <1>1, HeaderFacts
<1>3. /\ Server!IsRequestLine(stream[Ended + 1])
      /\ request_.version_ = "kHttp10" <=> stream[Ended + 1].version = "HTTP/1.0"
      /\ \A j \in (Ended + 2)..Read : Server!HasColon(stream[j])
      /\ LastValue(stream, request_.connection, Ended + 2, Read)
  BY <1>1, HeaderFacts
<1>4. l \in Lines /\ input' \in Seq(Lines) /\ Len(input') = Len(input) - 1
      /\ input' = SubSeq(stream', Read' + 1, Len(stream'))
  BY <1>1, Retrieving DEF ServerInv
<1>5. /\ request_' \in [method_ : {"kInvalid", "kGet", "kPost", "kHead", "kDelete"},
                        version_ : {"kUnknow", "kHttp10", "kHttp11"},
                        connection : {Server!NoHeader} \cup {m.value : m \in Lines}]
      /\ request_'.version_ = request_.version_ /\ request_'.method_ = request_.method_
      /\ request_'.connection = IF IsConnection(l) THEN l.value ELSE request_.connection
  BY <1>1, <1>4 DEF ServerInv, Server!TypeOK, IsConnection
<1>6. Server!TypeOK'
  <2>1. Server!Retrieved' = Read' /\ Read' >= 0
    BY <1>2 DEF Read
  <2> QED BY <1>1, <1>4, <1>5, <2>1 DEF ServerInv, Server!TypeOK
<1>7. RequestInv'
  <2>1. LastValue(stream, request_'.connection, Ended + 2, Read + 1)
    <3>1. Ended + 2 \in Nat /\ Ended + 2 <= Read + 1
      BY <1>2
    <3> QED BY <1>2, <1>3, <1>5, <3>1, LastValueNext
  <2>2. \A j \in (Ended + 2)..(Read + 1) : j \in (Ended + 2)..Read \/ j = Read + 1
    BY <1>2
  <2>3. \A j \in (Ended + 2)..(Read + 1) : Server!HasColon(stream[j])
    BY <1>1, <1>2, <1>3, <2>2
  <2> QED BY <1>1, <1>2, <1>3, <1>5, <2>1, <2>3 DEF RequestInv
<1>8. WaitInv'
  <2> SUFFICES ASSUME waits'
               PROVE  WaitInv'
    BY DEF WaitInv
  <2>0. waits
    BY <1>1
  <2>1. ~IsBlank(l)
    BY <1>1 DEF IsBlank, Server!HasColon, Server!Blank, Server!HeaderLine
  <2>2. /\ \A i \in DOMAIN stream' :
              IF i = 1 \/ IsBlank(stream'[i - 1]) THEN Server!IsRequestLine(stream'[i])
              ELSE Server!HasColon(stream'[i]) \/ IsBlank(stream'[i])
        /\ \A i \in (Read + 1)..Len(stream') : IsBlank(stream'[i]) => i = Len(stream')
    BY <1>1, <2>0 DEF ServerInv, WaitInv
  <2>3. \A i \in (Read' + 1)..Len(stream') : IsBlank(stream'[i]) => i = Len(stream')
    BY <1>1, <1>2, <2>2, ReadFacts DEF ServerInv
  <2>4. Cardinality(Blanks') = Len(handled') + IF Pending' THEN 1 ELSE 0
    <3>1. Cardinality(Blanks) = Len(handled) + IF Pending THEN 1 ELSE 0
      BY <2>0 DEF ServerInv, WaitInv
    <3>2. Pending <=> IsBlank(stream[Len(stream)])
      BY <1>1 DEF Pending
    <3>3. Pending' <=> input' # <<>> /\ IsBlank(stream[Len(stream)])
      BY <1>1 DEF Pending
    <3>4. CASE input' = <<>>
      <4>1. Read + 1 = Len(stream)
        <5>1. Len(input') = 0
          BY <3>4
        <5>2. Len(input) \in Nat /\ Read \in Nat /\ Read + Len(input) = Len(stream)
          BY ReadFacts DEF ServerInv
        <5>3. Len(input') = Len(input) - 1
          BY <1>4
        <5>4. Len(input) = 1
          BY <5>1, <5>2, <5>3
        <5> QED BY <5>2, <5>4
      <4> QED BY <1>1, <1>2, <2>1, <3>1, <3>2, <3>3, <3>4, <4>1
    <3>5. CASE input' # <<>>
      BY <1>1, <1>2, <3>1, <3>2, <3>3, <3>5
    <3> QED BY <3>4, <3>5
  <2>5. Read' > 0 /\ ~IsBlank(stream'[Read'])
    BY <1>1, <1>2, <2>1
  <2> QED BY <1>1, <2>2, <2>3, <2>4, <2>5 DEF WaitInv
<1> QED BY <1>2, <1>6, <1>7, <1>8 DEF ServerInv

(* The line that is no header ends the request.                            *)
LEMMA EndOfHeadersStep ==
    ASSUME ServerInv, Server!EndOfHeaders
    PROVE  ServerInv'
<1> DEFINE l == input[1]
<1>1. /\ parsing = "parse" /\ state_ = "kExpectHeaders" /\ input # <<>>
      /\ ~Server!HasColon(l) /\ Server!Retrieve
      /\ state_' = "kGotAll" /\ parsing' = "request"
      /\ UNCHANGED <<request_, conn, wire, stream, handled, waits>>
  BY DEF Server!EndOfHeaders
<1>2. /\ Read' = Read + 1 /\ Read + 1 <= Len(stream) /\ l = stream[Read + 1]
      /\ Read \in Nat /\ Ended \in Nat /\ Ended < Read /\ Read' \in Nat
      /\ HandledInv' /\ WireInv' /\ Ended' = Ended /\ Blanks' = Blanks
  BY <1>1, HeaderFacts
<1>3. /\ Server!IsRequestLine(stream[Ended + 1])
      /\ request_.version_ = "kHttp10" <=> stream[Ended + 1].version = "HTTP/1.0"
      /\ \A j \in (Ended + 2)..Read : Server!HasColon(stream[j])
      /\ LastValue(stream, request_.connection, Ended + 2, Read)
  BY <1>1, HeaderFacts
<1>4. input' \in Seq(Lines) /\ input' = SubSeq(stream', Read' + 1, Len(stream'))
  BY <1>1, Retrieving DEF ServerInv
<1>5. Server!TypeOK'
  <2>1. Server!Retrieved' = Read' /\ Read' >= 0
    BY <1>2 DEF Read
  <2> QED BY <1>1, <1>4, <2>1 DEF ServerInv, Server!TypeOK
<1>6. RequestInv'
  <2>1. Read' - 1 = Read /\ stream'[Read'] = l
    BY <1>1, <1>2
  <2> QED BY <1>1, <1>2, <1>3, <2>1 DEF RequestInv
<1>7. WaitInv'
  <2> SUFFICES ASSUME waits'
               PROVE  WaitInv'
    BY DEF WaitInv
  <2>0. waits
    BY <1>1
  <2>1. /\ \A i \in DOMAIN stream :
              IF i = 1 \/ IsBlank(stream[i - 1]) THEN Server!IsRequestLine(stream[i])
              ELSE Server!HasColon(stream[i]) \/ IsBlank(stream[i])
        /\ \A i \in (Read + 1)..Len(stream) : IsBlank(stream[i]) => i = Len(stream)
        /\ Read > 0 /\ ~IsBlank(stream[Read])
        /\ Cardinality(Blanks) = Len(handled) + IF Pending THEN 1 ELSE 0
    BY <1>1, <2>0 DEF ServerInv, WaitInv
  <2>2. IsBlank(l) /\ Len(stream) = Read + 1
    <3>1. Len(stream) \in Nat /\ DOMAIN stream = 1..Len(stream)
      BY ReadFacts DEF ServerInv, Server!TypeOK
    <3>0. Read \in Nat /\ Read > 0 /\ Read + 1 <= Len(stream)
      BY <1>2, <2>1
    <3>2. Read + 1 \in DOMAIN stream /\ Read + 1 # 1 /\ (Read + 1) - 1 = Read
          /\ Read + 1 \in (Read + 1)..Len(stream)
      BY <3>0, <3>1
    <3>3. IsBlank(stream[Read + 1])
      <4>1. IF Read + 1 = 1 \/ IsBlank(stream[(Read + 1) - 1])
            THEN Server!IsRequestLine(stream[Read + 1])
            ELSE Server!HasColon(stream[Read + 1]) \/ IsBlank(stream[Read + 1])
        BY <2>1, <3>2
      <4> QED BY <1>1, <1>2, <2>1, <3>2, <4>1
    <3>4. Read + 1 = Len(stream)
      BY <2>1, <3>2, <3>3
    <3> QED BY <1>2, <3>3, <3>4
  <2>3. Pending /\ Pending'
    BY <1>1, <1>2, <2>2 DEF Pending
  <2>4. Read' = Len(stream') /\ IsBlank(stream'[Read'])
    BY <1>1, <1>2, <2>2
  <2>5. \A i \in (Read' + 1)..Len(stream') : IsBlank(stream'[i]) => i = Len(stream')
    BY <1>2, <2>4
  <2> QED BY <1>1, <1>2, <2>1, <2>3, <2>4, <2>5 DEF WaitInv
<1> QED BY <1>2, <1>5, <1>6, <1>7 DEF ServerInv

(* The request that onRequest() handles, and what it asks for.             *)
LEMMA OnRequestFacts ==
    ASSUME ServerInv, NEW status \in {"200", "404"}, NEW chosen \in BOOLEAN,
           Server!onRequest(status, chosen)
    PROVE  /\ Len(handled) \in Nat /\ Len(handled') = Len(handled) + 1
           /\ handled' \in Seq(Requests)
           /\ \A i \in 1..Len(handled) : handled'[i] = handled[i]
           /\ handled'[Len(handled) + 1].end = Read
           /\ Read \in Nat /\ Ended \in Nat /\ Ended + 1 < Read /\ Read <= Len(stream)
           /\ Read' = Read /\ Ended' = Read /\ stream' = stream
           /\ \A i \in 1..(Len(handled) + 1) : Server!First(i)' = Server!First(i)
           /\ Server!First(Len(handled) + 1) = Ended + 1
           /\ \A i \in 1..Len(handled) : Server!Asked(i)' = Server!Asked(i)
           /\ \A i : i = Len(handled) + 1 => Server!Asked(i)' = request_.connection
           /\ LastValue(stream, request_.connection, Ended + 2, Read - 1)
           /\ Server!IsRequestLine(stream[Ended + 1])
           /\ request_.version_ = "kHttp10" <=> stream[Ended + 1].version = "HTTP/1.0"
           /\ \A j \in (Ended + 2)..(Read - 1) : Server!HasColon(stream[j])
           /\ ~Server!HasColon(stream[Read])
<1> DEFINE n == Len(handled)
           h == [method_ |-> request_.method_, status |-> status, end |-> Read]
<1>1. /\ parsing = "request" /\ handled' = Append(handled, h)
      /\ input' = input /\ stream' = stream
  BY DEF Server!onRequest, Read
<1>2. state_ = "kGotAll" /\ request_.method_ \in MethodCodes
  BY <1>1 DEF ServerInv, Server!TypeOK, MethodCodes
<1>3. /\ Read \in Nat /\ Ended \in Nat /\ n \in Nat /\ Server!First(n + 1) = Ended + 1
      /\ Len(input) \in Nat /\ Read + Len(input) = Len(stream)
  BY ReadFacts DEF ServerInv
<1>4. handled \in Seq(Requests) /\ h \in Requests
  BY <1>2, <1>3 DEF ServerInv, HandledInv, Requests
<1>5. /\ handled' \in Seq(Requests) /\ Len(handled') = n + 1
      /\ \A i \in 1..n : handled'[i] = handled[i]
      /\ handled'[n + 1] = h
  <2> HIDE DEF h
  <2> QED BY <1>1, <1>4, AppendProperties
<1>6. handled'[n + 1].end = Read
  BY <1>5
<1> HIDE DEF h
<1>7. Read' = Read /\ Ended' = Read
  <2>1. handled' # <<>>
    <3> QED BY <1>3, <1>5
  <2> QED BY <1>1, <1>5, <1>6, <2>1 DEF Read, Server!Retrieved, Ended
<1>8. ASSUME NEW i \in 1..(n + 1)
      PROVE  Server!First(i)' = Server!First(i)
  <2>1. CASE i = 1
    BY <2>1 DEF Server!First
  <2>2. CASE i # 1
    <3>1. i - 1 \in 1..n
      BY <1>3, <2>2
    <3>2. handled'[i - 1] = handled[i - 1]
      BY <1>5, <3>1
    <3> QED BY <2>2, <3>2 DEF Server!First
  <2> QED BY <2>1, <2>2
<1>9. ASSUME NEW i \in 1..n
      PROVE  Server!Asked(i)' = Server!Asked(i)
  <2>1. i \in 1..(n + 1)
    BY <1>3
  <2>2. Server!First(i)' = Server!First(i) /\ handled'[i] = handled[i]
    BY <1>5, <1>8, <2>1
  <2> QED BY <1>1, <2>2, AskedIs
<1>10. /\ Ended < Read - 1
       /\ LastValue(stream, request_.connection, Ended + 2, Read - 1)
       /\ Server!IsRequestLine(stream[Ended + 1])
       /\ request_.version_ = "kHttp10" <=> stream[Ended + 1].version = "HTTP/1.0"
       /\ \A j \in (Ended + 2)..(Read - 1) : Server!HasColon(stream[j])
       /\ ~Server!HasColon(stream[Read])
  BY <1>2 DEF ServerInv, RequestInv
<1>11. ASSUME NEW i, i = n + 1
       PROVE  Server!Asked(i)' = request_.connection
  <2>1. i \in 1..(n + 1) /\ Ended + 2 \in Nat /\ Read - 1 \in Int
        /\ (Ended + 1) + 1 = Ended + 2
    BY <1>3, <1>11
  <2>2. Server!First(i)' = Ended + 1
    BY <1>3, <1>8, <1>11, <2>1
  <2>3. AskedIn(stream, (Ended + 2)..(Read - 1)) = request_.connection
    BY <1>10, <2>1, AskedValue
  <2>4. Server!Asked(i)' = AskedIn(stream', (Server!First(i)' + 1)..(handled'[i].end - 1))
    BY AskedIs
  <2> QED BY <1>1, <1>6, <1>11, <2>1, <2>2, <2>3, <2>4
<1>12. Ended + 1 < Read /\ Read <= Len(stream)
  BY <1>3, <1>10
<1> QED BY <1>1, <1>3, <1>5, <1>6, <1>7, <1>8, <1>9, <1>10, <1>11, <1>12

(* The request handled is the next of the stream, ...                      *)
LEMMA OnRequestHandled ==
    ASSUME ServerInv, NEW status \in {"200", "404"}, NEW chosen \in BOOLEAN,
           Server!onRequest(status, chosen)
    PROVE  HandledInv'
<1> DEFINE n == Len(handled)
<1>1. /\ n \in Nat /\ Len(handled') = n + 1
      /\ handled' \in Seq(Requests)
      /\ \A i \in 1..n : handled'[i] = handled[i]
      /\ handled'[n + 1].end = Read
      /\ Read \in Nat /\ Ended \in Nat /\ Ended + 1 < Read /\ Read <= Len(stream)
      /\ Read' = Read /\ Ended' = Read /\ stream' = stream
      /\ \A i \in 1..(n + 1) : Server!First(i)' = Server!First(i)
      /\ Server!First(n + 1) = Ended + 1
  BY OnRequestFacts
<1>2. /\ LastValue(stream, request_.connection, Ended + 2, Read - 1)
      /\ Server!IsRequestLine(stream[Ended + 1])
      /\ \A j \in (Ended + 2)..(Read - 1) : Server!HasColon(stream[j])
      /\ ~Server!HasColon(stream[Read])
  BY OnRequestFacts
<1>3. DOMAIN handled' = 1..(n + 1)
  BY <1>1
<1>4. DOMAIN handled = 1..n
  BY <1>1 DEF ServerInv, HandledInv
<1>5. \A i \in 1..(n + 1) : i \in 1..n \/ i = n + 1
  BY <1>1
<1>6. (Ended + 1) + 1 = Ended + 2
  BY <1>1
<1>7. ASSUME NEW i \in 1..n
      PROVE  /\ handled'[i].end <= Ended' /\ Server!First(i)' <= Ended'
             /\ \E c : LastValue(stream', c, Server!First(i)' + 1, handled'[i].end - 1)
             /\ Server!IsRequestLine(stream'[Server!First(i)'])
             /\ handled'[i].end > Server!First(i)'
             /\ ~Server!HasColon(stream'[handled'[i].end])
             /\ \A j \in (Server!First(i)' + 1)..(handled'[i].end - 1) :
                   Server!HasColon(stream'[j])
  <2>1. handled'[i] = handled[i] /\ Server!First(i)' = Server!First(i)
    BY <1>1
  <2>2. /\ \E c : LastValue(stream, c, Server!First(i) + 1, handled[i].end - 1)
        /\ Server!IsRequestLine(stream[Server!First(i)])
        /\ handled[i].end > Server!First(i)
        /\ ~Server!HasColon(stream[handled[i].end])
        /\ \A j \in (Server!First(i) + 1)..(handled[i].end - 1) :
              Server!HasColon(stream[j])
    BY <1>4 DEF ServerInv, HandledInv, Server!FramesTheStream, Server!Headers
  <2>3. handled[i].end \in Nat /\ Server!First(i) \in Nat
        /\ handled[i].end <= Ended /\ Server!First(i) < handled[i].end
    BY <1>4, HandledFacts DEF ServerInv
  <2>4. handled[i].end <= Read /\ Server!First(i) <= Read
    BY <1>1, <2>3
  <2> QED BY <1>1, <2>1, <2>2, <2>4
<1>8. ASSUME NEW i, i = n + 1
      PROVE  /\ handled'[i].end <= Ended' /\ Server!First(i)' <= Ended'
             /\ \E c : LastValue(stream', c, Server!First(i)' + 1, handled'[i].end - 1)
             /\ Server!IsRequestLine(stream'[Server!First(i)'])
             /\ handled'[i].end > Server!First(i)'
             /\ ~Server!HasColon(stream'[handled'[i].end])
             /\ \A j \in (Server!First(i)' + 1)..(handled'[i].end - 1) :
                   Server!HasColon(stream'[j])
  <2>1. handled'[i].end = Read /\ Server!First(i)' = Ended + 1
    BY <1>1, <1>8
  <2> QED BY <1>1, <1>2, <1>6, <2>1
<1>9. Server!FramesTheStream'
  <2>1. \A i \in DOMAIN handled' :
           /\ Server!IsRequestLine(stream'[Server!First(i)'])
           /\ handled'[i].end > Server!First(i)'
           /\ ~Server!HasColon(stream'[handled'[i].end])
           /\ \A j \in (Server!First(i)' + 1)..(handled'[i].end - 1) :
                 Server!HasColon(stream'[j])
    BY <1>3, <1>5, <1>7, <1>8
  <2> QED BY <2>1 DEF Server!FramesTheStream, Server!Headers
<1>10. Ended' <= Read'
  BY <1>1
<1> QED BY <1>1, <1>3, <1>5, <1>7, <1>8, <1>9, <1>10 DEF HandledInv

(* ... its answer the next that is sent, if any is sent still, ...         *)
LEMMA OnRequestAnswered ==
    ASSUME ServerInv, NEW status \in {"200", "404"}, NEW chosen \in BOOLEAN,
           Server!onRequest(status, chosen)
    PROVE  WireInv'
<1> DEFINE n == Len(handled)
           close == \/ request_.connection = "close"
                    \/ request_.version_ = "kHttp10" /\ request_.connection # "Keep-Alive"
                    \/ chosen
           a == [to |-> n + 1, status |-> Server!appendToBuffer(status),
                 close |-> close, chosen |-> chosen]
<1>1. /\ n \in Nat /\ Len(handled') = n + 1 /\ stream' = stream
      /\ \A i \in 1..(n + 1) : Server!First(i)' = Server!First(i)
      /\ Server!First(n + 1) = Ended + 1
      /\ \A i \in 1..n : Server!Asked(i)' = Server!Asked(i)
      /\ \A i : i = n + 1 => Server!Asked(i)' = request_.connection
      /\ request_.version_ = "kHttp10" <=> stream[Ended + 1].version = "HTTP/1.0"
  BY OnRequestFacts
<1>2. /\ wire' = IF conn = "kConnected" THEN Append(wire, a) ELSE wire
      /\ conn' = IF close THEN "kDisconnecting" ELSE conn
  BY DEF Server!onRequest, Server!send, Server!shutdown
<1>3. /\ wire \in Seq(Answers) /\ Server!AnswersInOrder /\ Server!PersistsAsAsked
      /\ \A i \in DOMAIN wire : wire[i].to <= n
      /\ conn = "kConnected" => Len(wire) = n
  BY DEF ServerInv, WireInv
<1>4. conn \in {"kConnected", "kDisconnecting"}
  BY DEF ServerInv, Server!TypeOK
<1>5. DOMAIN wire = 1..Len(wire) /\ Len(wire) \in Nat /\ \A i \in DOMAIN wire : wire[i] \in Answers
  <2> QED BY <1>3
<1>6. ASSUME NEW i \in DOMAIN wire, wire[i].to # 0, ~wire[i].chosen
      PROVE  wire[i].close <=> \/ Server!Asked(i)' = "close"
                               \/ /\ stream'[Server!First(i)'].version = "HTTP/1.0"
                                  /\ Server!Asked(i)' # "Keep-Alive"
  <2>1. wire[i].to = i /\ i <= n /\ i \in Nat \ {0}
    BY <1>3, <1>5, <1>6 DEF Server!AnswersInOrder
  <2>2. i \in 1..n /\ i \in 1..(n + 1)
    BY <1>1, <2>1
  <2>3. Server!Asked(i)' = Server!Asked(i) /\ Server!First(i)' = Server!First(i)
    BY <1>1, <2>2
  <2> QED BY <1>1, <1>3, <1>6, <2>3 DEF Server!PersistsAsAsked
<1>7. CASE conn # "kConnected"
  <2>1. wire' = wire /\ conn' = conn /\ conn' # "kConnected"
    BY <1>2, <1>4, <1>7
  <2>2. Server!AnswersInOrder'
    BY <1>3, <2>1 DEF Server!AnswersInOrder
  <2>3. Server!PersistsAsAsked'
    BY <1>6, <2>1 DEF Server!PersistsAsAsked
  <2>4. \A i \in DOMAIN wire' : wire'[i].to <= Len(handled')
    <3>1. \A i \in DOMAIN wire : wire[i].to \in Nat
      BY <1>5 DEF Answers
    <3> QED BY <1>1, <1>3, <2>1, <3>1
  <2> QED BY <1>3, <2>1, <2>2, <2>3, <2>4 DEF WireInv
<1>8. CASE conn = "kConnected"
  <2>1. a.to = n + 1 /\ a.status # "400" /\ a.chosen = chosen
        /\ a.status \in {"200", "404", "400", "none"}
    BY DEF Server!appendToBuffer, Server!None
  <2>2. a.close <=> close
    OBVIOUS
  <2>3. a \in Answers
    <3>1. close \in BOOLEAN /\ n + 1 \in Nat
      BY <1>1
    <3> HIDE DEF close
    <3> QED BY <2>1, <3>1 DEF Answers
  <2>4. /\ wire' \in Seq(Answers) /\ Len(wire') = n + 1
        /\ \A i \in 1..n : wire'[i] = wire[i]
        /\ wire'[n + 1] = a
    <3>1. wire' = Append(wire, a) /\ Len(wire) = n
      BY <1>2, <1>3, <1>8
    <3> HIDE DEF a
    <3> QED BY <1>3, <2>3, <3>1, AppendProperties
  <2>5. DOMAIN wire' = 1..(n + 1) /\ DOMAIN wire = 1..n
        /\ \A i \in 1..(n + 1) : i \in 1..n \/ i = n + 1
    <3> HIDE DEF a
    <3> QED BY <1>1, <1>3, <1>5, <1>8, <2>4
  <2>6. \A i \in 1..n : ~wire[i].close /\ i # n + 1
    BY <1>1, <1>3, <1>8, <2>5 DEF Server!AnswersInOrder
  <2>7. conn' = "kDisconnecting" <=> close
    BY <1>2, <1>8
  <2> HIDE DEF a, close
  <2>8. Server!AnswersInOrder'
    <3>1. \A i \in DOMAIN wire' : wire'[i].to = IF wire'[i].status = "400" THEN 0 ELSE i
      BY <1>3, <2>1, <2>4, <2>5 DEF Server!AnswersInOrder
    <3>2. \A i \in DOMAIN wire' :
             wire'[i].close <=> (i = Len(wire') /\ conn' = "kDisconnecting")
      BY <2>2, <2>4, <2>5, <2>6, <2>7
    <3> QED BY <3>1, <3>2 DEF Server!AnswersInOrder
  <2>9. Server!PersistsAsAsked'
    <3>1. ASSUME ~chosen, NEW i, i = n + 1
          PROVE  close <=> \/ Server!Asked(i)' = "close"
                           \/ /\ stream'[Server!First(i)'].version = "HTTP/1.0"
                              /\ Server!Asked(i)' # "Keep-Alive"
      <4>1. Server!First(i)' = Ended + 1
        <5>1. i \in 1..(n + 1)
          BY <1>1, <3>1
        <5> QED BY <1>1, <3>1, <5>1
      <4> QED BY <1>1, <3>1, <4>1 DEF close
    <3>2. \A i \in DOMAIN wire' : wire'[i].to # 0 /\ ~wire'[i].chosen =>
             (wire'[i].close <=> \/ Server!Asked(i)' = "close"
                                 \/ /\ stream'[Server!First(i)'].version = "HTTP/1.0"
                                    /\ Server!Asked(i)' # "Keep-Alive")
      BY <1>6, <2>1, <2>2, <2>4, <2>5, <3>1
    <3> QED BY <3>2 DEF Server!PersistsAsAsked
  <2>10. \A i \in DOMAIN wire' : wire'[i].to <= Len(handled')
    <3>1. \A i \in 1..n : wire[i].to \in Nat
      BY <1>5, <2>5 DEF Answers
    <3> QED BY <1>1, <1>3, <2>1, <2>4, <2>5, <3>1
  <2>11. Len(wire') = Len(handled')
    BY <1>1, <2>4
  <2> QED BY <2>4, <2>8, <2>9, <2>10, <2>11 DEF WireInv
<1> QED BY <1>7, <1>8

(* ... and reset() leaves nothing of it to the next but the version.       *)
LEMMA OnRequestStep ==
    ASSUME ServerInv, NEW status \in {"200", "404"}, NEW chosen \in BOOLEAN,
           Server!onRequest(status, chosen)
    PROVE  ServerInv'
<1>1. HandledInv' /\ WireInv'
  BY OnRequestHandled, OnRequestAnswered
<1>2. /\ parsing = "request" /\ state_' = "kExpectRequestLine" /\ parsing' = "loop"
      /\ input' = input /\ stream' = stream /\ waits' = waits
      /\ request_' = [Server!NewRequest EXCEPT !.version_ = request_.version_]
  BY DEF Server!onRequest, Server!reset
<1>3. conn' \in {"kConnected", "kDisconnecting"}
  BY DEF Server!onRequest, Server!shutdown, ServerInv, Server!TypeOK
<1>4. /\ Read' = Read /\ Ended' = Read /\ Len(handled') = Len(handled) + 1
      /\ Len(handled) \in Nat /\ Read \in Nat
  BY OnRequestFacts
<1>5. /\ request_' \in [method_ : {"kInvalid", "kGet", "kPost", "kHead", "kDelete"},
                        version_ : {"kUnknow", "kHttp10", "kHttp11"},
                        connection : {Server!NoHeader} \cup {m.value : m \in Lines}]
      /\ request_'.connection = Server!NoHeader /\ request_'.method_ = "kInvalid"
  BY <1>2 DEF ServerInv, Server!TypeOK, Server!NewRequest
<1>6. Server!TypeOK'
  <2>1. Server!Retrieved' = Server!Retrieved
    BY <1>2 DEF Server!Retrieved
  <2> QED BY <1>2, <1>3, <1>5, <2>1 DEF ServerInv, Server!TypeOK
<1>7. RequestInv'
  BY <1>2, <1>4, <1>5 DEF RequestInv
<1>8. WaitInv'
  <2> SUFFICES ASSUME waits
               PROVE  WaitInv'
    BY <1>2 DEF WaitInv
  <2>1. state_ = "kGotAll"
    BY <1>2 DEF ServerInv, Server!TypeOK
  <2>2. Read = Len(stream) /\ IsBlank(stream[Read])
        /\ Cardinality(Blanks) = Len(handled) + 1
    BY <2>1 DEF ServerInv, WaitInv, Pending
  <2>3. input = <<>>
    BY <2>2, ReadFacts DEF ServerInv, Server!TypeOK
  <2>4. ~Pending' /\ Blanks' = Blanks
    BY <1>2, <2>3 DEF Pending, Blanks
  <2>5. Cardinality(Blanks') = Len(handled') + 0
    BY <1>4, <2>2, <2>4
  <2> QED BY <1>2, <1>4, <1>5, <2>2, <2>3, <2>4, <2>5 DEF ServerInv, WaitInv
<1> QED BY <1>1, <1>6, <1>7, <1>8 DEF ServerInv

LEMMA ServerInit ==
    ASSUME HttpInit
    PROVE  ServerInv
<1>1. /\ input = <<>> /\ state_ = "kExpectRequestLine" /\ request_ = Server!NewRequest
      /\ conn = "kConnected" /\ parsing = "loop"
      /\ wire = <<>> /\ stream = <<>> /\ handled = <<>> /\ waits = TRUE
  BY DEF HttpInit, Server!Init
<1>2. Server!Retrieved = 0 /\ Read = 0 /\ Ended = 0
  BY <1>1 DEF Server!Retrieved, Read, Ended
<1>3. /\ request_ \in [method_ : {"kInvalid", "kGet", "kPost", "kHead", "kDelete"},
                      version_ : {"kUnknow", "kHttp10", "kHttp11"},
                      connection : {Server!NoHeader} \cup {m.value : m \in Lines}]
      /\ request_.connection = Server!NoHeader /\ request_.method_ = "kInvalid"
  BY <1>1 DEF Server!NewRequest
<1>4. Server!TypeOK
  <2>1. SubSeq(stream, 0 + 1, Len(stream)) = <<>>
    BY <1>1
  <2> QED BY <1>1, <1>2, <1>3, <2>1 DEF Server!TypeOK
<1>5. HandledInv
  BY <1>1, <1>2 DEF HandledInv, Server!FramesTheStream
<1>6. RequestInv
  BY <1>1, <1>2, <1>3 DEF RequestInv
<1>7. WireInv
  BY <1>1 DEF WireInv, Server!AnswersInOrder, Server!PersistsAsAsked
<1>8. WaitInv
  <2>1. ~Pending /\ Blanks = {}
    BY <1>1 DEF Pending, Blanks
  <2>2. Cardinality(Blanks) = Len(handled) + 0
    BY <1>1, <2>1, FS_EmptySet
  <2> QED BY <1>1, <1>2, <1>3, <2>1, <2>2 DEF WaitInv
<1> QED BY <1>4, <1>5, <1>6, <1>7, <1>8 DEF ServerInv

(* Whatever the server does, and whatever the Inspector.                   *)
LEMMA ServerStep ==
    ASSUME ServerInv, [HttpNext]_httpVars
    PROVE  ServerInv'
<1>1. ASSUME UNCHANGED server
      PROVE  ServerInv'
  <2>1. ServerInv' <=> ServerInv
    BY <1>1 DEF server, ServerInv, HandledInv, RequestInv, WireInv, WaitInv, Pending, Blanks,
                Ended, Read, Server!TypeOK, Server!Retrieved, Server!FramesTheStream,
                Server!Headers, Server!First, Server!Asked, Server!PersistsAsAsked,
                Server!AnswersInOrder
  <2> QED BY <2>1
<1>2. ASSUME Server!Next
      PROVE  ServerInv'
  <2>1. CASE Server!ParseRequestLine
    BY <2>1, ParseRequestLineStep
  <2>2. CASE Server!BadRequest
    BY <2>2, BadRequestStep
  <2>3. CASE Server!AssertFails
    BY <2>3, IdleStep DEF Server!AssertFails
  <2>4. CASE Server!ParseHeader
    BY <2>4, ParseHeaderStep
  <2>5. CASE Server!EndOfHeaders
    BY <2>5, EndOfHeadersStep
  <2>6. CASE Server!NeedMore
    BY <2>6, IdleStep DEF Server!NeedMore
  <2>7. ASSUME NEW status \in {"200", "404"}, NEW chosen \in BOOLEAN,
               Server!onRequest(status, chosen)
        PROVE  ServerInv'
    BY <2>7, OnRequestStep
  <2>8. ASSUME NEW k \in 0..MaxPerMessage, NEW ls \in [1..k -> Lines], Server!onMessage(ls)
        PROVE  ServerInv'
    <3>1. k \in Nat
      OBVIOUS
    <3> QED BY <2>8, <3>1, MessageStep
  <2> QED BY <1>2, <2>1, <2>2, <2>3, <2>4, <2>5, <2>6, <2>7, <2>8
          DEF Server!Next, Server!Step
<1> QED BY <1>1, <1>2 DEF HttpNext, ServerOnly, InspectorOnly, httpVars

(* HttpServer.cc:59-188: however the stream is cut into messages, the      *)
(* requests handled are those of the stream, the answers go out in order,  *)
(* each keeps or closes the connection as its request asks, and a client   *)
(* that waits is answered.                                                 *)
THEOREM StreamFollowed == HttpSpec => []FollowsStream
<1>1. HttpInit => ServerInv
  BY ServerInit
<1>2. ServerInv /\ [HttpNext]_httpVars => ServerInv'
  BY ServerStep
<1>3. ServerInv => FollowsStream
  <2> SUFFICES ASSUME ServerInv
               PROVE  FollowsStream
    OBVIOUS
  <2>1. Server!WaitingClientAnswered
    <3> SUFFICES ASSUME waits, parsing = "loop"
                 PROVE  Len(handled) =
                        Server!Cardinality({i \in DOMAIN stream : stream[i] = Server!Blank})
      BY DEF Server!WaitingClientAnswered
    <3>1. input = <<>> /\ state_ # "kGotAll"
      BY DEF ServerInv, WaitInv, Server!TypeOK
    <3>2. Cardinality(Blanks) = Len(handled) + 0 /\ Len(handled) \in Nat
      BY <3>1, ReadFacts DEF ServerInv, WaitInv, Pending
    <3>3. Server!Cardinality(Blanks) = Cardinality(Blanks)
      BY DEF Server!Cardinality, Cardinality
    <3> QED BY <3>2, <3>3 DEF Blanks, IsBlank
  <2> QED BY <2>1 DEF FollowsStream, ServerInv, HandledInv, WireInv
<1> QED BY <1>1, <1>2, <1>3, PTL DEF HttpSpec

-----------------------------------------------------------------------------
(***************************************************************************)
(* The Inspector: what is registered, and how a path is split.             *)
(***************************************************************************)
Members(q) == {q[i] : i \in DOMAIN q}
Rank(p, r) == Cardinality(Inspect!Before(p, r))

(* What of the path has been split off.                                    *)
Passed(p, i) == {r \in Inspect!Pieces(p) : r[1] < i}
IsSplit(q, p, pieces) ==
    /\ q \in Seq(Seq(STRING)) /\ Len(q) = Cardinality(pieces)
    /\ \A k \in 1..Len(q) :
          \E r \in pieces : Rank(p, r) = k - 1 /\ q[k] = SubSeq(p, r[1], r[2])
SplitInv ==
    /\ start \in 1..(Len(path) + 1) /\ Inspect!Edge(path, start - 1)
    /\ IsSplit(result, path, Passed(path, start))

(* The commands that the listing has passed.                               *)
Before(i) == {j \in DOMAIN Sorted : j < i /\ Sorted[j] \in helps_}
ListInv ==
    /\ path = <<"/">> /\ result \in Seq(Inspect!Commands)
    /\ inspecting = "lock" => start = 1 /\ result = <<>>
    /\ inspecting = "list" => /\ mutex_ = Inspect!Loop
                              /\ Members(result) = {Sorted[j] : j \in Before(start)}

(* Who adds has something to add, and all else is in the maps by now.      *)
RegistryInv ==
    /\ todo \in [Inspect!Threads -> Seq(Inspect!Commands)]
    /\ \A t \in Inspect!Threads :
          /\ apc[t] # "out" => todo[t] # <<>>
          /\ apc[t] = "helps" => Head(todo[t]) \in commands_
          /\ Members(Registers[t]) \subseteq commands_ \cup Members(todo[t])
    /\ started => todo[Main] = <<>>
    /\ listed \subseteq helps_

(* The request that the loop is answering.                                 *)
LoopInv ==
    /\ path \in Seq(STRING)
    /\ inspecting # "idle" => started
    /\ inspecting \in {"lock", "list"} => ListInv
    /\ inspecting = "split" => SplitInv
    /\ inspecting = "find" => result = Inspect!Parts(path)
    /\ inspecting = "done" => Inspect!BuiltinsServed /\ Inspect!ListedIsServed

InspectorInv == Inspect!TypeOK /\ RegistryInv /\ LoopInv

(* The instance has its own copy of Cardinality.                           *)
LEMMA Cardinalities == \A S : Inspect!Cardinality(S) = Cardinality(S)
BY DEF Inspect!Cardinality, Cardinality

(* A path has finitely many pieces, and each is told by where it begins.   *)
LEMMA PieceFacts ==
    ASSUME NEW p \in Seq(STRING)
    PROVE  /\ IsFiniteSet(Inspect!Pieces(p))
           /\ \A r \in Inspect!Pieces(p) :
                 /\ r[1] \in Nat \ {0} /\ r[2] \in Nat /\ r[1] <= r[2] /\ r[2] <= Len(p)
                 /\ r = <<r[1], r[2]>> /\ p[r[1]] # "/" /\ p[r[2]] # "/"
                 /\ r[1] = 1 \/ p[r[1] - 1] = "/"
                 /\ r[2] = Len(p) \/ p[r[2] + 1] = "/"
                 /\ \A i \in r[1]..r[2] : p[i] # "/"
<1>1. Len(p) \in Nat
  OBVIOUS
<1>2. IsFiniteSet(1..Len(p))
  BY <1>1, FS_Interval
<1>3. IsFiniteSet((1..Len(p)) \X (1..Len(p)))
  BY <1>2, FS_Product
<1>4. IsFiniteSet(Inspect!Pieces(p))
  <2>1. Inspect!Pieces(p) \subseteq (1..Len(p)) \X (1..Len(p))
    BY DEF Inspect!Pieces
  <2> QED BY <1>3, <2>1, FS_Subset
<1>5. ASSUME NEW r \in Inspect!Pieces(p)
      PROVE  /\ r[1] \in Nat \ {0} /\ r[2] \in Nat /\ r[1] <= r[2] /\ r[2] <= Len(p)
             /\ r = <<r[1], r[2]>> /\ p[r[1]] # "/" /\ p[r[2]] # "/"
             /\ r[1] = 1 \/ p[r[1] - 1] = "/"
             /\ r[2] = Len(p) \/ p[r[2] + 1] = "/"
             /\ \A i \in r[1]..r[2] : p[i] # "/"
  <2>1. /\ r \in (1..Len(p)) \X (1..Len(p)) /\ r[1] <= r[2]
        /\ Inspect!Edge(p, r[1] - 1) /\ Inspect!Edge(p, r[2] + 1)
        /\ \A i \in r[1]..r[2] : p[i] # "/"
    BY DEF Inspect!Pieces
  <2>2. r[1] \in 1..Len(p) /\ r[2] \in 1..Len(p) /\ r = <<r[1], r[2]>>
    BY <2>1
  <2>3. r[1] \in r[1]..r[2] /\ r[2] \in r[1]..r[2]
    BY <2>1, <2>2
  <2>4. r[1] - 1 = 0 \/ r[1] - 1 = Len(p) + 1 \/ p[r[1] - 1] = "/"
    BY <2>1 DEF Inspect!Edge
  <2>5. r[2] + 1 = 0 \/ r[2] + 1 = Len(p) + 1 \/ p[r[2] + 1] = "/"
    BY <2>1 DEF Inspect!Edge
  <2>6. r[1] = 1 \/ p[r[1] - 1] = "/"
    BY <1>1, <2>2, <2>4
  <2>7. r[2] = Len(p) \/ p[r[2] + 1] = "/"
    BY <1>1, <2>2, <2>5
  <2> QED BY <1>1, <2>1, <2>2, <2>3, <2>6, <2>7
<1> QED BY <1>4, <1>5

(* Two pieces that begin at the same place, or have the same rank, are one.*)
LEMMA PieceOfRank ==
    ASSUME NEW p \in Seq(STRING), NEW r \in Inspect!Pieces(p), NEW s \in Inspect!Pieces(p),
           r[1] = s[1] \/ Rank(p, r) = Rank(p, s)
    PROVE  r = s
<1>1. /\ r[1] \in Nat \ {0} /\ r[2] \in Nat /\ r[1] <= r[2] /\ r[2] <= Len(p)
      /\ r = <<r[1], r[2]>> /\ (r[2] = Len(p) \/ p[r[2] + 1] = "/")
      /\ \A i \in r[1]..r[2] : p[i] # "/"
  BY PieceFacts
<1>2. /\ s[1] \in Nat \ {0} /\ s[2] \in Nat /\ s[1] <= s[2] /\ s[2] <= Len(p)
      /\ s = <<s[1], s[2]>> /\ (s[2] = Len(p) \/ p[s[2] + 1] = "/")
      /\ \A i \in s[1]..s[2] : p[i] # "/"
  BY PieceFacts
<1>3. Len(p) \in Nat
  OBVIOUS
<1>4. ASSUME r[1] = s[1]
      PROVE  r = s
  <2>1. ~(r[2] < s[2])
    <3> SUFFICES ASSUME r[2] < s[2] PROVE FALSE
      OBVIOUS
    <3>1. r[2] + 1 \in s[1]..s[2] /\ r[2] # Len(p)
      BY <1>1, <1>2, <1>3, <1>4
    <3> QED BY <1>1, <1>2, <3>1
  <2>2. ~(s[2] < r[2])
    <3> SUFFICES ASSUME s[2] < r[2] PROVE FALSE
      OBVIOUS
    <3>1. s[2] + 1 \in r[1]..r[2] /\ s[2] # Len(p)
      BY <1>1, <1>2, <1>3, <1>4
    <3> QED BY <1>1, <1>2, <3>1
  <2>3. r[2] = s[2]
    BY <1>1, <1>2, <2>1, <2>2
  <2> QED BY <1>1, <1>2, <1>4, <2>3
<1>5. ASSUME NEW x \in Inspect!Pieces(p), NEW y \in Inspect!Pieces(p), x[1] < y[1],
             x[1] \in Nat, y[1] \in Nat
      PROVE  Rank(p, x) < Rank(p, y)
  <2>1. /\ Inspect!Before(p, x) \subseteq Inspect!Before(p, y)
        /\ x \in Inspect!Before(p, y) /\ x \notin Inspect!Before(p, x)
    <3>1. \A z \in Inspect!Pieces(p) : z[1] \in Nat
      BY PieceFacts
    <3> QED BY <1>5, <3>1 DEF Inspect!Before
  <2>2. IsFiniteSet(Inspect!Before(p, x)) /\ IsFiniteSet(Inspect!Before(p, y))
    <3>1. Inspect!Before(p, x) \subseteq Inspect!Pieces(p)
          /\ Inspect!Before(p, y) \subseteq Inspect!Pieces(p)
      BY DEF Inspect!Before
    <3> QED BY <3>1, PieceFacts, FS_Subset
  <2>3. /\ Cardinality(Inspect!Before(p, x)) <= Cardinality(Inspect!Before(p, y))
        /\ Cardinality(Inspect!Before(p, x)) # Cardinality(Inspect!Before(p, y))
    BY <2>1, <2>2, FS_Subset
  <2>4. Cardinality(Inspect!Before(p, x)) \in Nat /\ Cardinality(Inspect!Before(p, y)) \in Nat
    BY <2>2, FS_CardinalityType
  <2> QED BY <2>3, <2>4 DEF Rank
<1>6. ASSUME NEW x \in Inspect!Pieces(p)
      PROVE  Rank(p, x) \in Nat
  <2>1. Inspect!Before(p, x) \subseteq Inspect!Pieces(p)
    BY DEF Inspect!Before
  <2> QED BY <2>1, PieceFacts, FS_Subset, FS_CardinalityType DEF Rank
<1>7. r[1] = s[1]
  <2>1. Rank(p, r) \in Nat /\ Rank(p, s) \in Nat
    BY <1>6
  <2>2. r[1] < s[1] => Rank(p, r) < Rank(p, s)
    BY <1>1, <1>2, <1>5
  <2>3. s[1] < r[1] => Rank(p, s) < Rank(p, r)
    BY <1>1, <1>2, <1>5
  <2> QED BY <1>1, <1>2, <2>1, <2>2, <2>3
<1> QED BY <1>4, <1>7

(* Splitting off what lies before the next slash, or the end of the path.  *)
LEMMA PassedNext ==
    ASSUME NEW p \in Seq(STRING), NEW i \in 1..(Len(p) + 1), NEW e \in i..(Len(p) + 1),
           Inspect!Edge(p, i - 1), Inspect!Edge(p, e),
           \A j \in i..(e - 1) : p[j] # "/"
    PROVE  /\ e = i => Passed(p, e + 1) = Passed(p, i)
           /\ e > i => /\ Passed(p, e + 1) = Passed(p, i) \cup {<<i, e - 1>>}
                       /\ <<i, e - 1>> \in Inspect!Pieces(p)
                       /\ <<i, e - 1>> \notin Passed(p, i)
                       /\ Inspect!Before(p, <<i, e - 1>>) = Passed(p, i)
<1>1. Len(p) \in Nat /\ i \in Nat \ {0} /\ e \in Nat \ {0}
  OBVIOUS
<1>2. e = Len(p) + 1 \/ p[e] = "/"
  BY <1>1 DEF Inspect!Edge
<1>3. ASSUME NEW r \in Passed(p, e + 1), r \notin Passed(p, i)
      PROVE  e > i /\ r[1] = i
  <2>1. r \in Inspect!Pieces(p) /\ r[1] < e + 1 /\ ~(r[1] < i)
    BY <1>3 DEF Passed
  <2>2. r[1] \in Nat \ {0} /\ r[2] \in Nat /\ r[1] <= r[2] /\ r[2] <= Len(p)
        /\ p[r[1]] # "/" /\ (r[1] = 1 \/ p[r[1] - 1] = "/")
    BY <2>1, PieceFacts
  <2>3. r[1] # e /\ r[1] \in i..(e - 1)
    BY <1>1, <1>2, <2>1, <2>2
  <2>4. r[1] # i => r[1] - 1 \in i..(e - 1) /\ r[1] # 1
    BY <1>1, <2>3
  <2>5. r[1] = i
    BY <2>2, <2>4
  <2> QED BY <1>1, <2>3, <2>5
<1>4. Passed(p, i) \subseteq Passed(p, e + 1)
  <2>1. \A r \in Inspect!Pieces(p) : r[1] \in Nat
    BY PieceFacts
  <2> QED BY <1>1, <2>1 DEF Passed
<1>5. CASE e = i
  <2>1. ~(e > i)
    BY <1>1, <1>5
  <2>2. Passed(p, e + 1) = Passed(p, i)
    BY <1>3, <1>4, <2>1
  <2> QED BY <2>1, <2>2
<1>6. CASE e > i
  <2> DEFINE s == <<i, e - 1>>
  <2>1. s \in Inspect!Pieces(p)
    <3>1. s \in (1..Len(p)) \X (1..Len(p)) /\ s[1] = i /\ s[2] = e - 1
          /\ s[1] <= s[2] /\ s[2] + 1 = e
      BY <1>1, <1>6
    <3> HIDE DEF s
    <3> QED BY <3>1 DEF Inspect!Pieces
  <2>2. s[1] = i /\ s \notin Passed(p, i) /\ s \in Passed(p, e + 1)
    BY <1>1, <1>6, <2>1 DEF Passed
  <2>3. Inspect!Before(p, s) = Passed(p, i)
    BY <2>2 DEF Inspect!Before, Passed
  <2> HIDE DEF s
  <2>4. \A r \in Passed(p, e + 1) : r \notin Passed(p, i) => r = s
    BY <1>3, <2>1, <2>2, PieceOfRank DEF Passed
  <2>5. Passed(p, e + 1) = Passed(p, i) \cup {s}
    BY <1>4, <2>2, <2>4
  <2> QED BY <1>1, <1>6, <2>1, <2>2, <2>3, <2>5 DEF s
<1> QED BY <1>1, <1>5, <1>6

(* A path that is split into all its pieces is split into its parts.       *)
LEMMA SplitParts ==
    ASSUME NEW p \in Seq(STRING), NEW q, IsSplit(q, p, Inspect!Pieces(p))
    PROVE  q = Inspect!Parts(p)
<1> DEFINE n == Cardinality(Inspect!Pieces(p))
           chosen(k) == CHOOSE r \in Inspect!Pieces(p) :
                           Inspect!Cardinality(Inspect!Before(p, r)) = k - 1
           part(k) == SubSeq(p, chosen(k)[1], chosen(k)[2])
<1>1. Inspect!Parts(p) = [k \in 1..n |-> part(k)]
  <2>1. Inspect!Cardinality(Inspect!Pieces(p)) = n
    BY Cardinalities
  <2> HIDE DEF n
  <2> QED BY <2>1 DEF Inspect!Parts
<1>2. q \in Seq(Seq(STRING)) /\ Len(q) = n
      /\ \A k \in 1..Len(q) :
            \E r \in Inspect!Pieces(p) : Rank(p, r) = k - 1 /\ q[k] = SubSeq(p, r[1], r[2])
  BY DEF IsSplit
<1>3. n \in Nat
  BY PieceFacts, FS_CardinalityType
<1>4. ASSUME NEW k \in 1..n
      PROVE  q[k] = part(k)
  <2>1. PICK r \in Inspect!Pieces(p) : Rank(p, r) = k - 1 /\ q[k] = SubSeq(p, r[1], r[2])
    BY <1>2
  <2> DEFINE s == chosen(k)
  <2>2. s \in Inspect!Pieces(p) /\ Rank(p, s) = k - 1
    BY <2>1, Cardinalities DEF Rank
  <2>3. part(k) = SubSeq(p, s[1], s[2])
    OBVIOUS
  <2> HIDE DEF s
  <2>4. s = r
    BY <2>1, <2>2, PieceOfRank
  <2> QED BY <2>1, <2>3, <2>4
<1> HIDE DEF part, n
<1>5. q = [k \in 1..n |-> q[k]]
  BY <1>2, <1>3
<1> QED BY <1>1, <1>4, <1>5

(* split() appends what lies before the next slash, unless it is empty.    *)
LEMMA PushFacts ==
    ASSUME path \in Seq(STRING), SplitInv, NEW e \in start..(Len(path) + 1),
           Inspect!Edge(path, e), \A j \in start..(e - 1) : path[j] # "/",
           Inspect!Push(start, e)
    PROVE  IsSplit(result', path, Passed(path, e + 1))
<1> DEFINE s == <<start, e - 1>>
           P == Passed(path, start)
<1>1. /\ start \in 1..(Len(path) + 1) /\ Inspect!Edge(path, start - 1)
      /\ IsSplit(result, path, P)
  BY DEF SplitInv
<1>2. Len(path) \in Nat /\ start \in Nat \ {0} /\ e \in Nat /\ start <= e
  BY <1>1
<1>3. CASE e = start
  <2>1. ~(e > start)
    BY <1>2, <1>3
  <2>2. result' = result
    BY <2>1 DEF Inspect!Push
  <2>3. Passed(path, e + 1) = P
    BY <1>1, <1>3, PassedNext
  <2> QED BY <1>1, <2>2, <2>3
<1>4. CASE e > start
  <2> DEFINE part == SubSeq(path, start, e - 1)
  <2>1. result' = Append(result, part)
    BY <1>4 DEF Inspect!Push
  <2>2. part \in Seq(STRING)
    <3>1. start \in Int /\ e - 1 \in Int /\ \A j \in start..(e - 1) : path[j] \in STRING
      <4>1. \A j \in start..(e - 1) : j \in 1..Len(path)
        BY <1>1, <1>2
      <4> QED BY <1>2, <4>1
    <3> QED BY <3>1, SubSeqProperties
  <2>3. /\ Passed(path, e + 1) = P \cup {s}
        /\ s \in Inspect!Pieces(path) /\ s \notin P
        /\ Inspect!Before(path, s) = P
    BY <1>1, <1>4, PassedNext
  <2>4. IsFiniteSet(P) /\ Cardinality(P) \in Nat
    <3>1. P \subseteq Inspect!Pieces(path)
      BY DEF Passed
    <3> QED BY <3>1, PieceFacts, FS_Subset, FS_CardinalityType
  <2>5. Cardinality(P \cup {s}) = Cardinality(P) + 1
    BY <2>3, <2>4, FS_AddElement
  <2>6. Rank(path, s) = Cardinality(P) /\ part = SubSeq(path, s[1], s[2])
    BY <2>3 DEF Rank
  <2>7. /\ result \in Seq(Seq(STRING)) /\ Len(result) = Cardinality(P)
        /\ \A k \in 1..Len(result) :
              \E r \in P : Rank(path, r) = k - 1 /\ result[k] = SubSeq(path, r[1], r[2])
    BY <1>1 DEF IsSplit
  <2> HIDE DEF P, s, part
  <2>8. /\ result' \in Seq(Seq(STRING)) /\ Len(result') = Len(result) + 1
        /\ \A k \in 1..Len(result) : result'[k] = result[k]
        /\ result'[Len(result) + 1] = part
    BY <2>1, <2>2, <2>7, AppendProperties
  <2>9. ASSUME NEW k \in 1..Len(result')
        PROVE  \E r \in P \cup {s} :
                  Rank(path, r) = k - 1 /\ result'[k] = SubSeq(path, r[1], r[2])
    <3>1. CASE k = Len(result) + 1
      <4>1. Rank(path, s) = k - 1 /\ result'[k] = SubSeq(path, s[1], s[2])
        BY <2>4, <2>6, <2>7, <2>8, <3>1
      <4> QED BY <4>1
    <3>2. CASE k # Len(result) + 1
      <4>1. k \in 1..Len(result)
        BY <2>4, <2>7, <2>8, <3>2
      <4>2. PICK r \in P : Rank(path, r) = k - 1 /\ result[k] = SubSeq(path, r[1], r[2])
        BY <2>7, <4>1
      <4> QED BY <2>8, <4>1, <4>2
    <3> QED BY <3>1, <3>2
  <2> QED BY <2>3, <2>5, <2>7, <2>8, <2>9 DEF IsSplit
<1> QED BY <1>2, <1>3, <1>4

(* find() returns the next slash.                                          *)
LEMMA FindSlashFacts ==
    ASSUME path \in Seq(STRING), start \in Nat \ {0}
    PROVE  /\ Inspect!FindSlash = 0 => \A j \in start..Len(path) : path[j] # "/"
           /\ Inspect!FindSlash # 0 =>
                 /\ Inspect!FindSlash \in start..Len(path) /\ path[Inspect!FindSlash] = "/"
                 /\ \A j \in start..(Inspect!FindSlash - 1) : path[j] # "/"
<1> DEFINE at == {j \in start..Len(path) : path[j] = "/"}
           m == Inspect!Min(at)
<1>1. Inspect!FindSlash = IF at = {} THEN 0 ELSE m
  BY DEF Inspect!FindSlash
<1>2. Len(path) \in Nat
  OBVIOUS
<1>3. CASE at = {}
  BY <1>1, <1>3
<1>4. CASE at # {}
  <2>1. at \subseteq Nat /\ at \subseteq start..Len(path)
    BY <1>2
  <2>2. m \in at /\ \A j \in at : m <= j
    <3> HIDE DEF at
    <3> QED BY <1>4, <2>1, NatLeast DEF Inspect!Min
  <2>3. \A j \in start..(m - 1) : j \in start..Len(path) /\ ~(m <= j)
    <3>1. m \in start..Len(path)
      BY <2>2
    <3> HIDE DEF m
    <3> QED BY <1>2, <3>1
  <2>4. \A j \in start..(m - 1) : path[j] # "/"
    BY <2>2, <2>3
  <2>5. m # 0 /\ m \in start..Len(path) /\ path[m] = "/"
    <3>1. m \in start..Len(path) /\ path[m] = "/"
      BY <2>2
    <3> HIDE DEF m
    <3> QED BY <1>2, <3>1
  <2> HIDE DEF m, at
  <2> QED BY <1>1, <1>4, <2>4, <2>5
<1> QED BY <1>3, <1>4

LEMMA SplitStep ==
    ASSUME path \in Seq(STRING), SplitInv, Inspect!Split
    PROVE  SplitInv'
<1> DEFINE e == Inspect!FindSlash
<1>1. e # 0 /\ Inspect!Push(start, e) /\ start' = e + 1 /\ path' = path
  BY DEF Inspect!Split
<1>2. Len(path) \in Nat /\ start \in 1..(Len(path) + 1) /\ start \in Nat \ {0}
  BY DEF SplitInv
<1>3. e \in start..Len(path) /\ path[e] = "/" /\ \A j \in start..(e - 1) : path[j] # "/"
  BY <1>1, <1>2, FindSlashFacts
<1> HIDE DEF e
<1>4. e \in start..(Len(path) + 1) /\ Inspect!Edge(path, e)
  BY <1>2, <1>3 DEF Inspect!Edge
<1>5. IsSplit(result', path, Passed(path, e + 1))
  BY <1>1, <1>3, <1>4, PushFacts
<1>6. start' \in 1..(Len(path') + 1) /\ start' - 1 = e
  BY <1>1, <1>2, <1>3
<1>7. Inspect!Edge(path', start' - 1) /\ IsSplit(result', path', Passed(path', start'))
  BY <1>1, <1>4, <1>5, <1>6
<1> QED BY <1>6, <1>7 DEF SplitInv

(* What is left behind the last slash completes the parts.                 *)
LEMMA EndSplitStep ==
    ASSUME path \in Seq(STRING), SplitInv, Inspect!EndSplit
    PROVE  result' = Inspect!Parts(path)
<1> DEFINE e == Len(path) + 1
<1>1. Inspect!FindSlash = 0 /\ Inspect!Push(start, e)
  BY DEF Inspect!EndSplit, Inspect!LastPart
<1>2. Len(path) \in Nat /\ start \in 1..(Len(path) + 1) /\ start \in Nat \ {0}
  BY DEF SplitInv
<1>3. \A j \in start..(e - 1) : path[j] # "/"
  BY <1>1, <1>2, FindSlashFacts
<1>4. e \in start..(Len(path) + 1) /\ Inspect!Edge(path, e)
  BY <1>2 DEF Inspect!Edge
<1>5. IsSplit(result', path, Passed(path, e + 1))
  BY <1>1, <1>3, <1>4, PushFacts
<1>6. Passed(path, e + 1) = Inspect!Pieces(path)
  <2>1. \A r \in Inspect!Pieces(path) : r[1] < e + 1
    BY <1>2, PieceFacts
  <2> QED BY <2>1 DEF Passed
<1> QED BY <1>5, <1>6, SplitParts

(* What InspectorAssumption says of the threads and the commands.          *)
LEMMA RegistryFacts ==
    /\ Main \in Inspect!Threads
    /\ Inspect!Loop \notin Inspect!Threads /\ Inspect!None \notin Inspect!Threads
    /\ Inspect!Loop # Inspect!None
    /\ Registers \in [Inspect!Threads -> Seq(Inspect!Commands)]
    /\ Sorted \in Seq(Inspect!Commands) /\ Inspect!Commands = Members(Sorted)
    /\ Paths \subseteq Seq(STRING)
BY InspectorAssumption DEF Inspect!RegistryAssumption, Inspect!Threads, Inspect!Loop,
   Inspect!None, Inspect!Commands, Inspect!Range, Members

(* What push_back() adds, and what is left when the first is taken.        *)
LEMMA MembersFacts ==
    ASSUME NEW S, NEW q \in Seq(S)
    PROVE  /\ \A x \in S : Members(Append(q, x)) = Members(q) \cup {x}
           /\ q # <<>> => /\ Head(q) \in S /\ Tail(q) \in Seq(S)
                          /\ Members(q) \subseteq {Head(q)} \cup Members(Tail(q))
<1>1. DOMAIN q = 1..Len(q) /\ Len(q) \in Nat
  OBVIOUS
<1>2. ASSUME NEW x \in S
      PROVE  Members(Append(q, x)) = Members(q) \cup {x}
  <2>1. /\ DOMAIN Append(q, x) = 1..(Len(q) + 1)
        /\ \A i \in 1..Len(q) : Append(q, x)[i] = q[i]
        /\ Append(q, x)[Len(q) + 1] = x
    BY AppendProperties
  <2>2. \A i \in 1..(Len(q) + 1) : i \in 1..Len(q) \/ i = Len(q) + 1
    BY <1>1
  <2>3. 1..Len(q) \subseteq 1..(Len(q) + 1) /\ Len(q) + 1 \in 1..(Len(q) + 1)
    BY <1>1
  <2> QED BY <1>1, <2>1, <2>2, <2>3 DEF Members
<1>3. ASSUME q # <<>>
      PROVE  /\ Head(q) \in S /\ Tail(q) \in Seq(S)
             /\ Members(q) \subseteq {Head(q)} \cup Members(Tail(q))
  <2>1. /\ Head(q) \in S /\ Tail(q) \in Seq(S) /\ Head(q) = q[1]
        /\ Len(Tail(q)) = Len(q) - 1
        /\ \A i \in 1..(Len(q) - 1) : Tail(q)[i] = q[i + 1]
    BY <1>1, <1>3
  <2>2. ASSUME NEW i \in DOMAIN q, i # 1
        PROVE  q[i] \in Members(Tail(q))
    <3>1. i - 1 \in 1..(Len(q) - 1) /\ (i - 1) + 1 = i
      BY <1>1, <2>2
    <3>2. Tail(q)[i - 1] = q[i] /\ i - 1 \in DOMAIN Tail(q)
      BY <1>1, <2>1, <3>1
    <3> QED BY <3>2 DEF Members
  <2> QED BY <2>1, <2>2 DEF Members
<1> QED BY <1>2, <1>3

(* What goes on in the registry does not disturb the loop.                 *)
LEMMA LoopKept ==
    ASSUME LoopInv, UNCHANGED <<inspecting, path, start, result, resp, listed, raced>>,
           started => started', inspecting = "list" => mutex_' = mutex_ /\ helps_' = helps_
    PROVE  LoopInv'
<1>1. inspecting \in {"lock", "list"} => ListInv'
  BY DEF LoopInv, ListInv, Before
<1>2. inspecting = "split" => SplitInv'
  BY DEF LoopInv, SplitInv
<1>3. inspecting = "done" => Inspect!BuiltinsServed' /\ Inspect!ListedIsServed'
  BY DEF LoopInv, Inspect!BuiltinsServed, Inspect!ListedIsServed
<1> QED BY <1>1, <1>2, <1>3 DEF LoopInv

LEMMA LockStep ==
    ASSUME InspectorInv, NEW t \in Inspect!Threads, Inspect!Lock(t)
    PROVE  InspectorInv'
<1>1. /\ apc[t] = "out" /\ todo[t] # <<>> /\ mutex_ = Inspect!None
      /\ mutex_' = t /\ apc' = [apc EXCEPT ![t] = "commands"]
      /\ UNCHANGED <<commands_, helps_, todo, started, inspecting, path, start, result, resp,
                     listed, raced>>
  BY DEF Inspect!Lock
<1>2. Inspect!TypeOK'
  BY <1>1, RegistryFacts DEF InspectorInv, Inspect!TypeOK
<1>3. RegistryInv'
  BY <1>1 DEF InspectorInv, RegistryInv, Inspect!TypeOK
<1>4. inspecting # "list"
  BY <1>1, RegistryFacts DEF InspectorInv, LoopInv, ListInv
<1>5. LoopInv'
  BY <1>1, <1>4, LoopKept DEF InspectorInv
<1> QED BY <1>2, <1>3, <1>5 DEF InspectorInv

LEMMA AddCommandStep ==
    ASSUME InspectorInv, NEW t \in Inspect!Threads, Inspect!AddCommand(t)
    PROVE  InspectorInv'
<1>1. /\ apc[t] = "commands" /\ apc' = [apc EXCEPT ![t] = "helps"]
      /\ commands_' = commands_ \cup {Head(todo[t])}
      /\ UNCHANGED <<helps_, mutex_, todo, started, inspecting, path, start, result, resp,
                     listed, raced>>
  BY DEF Inspect!AddCommand
<1>2. todo[t] \in Seq(Inspect!Commands) /\ todo[t] # <<>>
  BY <1>1 DEF InspectorInv, RegistryInv
<1>3. Head(todo[t]) \in Inspect!Commands
  BY <1>2, MembersFacts
<1>4. Inspect!TypeOK'
  BY <1>1, <1>3 DEF InspectorInv, Inspect!TypeOK
<1>5. RegistryInv'
  BY <1>1 DEF InspectorInv, RegistryInv, Inspect!TypeOK
<1>6. LoopInv'
  BY <1>1, LoopKept DEF InspectorInv
<1> QED BY <1>4, <1>5, <1>6 DEF InspectorInv

LEMMA AddHelpStep ==
    ASSUME InspectorInv, NEW t \in Inspect!Threads, Inspect!AddHelp(t)
    PROVE  InspectorInv'
<1>1. /\ apc[t] = "helps" /\ apc' = [apc EXCEPT ![t] = "out"]
      /\ helps_' = helps_ \cup {Head(todo[t])} /\ mutex_' = Inspect!None
      /\ todo' = [todo EXCEPT ![t] = Tail(todo[t])]
      /\ UNCHANGED <<commands_, started, inspecting, path, start, result, resp, listed, raced>>
  BY DEF Inspect!AddHelp
<1>2. todo[t] \in Seq(Inspect!Commands) /\ todo[t] # <<>> /\ Head(todo[t]) \in commands_
  BY <1>1 DEF InspectorInv, RegistryInv
<1>3. /\ Tail(todo[t]) \in Seq(Inspect!Commands)
      /\ Members(todo[t]) \subseteq {Head(todo[t])} \cup Members(Tail(todo[t]))
  BY <1>2, MembersFacts
<1>4. mutex_ = t
  BY <1>1 DEF InspectorInv, Inspect!TypeOK
<1>5. Inspect!TypeOK'
  BY <1>1, <1>2, <1>4, RegistryFacts DEF InspectorInv, Inspect!TypeOK
<1>6. RegistryInv'
  <2>1. todo' \in [Inspect!Threads -> Seq(Inspect!Commands)]
    BY <1>1, <1>3 DEF InspectorInv, RegistryInv
  <2>2. \A u \in Inspect!Threads : apc'[u] = "out"
    BY <1>1, <1>4 DEF InspectorInv, Inspect!TypeOK
  <2>3. \A u \in Inspect!Threads : Members(Registers[u]) \subseteq commands_' \cup Members(todo'[u])
    <3> TAKE u \in Inspect!Threads
    <3>1. Members(Registers[u]) \subseteq commands_ \cup Members(todo[u])
      BY DEF InspectorInv, RegistryInv
    <3>2. CASE u = t
      <4>1. todo'[u] = Tail(todo[t])
        BY <1>1, <3>2 DEF InspectorInv, RegistryInv
      <4> QED BY <1>1, <1>2, <1>3, <3>1, <3>2, <4>1
    <3>3. CASE u # t
      <4>1. todo'[u] = todo[u]
        BY <1>1, <3>3 DEF InspectorInv, RegistryInv
      <4> QED BY <1>1, <3>1, <4>1
    <3> QED BY <3>2, <3>3
  <2>4. started' => todo'[Main] = <<>>
    BY <1>1, <1>2, RegistryFacts DEF InspectorInv, RegistryInv
  <2>5. listed' \subseteq helps_'
    BY <1>1 DEF InspectorInv, RegistryInv
  <2> QED BY <2>1, <2>2, <2>3, <2>4, <2>5 DEF RegistryInv
<1>7. inspecting # "list"
  BY <1>4, RegistryFacts DEF InspectorInv, LoopInv, ListInv
<1>8. LoopInv'
  BY <1>1, <1>7, LoopKept DEF InspectorInv
<1> QED BY <1>5, <1>6, <1>8 DEF InspectorInv

(* The loop's own steps leave the registry alone, but for the mutex and    *)
(* what was listed.                                                        *)
LEMMA RegistryKept ==
    ASSUME InspectorInv, UNCHANGED <<commands_, helps_, todo, apc>>,
           mutex_' = mutex_ \/ {mutex_, mutex_'} \cap Inspect!Threads = {},
           mutex_' \in Inspect!Threads \cup {Inspect!Loop, Inspect!None},
           inspecting' \in {"idle", "lock", "list", "split", "find", "done"},
           start' \in Nat \ {0}, listed' \subseteq helps_,
           started' = started \/ todo[Main] = <<>>
    PROVE  Inspect!TypeOK' /\ RegistryInv'
<1>1. Inspect!TypeOK'
  BY DEF InspectorInv, Inspect!TypeOK
<1>2. RegistryInv'
  BY DEF InspectorInv, RegistryInv
<1> QED BY <1>1, <1>2

LEMMA StartStep ==
    ASSUME InspectorInv, Inspect!Start
    PROVE  InspectorInv'
<1>1. /\ todo[Main] = <<>> /\ started' = TRUE
      /\ UNCHANGED <<commands_, helps_, todo, apc, mutex_, inspecting, path, start, result,
                     resp, listed, raced>>
  BY DEF Inspect!Start
<1>2. LoopInv'
  BY <1>1, LoopKept DEF InspectorInv
<1>3. /\ mutex_ \in Inspect!Threads \cup {Inspect!Loop, Inspect!None}
      /\ inspecting \in {"idle", "lock", "list", "split", "find", "done"}
      /\ start \in Nat \ {0} /\ listed \subseteq helps_
  BY DEF InspectorInv, Inspect!TypeOK, RegistryInv
<1> QED BY <1>1, <1>2, <1>3, RegistryKept DEF InspectorInv

LEMMA OnRequestInspectStep ==
    ASSUME InspectorInv, NEW p \in Paths, Inspect!onRequest(p)
    PROVE  InspectorInv'
<1>1. /\ started /\ path' = p /\ start' = 1 /\ result' = <<>>
      /\ inspecting' = IF p = <<"/">> THEN "lock" ELSE "split"
      /\ UNCHANGED <<commands_, helps_, todo, apc, started, mutex_, listed, raced>>
  BY DEF Inspect!onRequest, Inspect!registry
<1>2. Inspect!TypeOK' /\ RegistryInv'
  <2>1. listed \subseteq helps_ /\ mutex_ \in Inspect!Threads \cup {Inspect!Loop, Inspect!None}
    BY DEF InspectorInv, RegistryInv, Inspect!TypeOK
  <2> QED BY <1>1, <2>1, RegistryKept
<1>3. p \in Seq(STRING)
  BY RegistryFacts
<1>4. inspecting' = "lock" => ListInv'
  BY <1>1 DEF ListInv
<1>5. SplitInv'
  <2>1. start' \in 1..(Len(path') + 1) /\ Inspect!Edge(path', start' - 1)
    BY <1>1, <1>3 DEF Inspect!Edge
  <2>2. Passed(p, 1) = {}
    BY <1>3, PieceFacts DEF Passed
  <2>3. IsSplit(<<>>, p, {})
    BY FS_EmptySet DEF IsSplit
  <2> QED BY <1>1, <2>1, <2>2, <2>3 DEF SplitInv
<1>6. LoopInv'
  BY <1>1, <1>3, <1>4, <1>5 DEF LoopInv
<1> QED BY <1>2, <1>6 DEF InspectorInv

LEMMA BeginListStep ==
    ASSUME InspectorInv, Inspect!BeginList
    PROVE  InspectorInv'
<1>1. /\ inspecting = "lock" /\ inspecting' = "list"
      /\ mutex_ = Inspect!None /\ mutex_' = Inspect!Loop
      /\ UNCHANGED <<commands_, helps_, todo, apc, started, path, start, result, listed>>
  BY DEF Inspect!BeginList, Inspect!ListLock, Inspect!registry
<1>2. Inspect!TypeOK' /\ RegistryInv'
  <2>1. listed \subseteq helps_ /\ start \in Nat \ {0}
    BY DEF InspectorInv, RegistryInv, Inspect!TypeOK
  <2> QED BY <1>1, <2>1, RegistryFacts, RegistryKept
<1>3. ListInv /\ start = 1 /\ result = <<>> /\ started /\ path \in Seq(STRING)
  BY <1>1 DEF InspectorInv, LoopInv, ListInv
<1>4. Before(1) = {} /\ Members(<<>>) = {}
  BY RegistryFacts DEF Before, Members
<1>5. ListInv'
  <2>1. Before(start)' = {}
    BY <1>1, <1>3, <1>4 DEF Before
  <2> QED BY <1>1, <1>3, <1>4, <2>1 DEF ListInv
<1>6. LoopInv'
  BY <1>1, <1>3, <1>5 DEF LoopInv
<1> QED BY <1>2, <1>6 DEF InspectorInv

(* The iterator goes on to the next command that has a help.               *)
LEMMA ListStep ==
    ASSUME InspectorInv, Inspect!List
    PROVE  InspectorInv'
<1> DEFINE m == Inspect!Min(Inspect!Ahead)
<1>1. /\ inspecting = "list" /\ Inspect!Ahead # {} /\ inspecting' = "list"
      /\ result' = Append(result, Sorted[m]) /\ start' = m + 1
      /\ UNCHANGED <<commands_, helps_, todo, apc, started, mutex_, path, listed>>
  BY DEF Inspect!List, Inspect!registry
<1>2. ListInv /\ started /\ path \in Seq(STRING) /\ start \in Nat \ {0}
  BY <1>1 DEF InspectorInv, LoopInv, Inspect!TypeOK
<1>3. DOMAIN Sorted = 1..Len(Sorted) /\ Len(Sorted) \in Nat
      /\ \A j \in DOMAIN Sorted : Sorted[j] \in Inspect!Commands
  BY RegistryFacts
<1>4. m \in Inspect!Ahead /\ \A j \in Inspect!Ahead : m <= j
  <2>1. Inspect!Ahead \subseteq Nat
    BY <1>2, <1>3 DEF Inspect!Ahead
  <2> QED BY <1>1, <2>1, NatLeast DEF Inspect!Min
<1> HIDE DEF m
<1>5. m \in DOMAIN Sorted /\ start <= m /\ m \in Nat /\ Sorted[m] \in helps_
  BY <1>2, <1>3, <1>4 DEF Inspect!Ahead
<1>6. Inspect!TypeOK' /\ RegistryInv'
  <2>1. /\ listed \subseteq helps_ /\ mutex_ \in Inspect!Threads \cup {Inspect!Loop, Inspect!None}
        /\ start' \in Nat \ {0}
    BY <1>1, <1>5 DEF InspectorInv, RegistryInv, Inspect!TypeOK
  <2> QED BY <1>1, <2>1, RegistryKept
<1>7. Before(m + 1) = Before(start) \cup {m}
  <2>1. \A j \in DOMAIN Sorted : j < m + 1 /\ ~(j < start) /\ Sorted[j] \in helps_ => j = m
    <3> SUFFICES ASSUME NEW j \in DOMAIN Sorted, j < m + 1, ~(j < start), Sorted[j] \in helps_
                 PROVE  j = m
      OBVIOUS
    <3>1. j \in Inspect!Ahead
      BY <1>2, <1>3 DEF Inspect!Ahead
    <3> QED BY <1>3, <1>4, <1>5, <3>1
  <2>2. \A j \in DOMAIN Sorted : j < start => j < m + 1
    BY <1>2, <1>3, <1>5
  <2>3. m < m + 1
    BY <1>5
  <2> QED BY <1>5, <2>1, <2>2, <2>3 DEF Before
<1>8. ListInv'
  <2>1. result \in Seq(Inspect!Commands) /\ mutex_ = Inspect!Loop /\ path = <<"/">>
        /\ Members(result) = {Sorted[j] : j \in Before(start)}
    BY <1>1, <1>2 DEF ListInv
  <2>2. result' \in Seq(Inspect!Commands)
        /\ Members(result') = Members(result) \cup {Sorted[m]}
    BY <1>1, <1>3, <1>5, <2>1, MembersFacts, AppendProperties
  <2>3. Before(start)' = Before(start) \cup {m}
    BY <1>1, <1>7 DEF Before
  <2>4. Members(result') = {Sorted[j] : j \in Before(start)'}
    BY <2>1, <2>2, <2>3
  <2> QED BY <1>1, <2>1, <2>2, <2>4 DEF ListInv
<1>9. LoopInv'
  BY <1>1, <1>2, <1>8 DEF LoopInv
<1> QED BY <1>6, <1>9 DEF InspectorInv

(* At the end every help has been passed.                                  *)
LEMMA EndListStep ==
    ASSUME InspectorInv, Inspect!EndList
    PROVE  InspectorInv' /\ resp'.body = result /\ Members(result) = helps_
<1>1. /\ inspecting = "list" /\ Inspect!Ahead = {} /\ inspecting' = "done"
      /\ mutex_' = IF mutex_ = Inspect!Loop THEN Inspect!None ELSE mutex_
      /\ resp'.body = result /\ listed' = listed \cup Members(result)
      /\ UNCHANGED <<commands_, helps_, todo, apc, started, path, start>>
  BY DEF Inspect!EndList, Inspect!registry, Inspect!Range, Members
<1>2. /\ mutex_ = Inspect!Loop /\ Members(result) = {Sorted[j] : j \in Before(start)}
      /\ path = <<"/">> /\ started /\ path \in Seq(STRING) /\ start \in Nat \ {0}
      /\ helps_ \subseteq Inspect!Commands
  BY <1>1 DEF InspectorInv, LoopInv, ListInv, Inspect!TypeOK
<1>3. Members(result) = helps_
  <2>1. Members(result) \subseteq helps_
    BY <1>2 DEF Before
  <2>2. ASSUME NEW c \in helps_
        PROVE  c \in Members(result)
    <3>1. PICK j \in DOMAIN Sorted : Sorted[j] = c
      BY <1>2, RegistryFacts DEF Members
    <3>2. j \in 1..Len(Sorted) /\ Len(Sorted) \in Nat
      BY <3>1, RegistryFacts
    <3>3. j < start
      BY <1>1, <1>2, <2>2, <3>1, <3>2 DEF Inspect!Ahead
    <3> QED BY <1>2, <2>2, <3>1, <3>3 DEF Before
  <2> QED BY <2>1, <2>2
<1>4. Inspect!TypeOK' /\ RegistryInv'
  <2>1. listed' \subseteq helps_
    BY <1>1, <1>3 DEF InspectorInv, RegistryInv
  <2>2. {mutex_, mutex_'} \cap Inspect!Threads = {}
        /\ mutex_' \in Inspect!Threads \cup {Inspect!Loop, Inspect!None}
    BY <1>1, <1>2, RegistryFacts
  <2> QED BY <1>1, <1>2, <2>1, <2>2, RegistryKept
<1>5. Len(Inspect!Parts(path)) = 0
  <2>1. Inspect!Pieces(path) = {}
    <3> SUFFICES ASSUME NEW r \in Inspect!Pieces(path) PROVE FALSE
      OBVIOUS
    <3>1. r[1] \in Nat \ {0} /\ r[2] \in Nat /\ r[1] <= r[2] /\ r[2] <= Len(path)
          /\ path[r[1]] # "/"
      BY <1>2, PieceFacts
    <3>2. Len(path) = 1 /\ path[1] = "/"
      BY <1>2
    <3>3. r[1] = 1
      BY <3>1, <3>2
    <3> QED BY <3>1, <3>2, <3>3
  <2>2. IsSplit(<<>>, path, Inspect!Pieces(path))
    BY <2>1, FS_EmptySet DEF IsSplit
  <2>3. Inspect!Parts(path) = <<>>
    BY <1>2, <2>2, SplitParts
  <2> QED BY <2>3
<1>6. LoopInv'
  BY <1>1, <1>2, <1>5 DEF LoopInv, Inspect!BuiltinsServed, Inspect!ListedIsServed
<1> QED BY <1>1, <1>3, <1>4, <1>6 DEF InspectorInv

(* The steps of split() leave the registry alone.                          *)
LEMMA SplittingSteps ==
    ASSUME InspectorInv, Inspect!Split \/ Inspect!EndSplit
    PROVE  InspectorInv'
<1>1. /\ inspecting = "split"
      /\ UNCHANGED <<commands_, helps_, todo, apc, started, mutex_, path, listed>>
  BY DEF Inspect!Split, Inspect!EndSplit, Inspect!registry
<1>2. SplitInv /\ started /\ path \in Seq(STRING)
  BY <1>1 DEF InspectorInv, LoopInv
<1>3. listed \subseteq helps_ /\ mutex_ \in Inspect!Threads \cup {Inspect!Loop, Inspect!None}
      /\ start \in Nat \ {0}
  BY DEF InspectorInv, RegistryInv, Inspect!TypeOK
<1>4. CASE Inspect!Split
  <2>1. SplitInv' /\ inspecting' = "split"
    BY <1>2, <1>4, SplitStep, <1>1 DEF Inspect!Split
  <2>2. start' \in Nat \ {0}
    <3>1. start' \in 1..(Len(path') + 1)
      BY <2>1 DEF SplitInv
    <3> QED BY <3>1
  <2>3. Inspect!TypeOK' /\ RegistryInv'
    BY <1>1, <1>3, <2>1, <2>2, RegistryKept
  <2>4. LoopInv'
    BY <1>1, <1>2, <2>1 DEF LoopInv
  <2> QED BY <2>3, <2>4 DEF InspectorInv
<1>5. CASE Inspect!EndSplit
  <2>1. result' = Inspect!Parts(path) /\ inspecting' = "find" /\ start' = start
    BY <1>2, <1>5, EndSplitStep DEF Inspect!EndSplit
  <2>2. Inspect!TypeOK' /\ RegistryInv'
    BY <1>1, <1>3, <2>1, RegistryKept
  <2>3. LoopInv'
    BY <1>1, <1>2, <2>1 DEF LoopInv
  <2> QED BY <2>2, <2>3 DEF InspectorInv
<1> QED BY <1>4, <1>5

(* What Find answers when no lookup has met an insertion.                  *)
LEMMA FindStep ==
    ASSUME InspectorInv, NEW found \in BOOLEAN, Inspect!Find(found)
    PROVE  /\ InspectorInv' /\ path' = path
           /\ LET parts == Inspect!Parts(path)
              IN  ~raced' => /\ resp'.status = 200 <=>
                                (Len(parts) >= 2 /\ SubSeq(parts, 1, 2) \in commands_)
                             /\ resp'.status = 200 => resp'.body = SubSeq(parts, 3, Len(parts))
<1> DEFINE parts == Inspect!Parts(path)
           named == Len(result) >= 2
<1>1. /\ inspecting = "find" /\ inspecting' = "done"
      /\ (named /\ ~Inspect!Inserting) => (found <=> SubSeq(result, 1, 2) \in commands_)
      /\ ~named => ~found
      /\ raced' = (raced \/ (named /\ Inspect!Inserting))
      /\ resp' = IF found
                 THEN [status |-> 200, body |-> SubSeq(result, 3, Len(result))]
                 ELSE [status |-> 404, body |-> <<>>]
      /\ UNCHANGED <<commands_, helps_, todo, apc, started, mutex_, path, start, result, listed>>
  BY DEF Inspect!Find, Inspect!registry
<1>2. result = parts /\ started /\ path \in Seq(STRING)
  BY <1>1 DEF InspectorInv, LoopInv
<1>3. /\ listed \subseteq commands_ /\ Members(Registers[Main]) \subseteq commands_
      /\ listed \subseteq helps_ /\ mutex_ \in Inspect!Threads \cup {Inspect!Loop, Inspect!None}
      /\ start \in Nat \ {0}
  <2>1. listed \subseteq helps_ /\ helps_ \subseteq commands_ /\ start \in Nat \ {0}
        /\ mutex_ \in Inspect!Threads \cup {Inspect!Loop, Inspect!None}
    BY DEF InspectorInv, RegistryInv, Inspect!TypeOK
  <2>2. Members(Registers[Main]) \subseteq commands_ \cup Members(todo[Main])
        /\ todo[Main] = <<>>
    BY <1>2, RegistryFacts DEF InspectorInv, RegistryInv
  <2>3. Members(<<>>) = {}
    BY DEF Members
  <2> QED BY <2>1, <2>2, <2>3
<1>4. resp'.status = 200 <=> found
  BY <1>1
<1>5. found => resp'.body = SubSeq(result, 3, Len(result))
  BY <1>1
<1> HIDE DEF parts
<1>6. ~raced' => /\ resp'.status = 200 <=> (Len(parts) >= 2 /\ SubSeq(parts, 1, 2) \in commands_)
                 /\ resp'.status = 200 => resp'.body = SubSeq(parts, 3, Len(parts))
  BY <1>1, <1>2, <1>4, <1>5
<1>7. Inspect!TypeOK' /\ RegistryInv'
  BY <1>1, <1>3, RegistryKept
<1>8. Inspect!BuiltinsServed' /\ Inspect!ListedIsServed'
  <2>1. Inspect!Parts(path') = parts
    BY <1>1 DEF parts
  <2>2. Len(parts) >= 2 /\ ~raced' /\ SubSeq(parts, 1, 2) \in commands_ => resp'.status = 200
    BY <1>6
  <2>3. Inspect!BuiltinsServed'
    BY <1>3, <2>1, <2>2 DEF Inspect!BuiltinsServed, Inspect!Range, Members
  <2>4. Inspect!ListedIsServed'
    BY <1>1, <1>3, <2>1, <2>2 DEF Inspect!ListedIsServed
  <2> QED BY <2>3, <2>4
<1>9. LoopInv'
  BY <1>1, <1>2, <1>8 DEF LoopInv
<1> QED BY <1>1, <1>6, <1>7, <1>9 DEF InspectorInv, parts

LEMMA AnswerStep ==
    ASSUME InspectorInv, Inspect!Answer
    PROVE  InspectorInv'
<1>1. /\ inspecting' = "idle" /\ path' = <<>> /\ start' = 1
      /\ UNCHANGED <<commands_, helps_, todo, apc, started, mutex_, listed>>
  BY DEF Inspect!Answer, Inspect!registry
<1>2. Inspect!TypeOK' /\ RegistryInv'
  <2>1. listed \subseteq helps_ /\ mutex_ \in Inspect!Threads \cup {Inspect!Loop, Inspect!None}
    BY DEF InspectorInv, RegistryInv, Inspect!TypeOK
  <2> QED BY <1>1, <2>1, RegistryKept
<1>3. LoopInv'
  BY <1>1 DEF LoopInv
<1> QED BY <1>2, <1>3 DEF InspectorInv

LEMMA InspectorInit == HttpInit => InspectorInv
<1> SUFFICES ASSUME HttpInit
             PROVE  InspectorInv
  OBVIOUS
<1>1. /\ commands_ = {} /\ helps_ = {} /\ mutex_ = Inspect!None /\ started = FALSE
      /\ todo = Registers /\ apc = [t \in Inspect!Threads |-> "out"]
      /\ inspecting = "idle" /\ path = <<>> /\ start = 1 /\ listed = {}
  BY DEF HttpInit, Inspect!Init
<1>2. Inspect!TypeOK
  BY <1>1, RegistryFacts DEF Inspect!TypeOK
<1>3. RegistryInv
  BY <1>1, RegistryFacts DEF RegistryInv
<1>4. LoopInv
  BY <1>1 DEF LoopInv
<1> QED BY <1>2, <1>3, <1>4 DEF InspectorInv

LEMMA InspectorStep ==
    ASSUME InspectorInv, [HttpNext]_httpVars
    PROVE  InspectorInv'
<1>1. ASSUME UNCHANGED inspector
      PROVE  InspectorInv'
  <2>1. UNCHANGED <<commands_, helps_, mutex_, todo, apc, started,
                    inspecting, path, start, result, resp, listed, raced>>
    BY <1>1 DEF inspector
  <2>2. Inspect!TypeOK'
    BY <2>1 DEF InspectorInv, Inspect!TypeOK
  <2>3. RegistryInv'
    BY <2>1 DEF InspectorInv, RegistryInv
  <2>4. LoopInv'
    BY <2>1, LoopKept DEF InspectorInv
  <2> QED BY <2>2, <2>3, <2>4 DEF InspectorInv
<1>2. ASSUME Inspect!Next
      PROVE  InspectorInv'
  <2>1. CASE Inspect!Start
    BY <2>1, StartStep
  <2>2. CASE Inspect!BeginList
    BY <2>2, BeginListStep
  <2>3. CASE Inspect!EndList
    BY <2>3, EndListStep
  <2>4. CASE Inspect!List
    BY <2>4, ListStep
  <2>5. CASE Inspect!Split \/ Inspect!EndSplit
    BY <2>5, SplittingSteps
  <2>6. CASE Inspect!Answer
    BY <2>6, AnswerStep
  <2>7. ASSUME NEW found \in BOOLEAN, Inspect!Find(found)
        PROVE  InspectorInv'
    BY <2>7, FindStep
  <2>8. ASSUME NEW t \in Inspect!Threads,
               Inspect!Lock(t) \/ Inspect!AddCommand(t) \/ Inspect!AddHelp(t)
        PROVE  InspectorInv'
    BY <2>8, LockStep, AddCommandStep, AddHelpStep
  <2>9. ASSUME NEW p \in Paths, Inspect!onRequest(p)
        PROVE  InspectorInv'
    BY <2>9, OnRequestInspectStep
  <2> QED BY <1>2, <2>1, <2>2, <2>3, <2>4, <2>5, <2>6, <2>7, <2>8, <2>9
          DEF Inspect!Next, Inspect!Step
<1> QED BY <1>1, <1>2 DEF HttpNext, ServerOnly, InspectorOnly, httpVars

(* Inspector.cc:49-86: no request finds a command of the constructor       *)
(* missing, nor one that a client has seen listed, unless a lookup meets   *)
(* an insertion.                                                           *)
THEOREM ListedServed == HttpSpec => []ServesListed
<1>1. InspectorInv => ServesListed
  <2> SUFFICES ASSUME InspectorInv
               PROVE  ServesListed
    OBVIOUS
  <2>1. Inspect!BuiltinsServed /\ Inspect!ListedIsServed
    BY DEF InspectorInv, LoopInv, Inspect!BuiltinsServed, Inspect!ListedIsServed
  <2> QED BY <2>1 DEF InspectorInv, ServesListed
<1> QED BY <1>1, InspectorInit, InspectorStep, PTL DEF HttpSpec

(* Inspector.cc:115-175: the command that the path names is called, with   *)
(* the rest of the path as its arguments, and no other, ...                *)
THEOREM NamedCommandCalled == HttpSpec => Inspect!CallsNamedCommand
<1> DEFINE Named == LET parts == Inspect!Parts(path)
                    IN  inspecting = "find" /\ inspecting' = "done" /\ ~raced' =>
                          /\ resp'.status = 200 <=>
                                (Len(parts) >= 2 /\ SubSeq(parts, 1, 2) \in commands_)
                          /\ resp'.status = 200 => resp'.body = SubSeq(parts, 3, Len(parts))
<1>1. InspectorInv /\ [HttpNext]_httpVars => [Named]_(Inspect!vars)
  <2> SUFFICES ASSUME InspectorInv, [HttpNext]_httpVars,
                      inspecting = "find", inspecting' = "done", ~raced'
               PROVE  Named
    OBVIOUS
  <2>1. inspecting' # inspecting
    OBVIOUS
  <2>2. Inspect!Next
    BY <2>1 DEF HttpNext, ServerOnly, InspectorOnly, httpVars, inspector
  <2>3. PICK found \in BOOLEAN : Inspect!Find(found)
    BY <2>2 DEF Inspect!Next, Inspect!Step, Inspect!Start, Inspect!BeginList, Inspect!ListLock,
                Inspect!EndList, Inspect!List, Inspect!Split, Inspect!EndSplit, Inspect!Answer,
                Inspect!Lock, Inspect!AddCommand, Inspect!AddHelp, Inspect!onRequest
  <2> QED BY <2>3, FindStep
<1>2. HttpSpec => [][Named]_(Inspect!vars)
  BY <1>1, InspectorInit, InspectorStep, PTL DEF HttpSpec
<1> QED BY <1>2 DEF Inspect!CallsNamedCommand

(* ... and "/" lists the help of one moment, whoever registers meanwhile.  *)
THEOREM ListingOfOneMoment == HttpSpec => Inspect!ListingExact
<1> DEFINE Exact == inspecting = "list" /\ inspecting' = "done" =>
                       Inspect!Range(resp'.body) = helps_
<1>1. InspectorInv /\ [HttpNext]_httpVars => [Exact]_(Inspect!vars)
  <2> SUFFICES ASSUME InspectorInv, [HttpNext]_httpVars,
                      inspecting = "list", inspecting' = "done"
               PROVE  Inspect!Range(resp'.body) = helps_
    OBVIOUS
  <2>1. Inspect!Next
    BY DEF HttpNext, ServerOnly, InspectorOnly, httpVars, inspector
  <2>2. Inspect!EndList
    BY <2>1 DEF Inspect!Next, Inspect!Step, Inspect!Start, Inspect!BeginList, Inspect!ListLock,
                Inspect!Find, Inspect!List, Inspect!Split, Inspect!EndSplit, Inspect!Answer,
                Inspect!Lock, Inspect!AddCommand, Inspect!AddHelp, Inspect!onRequest
  <2> QED BY <2>2, EndListStep DEF Inspect!Range, Members
<1>2. HttpSpec => [][Exact]_(Inspect!vars)
  BY <1>1, InspectorInit, InspectorStep, PTL DEF HttpSpec
<1> QED BY <1>2 DEF Inspect!ListingExact
=============================================================================
