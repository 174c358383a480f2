------------------------------- MODULE Buffer -------------------------------
(***************************************************************************)
(* muduo::net::Buffer: a vector of bytes in which readerIndex_ and         *)
(* writerIndex_ delimit the contents.  Space is made by moving the         *)
(* contents to the front or by resizing; kCheapPrepend bytes are kept free *)
(* in front of the contents until prepend() uses them.                     *)
(*                                                                         *)
(* A Buffer is a record of its members, and its private functions map      *)
(* records to records; the actions are the public functions.  Offset i of  *)
(* the code is element i + 1 of the sequence buffer_.                      *)
(***************************************************************************)
EXTENDS Integers, Sequences, FiniteSetsExt

CONSTANTS Byte, Data, Widths, CR, LF,     \* see ByteStream
          kCheapPrepend, kInitialSize,
          ExtraBuf,                       \* sizeof extrabuf in readFd()
          MaxReadable                     \* bound: of the contents' length

ASSUME BufferAssumption ==
    /\ kCheapPrepend \in Nat /\ kInitialSize \in Nat /\ ExtraBuf \in Nat
    /\ MaxReadable \in Nat /\ Data \subseteq Seq(Byte) /\ Widths \subseteq Nat
    /\ IsFiniteSet(Byte) /\ 0 \in Byte /\ Byte = 0 .. (Cardinality(Byte) - 1)

VARIABLES buf,      \* the Buffer
          call,     \* the last call, its argument and its result
          failed    \* history: an assertion about the Buffer itself failed

vars == <<buf, call, failed>>

TypeOK ==
    /\ buf \in [buffer_ : Seq(Byte), readerIndex_ : Nat, writerIndex_ : Nat]
    /\ buf.readerIndex_ <= buf.writerIndex_
    /\ buf.writerIndex_ <= Len(buf.buffer_)
    /\ failed \in BOOLEAN

readableBytes(b) == b.writerIndex_ - b.readerIndex_
writableBytes(b) == Len(b.buffer_) - b.writerIndex_
prependableBytes(b) == b.readerIndex_
Contents(b) == SubSeq(b.buffer_, b.readerIndex_ + 1, b.writerIndex_)

Zeros(n) == [i \in 1..n |-> 0]

New == [buffer_ |-> Zeros(kCheapPrepend + kInitialSize),
        readerIndex_ |-> kCheapPrepend, writerIndex_ |-> kCheapPrepend]

(* std::copy(data, data + len, begin() + at)                               *)
copy(s, data, at) ==
    [i \in 1..Len(s) |-> IF i \in (at + 1)..(at + Len(data)) THEN data[i - at]
                         ELSE s[i]]

Grows_Bug(b, len) == writableBytes(b) + prependableBytes(b) < len
Grows(b, len) ==
    writableBytes(b) + prependableBytes(b) < len + kCheapPrepend

resize(s, n) == IF n <= Len(s) THEN SubSeq(s, 1, n) ELSE s \o Zeros(n - Len(s))

makeSpace(b, len) ==
    IF Grows(b, len)
    THEN [b EXCEPT !.buffer_ = resize(@, b.writerIndex_ + len)]
    ELSE [buffer_ |-> copy(b.buffer_, Contents(b), kCheapPrepend),
          readerIndex_ |-> kCheapPrepend,
          writerIndex_ |-> kCheapPrepend + readableBytes(b)]

ensureWritableBytes(b, len) ==
    IF writableBytes(b) < len THEN makeSpace(b, len) ELSE b

(* The assertions of makeSpace() and ensureWritableBytes().                *)
SpaceAsserts(b, len) ==
    /\ writableBytes(b) < len /\ ~Grows(b, len) => kCheapPrepend < b.readerIndex_
    /\ writableBytes(ensureWritableBytes(b, len)) >= len

hasWritten(b, data) ==
    [b EXCEPT !.buffer_ = copy(@, data, b.writerIndex_), !.writerIndex_ = @ + Len(data)]

append(b, data) == hasWritten(ensureWritableBytes(b, Len(data)), data)

prepend(b, data) ==
    [b EXCEPT !.buffer_ = copy(@, data, b.readerIndex_ - Len(data)),
              !.readerIndex_ = @ - Len(data)]

(* The last byte resets both indices.                                      *)
retrieve(b, len) ==
    IF len < readableBytes(b) THEN [b EXCEPT !.readerIndex_ = @ + len]
    ELSE [b EXCEPT !.readerIndex_ = kCheapPrepend, !.writerIndex_ = kCheapPrepend]

shrunk(b, reserve) ==
    append(ensureWritableBytes(New, readableBytes(b) + reserve), Contents(b))

readFd_Bug(b, data) ==
    LET writable == writableBytes(b) IN
    IF Len(data) <= writable THEN hasWritten(b, data)
    ELSE append(hasWritten(b, SubSeq(data, 1, writable)),
                SubSeq(data, writable, Len(data)))
(* readv(2) into the free space and then into extrabuf.                    *)
readFd(b, data) ==
    LET writable == writableBytes(b) IN
    IF Len(data) <= writable THEN hasWritten(b, data)
    ELSE append(hasWritten(b, SubSeq(data, 1, writable)),
                SubSeq(data, writable + 1, Len(data)))

-----------------------------------------------------------------------------
(* Integers and lines.                                                     *)

Base == Cardinality(Byte)
IntOf(w) == -(Base ^ w \div 2)..((Base ^ w - 1) \div 2)

hostToNetwork(w, x) == [i \in 1..w |-> (x \div Base ^ (w - i)) % Base]

(* The w bytes at the front as a number of two's complement.               *)
peekInt(b, w) ==
    LET digit(i) == b.buffer_[b.readerIndex_ + i]
        value == MapThenSumSet(LAMBDA i : digit(i) * Base ^ (w - i), 1..w)
    IN  IF value \in IntOf(w) THEN value ELSE value - Base ^ w

(* The offset of the first CRLF of the contents, or -1.                    *)
CRLFs(b) ==
    {i \in b.readerIndex_..(b.writerIndex_ - 2) :
        b.buffer_[i + 1] = CR /\ b.buffer_[i + 2] = LF}
findCRLF(b) == IF CRLFs(b) = {} THEN -1 ELSE Min(CRLFs(b))

-----------------------------------------------------------------------------
Init == buf = New /\ call = <<"Buffer">> /\ failed = FALSE

Fits(len) == readableBytes(buf) + len <= MaxReadable

Append_(data) ==
    /\ Fits(Len(data)) /\ buf' = append(buf, data) /\ call' = <<"append", data>>
    /\ failed' = (failed \/ ~SpaceAsserts(buf, Len(data)))

Prepend_(data) ==
    /\ Len(data) <= prependableBytes(buf) /\ Fits(Len(data))
    /\ buf' = prepend(buf, data) /\ call' = <<"prepend", data>> /\ UNCHANGED failed

AppendInt(w, x) ==
    /\ Fits(w) /\ buf' = append(buf, hostToNetwork(w, x)) /\ call' = <<"appendInt", x>>
    /\ failed' = (failed \/ ~SpaceAsserts(buf, w))

PrependInt(w, x) ==
    /\ w <= prependableBytes(buf) /\ Fits(w)
    /\ buf' = prepend(buf, hostToNetwork(w, x)) /\ call' = <<"prependInt", x>>
    /\ UNCHANGED failed

ReadInt(w) ==
    /\ w <= readableBytes(buf) /\ buf' = retrieve(buf, w)
    /\ call' = <<"readInt", peekInt(buf, w)>> /\ UNCHANGED failed

RetrieveAsString(len) ==
    /\ len <= readableBytes(buf) /\ buf' = retrieve(buf, len)
    /\ call' = <<"retrieve", SubSeq(Contents(buf), 1, len)>> /\ UNCHANGED failed

(* retrieveUntil(findCRLF() + 2), as HttpServer takes its lines.           *)
RetrieveLine ==
    /\ IF findCRLF(buf) = -1 THEN call' = <<"no line">> /\ UNCHANGED buf
       ELSE LET len == findCRLF(buf) + 2 - buf.readerIndex_ IN
            /\ buf' = retrieve(buf, len)
            /\ call' = <<"line", SubSeq(Contents(buf), 1, len)>>
    /\ UNCHANGED failed

(* beginWrite() and hasWritten(), the caller's own way to append.          *)
WriteInPlace(data) ==
    /\ Len(data) <= writableBytes(buf) /\ Fits(Len(data))
    /\ buf' = hasWritten(buf, data) /\ call' = <<"append", data>> /\ UNCHANGED failed

EnsureWritable(len) ==
    /\ Fits(len) /\ buf' = ensureWritableBytes(buf, len) /\ call' = <<"room">>
    /\ failed' = (failed \/ ~SpaceAsserts(buf, len))

Shrink(reserve) ==
    /\ Fits(reserve) /\ buf' = shrunk(buf, reserve) /\ call' = <<"room">>
    /\ failed' = (failed \/ ~SpaceAsserts(New, readableBytes(buf) + reserve))

(* What is read at once is limited by both buffers; an error reads nothing.*)
ReadFd(data) ==
    /\ Fits(Len(data)) /\ Len(data) <= writableBytes(buf) + ExtraBuf
    /\ buf' = readFd(buf, data) /\ call' = <<"append", data>>
    /\ failed' = (failed \/
          (Len(data) > writableBytes(buf) /\
           ~SpaceAsserts([buf EXCEPT !.writerIndex_ = Len(buf.buffer_)],
                         Len(data) - writableBytes(buf))))

Next == \/ \E data \in Data : \/ Append_(data) \/ Prepend_(data)
                              \/ WriteInPlace(data) \/ ReadFd(data)
        \/ \E w \in Widths : \/ ReadInt(w)
                             \/ \E x \in IntOf(w) : AppendInt(w, x) \/ PrependInt(w, x)
        \/ \E n \in 0..MaxReadable : \/ RetrieveAsString(n)
                                     \/ EnsureWritable(n) \/ Shrink(n)
        \/ RetrieveLine

Spec == Init /\ [][Next]_vars

-----------------------------------------------------------------------------
(* Through every growth, move, shrinking and read in two parts the Buffer  *)
(* is a sequence of bytes, and numbers and lines are read as written.      *)
Stream == INSTANCE ByteStream WITH bytes <- Contents(buf)
ImplementsByteStream == Stream!Spec

(* The assertions of makeSpace() and ensureWritableBytes() hold: contents  *)
(* are moved only to where there is room, and then there is room.  And the *)
(* vector does not creep: its size is bounded by what the contents have    *)
(* ever needed, however many bytes pass through.                           *)
SizeBounded ==
    Len(buf.buffer_) <= kCheapPrepend + kInitialSize + 2 * MaxReadable
BufferSafe == TypeOK /\ ~failed /\ SizeBounded
=============================================================================
