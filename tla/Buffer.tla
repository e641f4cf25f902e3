------------------------------- MODULE Buffer -------------------------------
(***************************************************************************)
(* Buffer (src/Buffer.cpp): a vector of bytes and two indices,             *)
(*                                                                         *)
(*     0 .. kCheapPrepend .. readerIndex_ .. writerIndex_ .. size()        *)
(*                                                                         *)
(* that moves its contents to the front, or grows, when a write does not   *)
(* fit.  Bytes are numbered by their arrival, so that one lost, repeated   *)
(* or out of place shows.  The methods are operators on a record; Spec is  *)
(* a Buffer used by a Connection: readFd and append fill it, retrieve and  *)
(* writeFd empty it.                                                       *)
(***************************************************************************)
EXTENDS Integers

CONSTANTS
    kCheapPrepend,
    kInitialSize,
    Extra,          \* the size of readFd's extrabuff
    MaxBytes        \* bound: bytes ever put in

ASSUME BufferAssumption ==
    /\ kCheapPrepend \in Nat
    /\ kInitialSize \in Nat
    /\ Extra \in Nat
    /\ MaxBytes \in Nat

VARIABLES
    buf,            \* the Buffer
    put, got,       \* history: bytes put in and taken out
    result,         \* history: what the last operation gave its caller
    peak            \* history: the most bytes ever held

vars == <<buf, put, got, result, peak>>

-----------------------------------------------------------------------------
(* The methods.  cells is the vector, 0 where no byte has been written. *)

Buf(s, c, r, w) == [size |-> s, cells |-> c, reader |-> r, writer |-> w]

New == Buf(kCheapPrepend + kInitialSize,
           [i \in 0 .. kCheapPrepend + kInitialSize - 1 |-> 0],
           kCheapPrepend, kCheapPrepend)

readableBytes(b) == b.writer - b.reader
writableBytes(b) == b.size - b.writer
prependableBytes(b) == b.reader

\* std::copy of the bytes first, first + 1, ... to the cells from w on.
copied(c, w, first, len) ==
    [i \in DOMAIN c |-> IF i \in w .. w + len - 1 THEN first + (i - w) ELSE c[i]]

resized(c, n) == [i \in 0 .. n - 1 |-> IF i \in DOMAIN c THEN c[i] ELSE 0]

\* std::copy of the contents to the cells from kCheapPrepend on.
moved(b) ==
    [i \in DOMAIN b.cells |->
        IF i \in kCheapPrepend .. kCheapPrepend + readableBytes(b) - 1
        THEN b.cells[i - kCheapPrepend + b.reader] ELSE b.cells[i]]

\* Variant of makeSpace: one cell too few is allocated.
makeSpaceShort(b, len) ==
    IF writableBytes(b) + prependableBytes(b) < len + kCheapPrepend
    THEN Buf(b.writer + len - 1, resized(b.cells, b.writer + len - 1), b.reader, b.writer)
    ELSE Buf(b.size, moved(b), kCheapPrepend, kCheapPrepend + readableBytes(b))

\* Variant of makeSpace: the room in front of the contents is not used.
makeSpaceAlwaysGrows(b, len) ==
    Buf(b.writer + len, resized(b.cells, b.writer + len), b.reader, b.writer)

makeSpace(b, len) ==
    IF writableBytes(b) + prependableBytes(b) < len + kCheapPrepend
    THEN Buf(b.writer + len, resized(b.cells, b.writer + len), b.reader, b.writer)
    ELSE Buf(b.size, moved(b), kCheapPrepend, kCheapPrepend + readableBytes(b))

ensureWritableBytes(b, len) ==
    IF writableBytes(b) < len THEN makeSpace(b, len) ELSE b

append(b, first, len) ==
    LET e == ensureWritableBytes(b, len)
    IN  Buf(e.size, copied(e.cells, e.writer, first, len), e.reader, e.writer + len)

retrieveAll(b) == Buf(b.size, b.cells, kCheapPrepend, kCheapPrepend)

retrieve(b, len) ==
    IF len < readableBytes(b)
    THEN Buf(b.size, b.cells, b.reader + len, b.writer)
    ELSE retrieveAll(b)

\* The string of len bytes at peek().
peeked(b, len) == [i \in 1 .. len |-> b.cells[b.reader + i - 1]]

\* readv() takes at most this much: the second iovec is used only when the
\* first is the smaller.
mostRead(b) ==
    IF writableBytes(b) < Extra THEN writableBytes(b) + Extra ELSE writableBytes(b)

\* Variant of readFd: what went to extrabuff is appended from its start again.
readFdRepeats(b, first, n) ==
    IF n <= writableBytes(b)
    THEN Buf(b.size, copied(b.cells, b.writer, first, n), b.reader, b.writer + n)
    ELSE append(Buf(b.size, copied(b.cells, b.writer, first, writableBytes(b)),
                    b.reader, b.size),
                first, n - writableBytes(b))

\* readFd when readv() returns n > 0: first the free cells, then extrabuff.
readFd(b, first, n) ==
    IF n <= writableBytes(b)
    THEN Buf(b.size, copied(b.cells, b.writer, first, n), b.reader, b.writer + n)
    ELSE append(Buf(b.size, copied(b.cells, b.writer, first, writableBytes(b)),
                    b.reader, b.size),
                first + writableBytes(b), n - writableBytes(b))

-----------------------------------------------------------------------------
(* A Buffer in use *)

Init ==
    /\ buf = New
    /\ put = 0
    /\ got = 0
    /\ result = <<>>
    /\ peak = 0

filled(n) ==
    /\ put' = put + n
    /\ peak' = IF put + n - got > peak THEN put + n - got ELSE peak
    /\ result' = <<>>
    /\ UNCHANGED got

\* Connection::sendinLoop: what write() did not take.
Append(n) ==
    /\ buf' = append(buf, put + 1, n)
    /\ filled(n)

\* Connection::handleRead.
ReadFd(n) ==
    /\ n <= mostRead(buf)
    /\ buf' = readFd(buf, put + 1, n)
    /\ filled(n)

\* retrieve() by the user: more than is readable takes everything.
Retrieve(n) ==
    /\ buf' = retrieve(buf, n)
    /\ got' = IF n < readableBytes(buf) THEN got + n ELSE got + readableBytes(buf)
    /\ result' = <<>>
    /\ UNCHANGED <<put, peak>>

\* retrieveAsString(), where retrieveAllAsString() asks for all; or a writeFd()
\* that sends n bytes and the retrieve(n) of handleWrite.
Take(n) ==
    /\ n <= readableBytes(buf)
    /\ result' = peeked(buf, n)
    /\ buf' = retrieve(buf, n)
    /\ got' = got + n
    /\ UNCHANGED <<put, peak>>

Next ==
    \/ \E n \in 1 .. MaxBytes - put : Append(n) \/ ReadFd(n)
    \/ \E n \in 0 .. MaxBytes : Retrieve(n) \/ Take(n)

Spec == Init /\ [][Next]_vars

-----------------------------------------------------------------------------
(* Properties *)

\* The indices are in order, and so no size_t subtraction wraps and no byte is
\* copied outside the vector; the prependable part is never given away.
WellFormed(b) ==
    /\ b.size \in Nat
    /\ b.reader \in Nat
    /\ b.writer \in Nat
    /\ b.cells \in [0 .. b.size - 1 -> Nat]
    /\ b = Buf(b.size, b.cells, b.reader, b.writer)
    /\ kCheapPrepend <= b.reader
    /\ b.reader <= b.writer
    /\ b.writer <= b.size

\* b holds the bytes after g, up to and including p.
Contains(b, g, p) ==
    /\ readableBytes(b) = p - g
    /\ \A i \in 0 .. p - g - 1 : b.cells[b.reader + i] = g + 1 + i

TypeOK ==
    /\ WellFormed(buf)
    /\ put \in Nat
    /\ got \in 0 .. put
    /\ peak \in Nat

\* What the Buffer holds is exactly what was put in and not yet taken out, in
\* order, wherever in the vector it is and however often it has been moved.
ContentsExact == Contains(buf, got, put)

\* Moving before growing keeps the vector within twice the most it ever had to
\* hold, or as large as it was created.
SizeBounded ==
    buf.size - kCheapPrepend <= (IF kInitialSize > 2 * peak THEN kInitialSize ELSE 2 * peak)

Promise == INSTANCE ByteQueue
ImplementsByteQueue == Promise!Spec
=============================================================================
