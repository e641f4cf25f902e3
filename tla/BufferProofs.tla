---------------------------- MODULE BufferProofs ----------------------------
(***************************************************************************)
(* Proofs about Buffer, for any prepended part, initial size and extra     *)
(* buffer: the indices stay in order, the contents are exact, the vector   *)
(* is bounded by what it held, and a Buffer implements a ByteQueue.        *)
(***************************************************************************)
EXTENDS Buffer, TLAPS

-----------------------------------------------------------------------------
(* The vector alone: cells c of size s, contents from r up to w, which are the *)
(* bytes after g up to and including p. *)

Holds(s, c, r, w, g, p) ==
    /\ c \in [0 .. s - 1 -> Nat]
    /\ w - r = p - g
    /\ kCheapPrepend <= r
    /\ r <= w
    /\ w <= s
    /\ \A i \in 0 .. p - g - 1 : c[r + i] = g + 1 + i

\* The next n bytes copied behind the contents, where there is room.
LEMMA CopiedHolds ==
    ASSUME NEW s \in Nat, NEW c, NEW r \in Nat, NEW w \in Nat,
           NEW g \in Nat, NEW p \in Nat, Holds(s, c, r, w, g, p),
           NEW n \in Nat, w + n <= s
    PROVE  Holds(s, copied(c, w, p + 1, n), r, w + n, g, p + n)
<1> DEFINE d == copied(c, w, p + 1, n)
<1> USE BufferAssumption
<1>1. d = [i \in 0 .. s - 1 |-> IF i \in w .. w + n - 1
                                THEN p + 1 + (i - w) ELSE c[i]]
  BY DEF Holds, copied
<1> HIDE DEF d
<1>2. ASSUME NEW i \in 0 .. s - 1  PROVE d[i] \in Nat
  <2>1. CASE i \in w .. w + n - 1
    BY <1>1, <2>1
  <2>2. CASE i \notin w .. w + n - 1
    BY <1>1, <2>2 DEF Holds
  <2>. QED  BY <2>1, <2>2
<1>3. d \in [0 .. s - 1 -> Nat]
  BY <1>1, <1>2
<1>4. ASSUME NEW i \in 0 .. p + n - g - 1  PROVE d[r + i] = g + 1 + i
  <2>1. r + i \in 0 .. s - 1
    BY DEF Holds
  <2>2. CASE i < p - g
    <3>1. r + i \notin w .. w + n - 1 /\ i \in 0 .. p - g - 1
      BY <2>2 DEF Holds
    <3>2. d[r + i] = c[r + i]
      BY <1>1, <2>1, <3>1
    <3>. QED  BY <3>1, <3>2 DEF Holds
  <2>3. CASE i >= p - g
    <3>1. r + i \in w .. w + n - 1 /\ p + 1 + (r + i - w) = g + 1 + i
      BY <2>3 DEF Holds
    <3>. QED  BY <1>1, <2>1, <3>1
  <2>. QED  BY <2>2, <2>3 DEF Holds
<1>. QED  BY <1>3, <1>4 DEF Holds, d

\* A vector that grows.
LEMMA ResizedHolds ==
    ASSUME NEW s \in Nat, NEW c, NEW r \in Nat, NEW w \in Nat,
           NEW g \in Nat, NEW p \in Nat, Holds(s, c, r, w, g, p),
           NEW n \in Nat, s <= n
    PROVE  Holds(n, resized(c, n), r, w, g, p)
<1> DEFINE d == resized(c, n)
<1> USE BufferAssumption
<1>1. d = [i \in 0 .. n - 1 |-> IF i \in 0 .. s - 1 THEN c[i] ELSE 0]
  BY DEF Holds, resized
<1> HIDE DEF d
<1>2. ASSUME NEW i \in 0 .. n - 1  PROVE d[i] \in Nat
  BY <1>1 DEF Holds
<1>3. d \in [0 .. n - 1 -> Nat]
  BY <1>1, <1>2
<1>4. ASSUME NEW i \in 0 .. p - g - 1  PROVE d[r + i] = g + 1 + i
  <2>1. r + i \in 0 .. n - 1 /\ r + i \in 0 .. s - 1
    BY DEF Holds
  <2>. QED  BY <1>1, <2>1 DEF Holds
<1>. QED  BY <1>3, <1>4 DEF Holds, d

\* Contents moved to the front.
LEMMA MovedHolds ==
    ASSUME NEW s \in Nat, NEW c, NEW r \in Nat, NEW w \in Nat,
           NEW g \in Nat, NEW p \in Nat, Holds(s, c, r, w, g, p)
    PROVE  Holds(s, moved(Buf(s, c, r, w)), kCheapPrepend,
                 kCheapPrepend + (w - r), g, p)
<1> DEFINE d == moved(Buf(s, c, r, w))
<1> USE BufferAssumption
<1>1. d = [i \in 0 .. s - 1 |->
             IF i \in kCheapPrepend .. kCheapPrepend + (w - r) - 1
             THEN c[i - kCheapPrepend + r] ELSE c[i]]
  BY DEF Holds, moved, readableBytes, Buf
<1> HIDE DEF d
<1>2. ASSUME NEW i \in 0 .. s - 1  PROVE d[i] \in Nat
  <2>1. CASE i \in kCheapPrepend .. kCheapPrepend + (w - r) - 1
    <3>1. i - kCheapPrepend + r \in 0 .. s - 1
      BY <2>1 DEF Holds
    <3>. QED  BY <1>1, <2>1, <3>1 DEF Holds
  <2>2. CASE i \notin kCheapPrepend .. kCheapPrepend + (w - r) - 1
    BY <1>1, <2>2 DEF Holds
  <2>. QED  BY <2>1, <2>2
<1>3. d \in [0 .. s - 1 -> Nat]
  BY <1>1, <1>2
<1>4. ASSUME NEW i \in 0 .. p - g - 1  PROVE d[kCheapPrepend + i] = g + 1 + i
  <2>1. /\ kCheapPrepend + i \in 0 .. s - 1
        /\ kCheapPrepend + i \in kCheapPrepend .. kCheapPrepend + (w - r) - 1
        /\ (kCheapPrepend + i) - kCheapPrepend + r = r + i
    BY DEF Holds
  <2>. QED  BY <1>1, <2>1 DEF Holds
<1>. QED  BY <1>3, <1>4 DEF Holds, d

-----------------------------------------------------------------------------
(* The methods *)

\* The fields of a record made by Buf.
LEMMA BufFields ==
    ASSUME NEW s, NEW c, NEW r, NEW w
    PROVE  /\ Buf(s, c, r, w).size = s
           /\ Buf(s, c, r, w).cells = c
           /\ Buf(s, c, r, w).reader = r
           /\ Buf(s, c, r, w).writer = w
BY DEF Buf

\* The two ways of saying that a Buffer is in order.
LEMMA HoldsGood ==
    ASSUME NEW s \in Nat, NEW c, NEW r \in Nat, NEW w \in Nat,
           NEW g \in Nat, NEW p \in Nat, Holds(s, c, r, w, g, p)
    PROVE  WellFormed(Buf(s, c, r, w)) /\ Contains(Buf(s, c, r, w), g, p)
<1> DEFINE b == Buf(s, c, r, w)
<1>1. b.size = s /\ b.cells = c /\ b.reader = r /\ b.writer = w
  BY BufFields
<1>2. b = Buf(b.size, b.cells, b.reader, b.writer)
  BY <1>1
<1> HIDE DEF b
<1>3. WellFormed(b)
  BY <1>1, <1>2 DEF Holds, WellFormed
<1>4. Contains(b, g, p)
  BY <1>1 DEF Holds, Contains, readableBytes
<1>. QED  BY <1>3, <1>4 DEF b

\* And the other way.
LEMMA GoodHolds ==
    ASSUME NEW b, WellFormed(b), NEW g \in Nat, NEW p \in Nat, Contains(b, g, p)
    PROVE  /\ b.size \in Nat
           /\ b.reader \in Nat
           /\ b.writer \in Nat
           /\ b = Buf(b.size, b.cells, b.reader, b.writer)
           /\ Holds(b.size, b.cells, b.reader, b.writer, g, p)
BY DEF Holds, WellFormed, Contains, readableBytes

\* ensureWritableBytes keeps the contents, makes the room, and grows only when
\* less than half of the new vector would be free.
LEMMA EnsureGood ==
    ASSUME NEW s \in Nat, NEW c, NEW r \in Nat, NEW w \in Nat,
           NEW g \in Nat, NEW p \in Nat, Holds(s, c, r, w, g, p), NEW n \in Nat
    PROVE  \E s2 \in Nat, r2 \in Nat, w2 \in Nat : \E c2 :
              /\ ensureWritableBytes(Buf(s, c, r, w), n) = Buf(s2, c2, r2, w2)
              /\ Holds(s2, c2, r2, w2, g, p)
              /\ w2 + n <= s2
              /\ s2 = s \/ s2 <= kCheapPrepend + 2 * (p + n - g)
<1> DEFINE b == Buf(s, c, r, w)
<1> USE BufferAssumption
<1>1. writableBytes(b) = s - w /\ prependableBytes(b) = r /\ readableBytes(b) = w - r
  BY DEF writableBytes, prependableBytes, readableBytes, Buf
<1>2. b.size = s /\ b.cells = c /\ b.reader = r /\ b.writer = w
  BY DEF Buf
<1> HIDE DEF b
<1>3. CASE s - w >= n
  <2>1. ensureWritableBytes(b, n) = b
    BY <1>1, <1>3 DEF ensureWritableBytes
  <2>2. w + n <= s
    BY <1>3
  <2>. QED  BY <2>1, <2>2 DEF b
<1>4. CASE s - w < n /\ (s - w) + r < n + kCheapPrepend
  <2> DEFINE c2 == resized(c, w + n)
  <2>1. ensureWritableBytes(b, n) = Buf(w + n, c2, r, w)
    BY <1>1, <1>2, <1>4 DEF ensureWritableBytes, makeSpace
  <2>2. s <= w + n /\ w + n \in Nat
    BY <1>4
  <2>3. Holds(w + n, c2, r, w, g, p)
    BY <2>2, ResizedHolds
  <2>4. w + n <= kCheapPrepend + 2 * (p + n - g)
    BY <1>4 DEF Holds
  <2> HIDE DEF c2
  <2>. QED  BY <2>1, <2>2, <2>3, <2>4 DEF b
<1>5. CASE s - w < n /\ ~((s - w) + r < n + kCheapPrepend)
  <2> DEFINE c2 == moved(b)
  <2>1. ensureWritableBytes(b, n) = Buf(s, c2, kCheapPrepend, kCheapPrepend + (w - r))
    BY <1>1, <1>2, <1>5 DEF ensureWritableBytes, makeSpace
  <2>2. Holds(s, c2, kCheapPrepend, kCheapPrepend + (w - r), g, p)
    BY MovedHolds DEF b
  <2>3. kCheapPrepend + (w - r) + n <= s /\ kCheapPrepend + (w - r) \in Nat
    BY <1>5 DEF Holds
  <2> HIDE DEF c2
  <2>. QED  BY <2>1, <2>2, <2>3 DEF b
<1>. QED  BY <1>3, <1>4, <1>5 DEF b

\* append() and readFd() differ in where the bytes were in between.
LEMMA AppendGood ==
    ASSUME NEW b, WellFormed(b), NEW g \in Nat, NEW p \in Nat, Contains(b, g, p),
           NEW n \in Nat
    PROVE  /\ WellFormed(append(b, p + 1, n))
           /\ Contains(append(b, p + 1, n), g, p + n)
           /\ \/ append(b, p + 1, n).size = b.size
              \/ append(b, p + 1, n).size <= kCheapPrepend + 2 * (p + n - g)
<1>1. /\ b.size \in Nat /\ b.reader \in Nat /\ b.writer \in Nat
      /\ b = Buf(b.size, b.cells, b.reader, b.writer)
      /\ Holds(b.size, b.cells, b.reader, b.writer, g, p)
  BY GoodHolds
<1>2. PICK s2 \in Nat, r2 \in Nat, w2 \in Nat : \E c2 :
         /\ ensureWritableBytes(b, n) = Buf(s2, c2, r2, w2)
         /\ Holds(s2, c2, r2, w2, g, p)
         /\ w2 + n <= s2
         /\ s2 = b.size \/ s2 <= kCheapPrepend + 2 * (p + n - g)
  BY <1>1, EnsureGood
<1>3. PICK c2 :
         /\ ensureWritableBytes(b, n) = Buf(s2, c2, r2, w2)
         /\ Holds(s2, c2, r2, w2, g, p)
         /\ w2 + n <= s2
         /\ s2 = b.size \/ s2 <= kCheapPrepend + 2 * (p + n - g)
  BY <1>2
<1>4. append(b, p + 1, n) = Buf(s2, copied(c2, w2, p + 1, n), r2, w2 + n)
  BY <1>3, BufFields DEF append
<1>5. Holds(s2, copied(c2, w2, p + 1, n), r2, w2 + n, g, p + n)
  BY <1>3, CopiedHolds
<1>6. append(b, p + 1, n).size = s2
  BY <1>4, BufFields
<1>7. p + n \in Nat /\ w2 + n \in Nat
  OBVIOUS
<1>. QED  BY <1>3, <1>4, <1>5, <1>6, <1>7, HoldsGood

\* readFd() is that, where the free cells are filled before the rest is appended.
LEMMA ReadFdGood ==
    ASSUME NEW b, WellFormed(b), NEW g \in Nat, NEW p \in Nat, Contains(b, g, p),
           NEW n \in Nat
    PROVE  /\ WellFormed(readFd(b, p + 1, n))
           /\ Contains(readFd(b, p + 1, n), g, p + n)
           /\ \/ readFd(b, p + 1, n).size = b.size
              \/ readFd(b, p + 1, n).size <= kCheapPrepend + 2 * (p + n - g)
<1> DEFINE s == b.size
           c == b.cells
           r == b.reader
           w == b.writer
<1>1. /\ s \in Nat /\ r \in Nat /\ w \in Nat
      /\ Holds(s, c, r, w, g, p)
  BY GoodHolds
<1>2. writableBytes(b) = s - w /\ w <= s
  BY <1>1 DEF writableBytes, Holds
<1>3. CASE n <= s - w
  <2> HIDE DEF s, c, r, w
  <2>1. w + n <= s /\ w + n \in Nat /\ p + n \in Nat
    BY <1>1, <1>3
  <2>2. readFd(b, p + 1, n) = Buf(s, copied(c, w, p + 1, n), r, w + n)
    BY <1>2, <1>3 DEF readFd, s, c, r, w
  <2>3. Holds(s, copied(c, w, p + 1, n), r, w + n, g, p + n)
    BY <1>1, <2>1, CopiedHolds
  <2>4. readFd(b, p + 1, n).size = s
    BY <2>2, BufFields
  <2>. QED  BY <1>1, <2>1, <2>2, <2>3, <2>4, HoldsGood DEF s
<1>4. CASE ~(n <= s - w)
  <2> DEFINE m == s - w
             full == Buf(s, copied(c, w, p + 1, m), r, s)
  <2> HIDE DEF s, c, r, w
  <2>1. m \in Nat /\ n - m \in Nat /\ w + m = s /\ w + m <= s /\ p + m \in Nat
        /\ (p + m) + 1 = (p + 1) + m /\ (p + m) + (n - m) = p + n
    BY <1>1, <1>2, <1>4
  <2>2. readFd(b, p + 1, n) = append(full, (p + 1) + m, n - m)
    BY <1>2, <1>4 DEF readFd, s, c, r, w
  <2> HIDE DEF m, full
  <2>3. Holds(s, copied(c, w, p + 1, m), r, w + m, g, p + m)
    BY <1>1, <2>1, CopiedHolds
  <2>4. WellFormed(full) /\ Contains(full, g, p + m) /\ full.size = s
    BY <1>1, <2>1, <2>3, HoldsGood, BufFields DEF full
  <2> DEFINE q == p + m
             k == n - m
             e == append(full, q + 1, k)
  <2>5. q \in Nat /\ k \in Nat /\ Contains(full, g, q)
    BY <2>1, <2>4
  <2>6. readFd(b, p + 1, n) = e /\ q + k = p + n
    BY <2>1, <2>2
  <2> HIDE DEF q, k
  <2>7. /\ WellFormed(e) /\ Contains(e, g, q + k)
        /\ e.size = full.size \/ e.size <= kCheapPrepend + 2 * (q + k - g)
    BY <2>4, <2>5, AppendGood
  <2> HIDE DEF e
  <2>. QED  BY <2>4, <2>5, <2>6, <2>7 DEF s
<1>. QED  BY <1>3, <1>4

\* retrieve() drops from the front, and never more than there is.
LEMMA RetrieveGood ==
    ASSUME NEW b, WellFormed(b), NEW g \in Nat, NEW p \in Nat, Contains(b, g, p),
           NEW n \in Nat
    PROVE  LET k == IF n < readableBytes(b) THEN n ELSE readableBytes(b)
           IN  /\ k \in Nat
               /\ g + k <= p
               /\ WellFormed(retrieve(b, n))
               /\ Contains(retrieve(b, n), g + k, p)
               /\ retrieve(b, n).size = b.size
<1> DEFINE s == b.size
           c == b.cells
           r == b.reader
           w == b.writer
<1> USE BufferAssumption
<1>1. /\ s \in Nat /\ r \in Nat /\ w \in Nat
      /\ Holds(s, c, r, w, g, p)
  BY GoodHolds
<1>2. readableBytes(b) = w - r
  BY DEF readableBytes
<1>3. retrieve(b, n) = IF n < w - r THEN Buf(s, c, r + n, w)
                       ELSE Buf(s, c, kCheapPrepend, kCheapPrepend)
  BY <1>2 DEF retrieve, retrieveAll
<1> HIDE DEF s, c, r, w
<1>4. CASE n < w - r
  <2>1. r + n \in Nat /\ g + n \in Nat /\ g + n <= p
    BY <1>1, <1>4 DEF Holds
  <2>2. ASSUME NEW i \in 0 .. p - (g + n) - 1  PROVE c[(r + n) + i] = (g + n) + 1 + i
    <3>1. n + i \in 0 .. p - g - 1 /\ r + (n + i) = (r + n) + i
      BY <2>1, <1>1
    <3>2. c[r + (n + i)] = g + 1 + (n + i)
      BY <1>1, <3>1 DEF Holds
    <3>. QED  BY <3>1, <3>2
  <2>3. Holds(s, c, r + n, w, g + n, p)
    BY <1>1, <1>4, <2>2 DEF Holds
  <2>4. retrieve(b, n) = Buf(s, c, r + n, w)
    BY <1>3, <1>4
  <2>5. retrieve(b, n).size = s
    BY <2>4, BufFields
  <2>. QED  BY <1>1, <1>2, <1>4, <2>1, <2>3, <2>4, <2>5, HoldsGood DEF s
<1>5. CASE ~(n < w - r)
  <2>1. w - r \in Nat /\ g + (w - r) = p /\ kCheapPrepend <= s
    BY <1>1 DEF Holds
  <2>2. Holds(s, c, kCheapPrepend, kCheapPrepend, p, p)
    BY <1>1, <2>1 DEF Holds
  <2>3. retrieve(b, n) = Buf(s, c, kCheapPrepend, kCheapPrepend)
    BY <1>3, <1>5
  <2>4. retrieve(b, n).size = s
    BY <2>3, BufFields
  <2>. QED  BY <1>1, <1>2, <1>5, <2>1, <2>2, <2>3, <2>4, HoldsGood DEF s
<1>. QED  BY <1>4, <1>5

\* What is read is the oldest of what is held.
LEMMA PeekedExact ==
    ASSUME NEW b, WellFormed(b), NEW g \in Nat, NEW p \in Nat, Contains(b, g, p),
           NEW n \in Nat, n <= readableBytes(b)
    PROVE  peeked(b, n) = [i \in 1 .. n |-> g + i]
<1>1. ASSUME NEW i \in 1 .. n  PROVE b.cells[b.reader + i - 1] = g + i
  <2>1. b.reader \in Nat /\ readableBytes(b) = p - g
    BY DEF WellFormed, Contains
  <2>2. i - 1 \in 0 .. p - g - 1 /\ b.reader + (i - 1) = b.reader + i - 1
    BY <2>1
  <2>3. b.cells[b.reader + (i - 1)] = g + 1 + (i - 1)
    BY <2>2 DEF Contains
  <2>. QED  BY <2>2, <2>3
<1>. QED  BY <1>1 DEF peeked

-----------------------------------------------------------------------------
(* The invariant.  The vector is bounded through peak, which is therefore      *)
(* never less than what is held. *)

PeakCovers == put - got <= peak

Inv ==
    /\ TypeOK
    /\ ContentsExact
    /\ SizeBounded
    /\ PeakCovers

LEMMA InitInv == Init => Inv
<1> SUFFICES ASSUME Init PROVE Inv
  OBVIOUS
<1> USE BufferAssumption
<1> DEFINE s == kCheapPrepend + kInitialSize
           c == [i \in 0 .. s - 1 |-> 0]
<1>1. s \in Nat /\ c \in [0 .. s - 1 -> Nat] /\ kCheapPrepend <= s
  OBVIOUS
<1>2. buf = Buf(s, c, kCheapPrepend, kCheapPrepend) /\ put = 0 /\ got = 0 /\ peak = 0
  BY DEF Init, New
<1> HIDE DEF c
<1>3. Holds(s, c, kCheapPrepend, kCheapPrepend, 0, 0)
  BY <1>1 DEF Holds
<1>4. WellFormed(buf) /\ Contains(buf, 0, 0) /\ buf.size = s
  BY <1>1, <1>2, <1>3, HoldsGood, BufFields
<1>. QED  BY <1>2, <1>4 DEF Inv, TypeOK, ContentsExact, SizeBounded, PeakCovers

\* Putting bytes in, by whichever method.
LEMMA FillInv ==
    ASSUME Inv, NEW n \in Nat, filled(n),
           WellFormed(buf'), Contains(buf', got, put + n),
           \/ buf'.size = buf.size
           \/ buf'.size <= kCheapPrepend + 2 * (put + n - got)
    PROVE  Inv'
<1> USE BufferAssumption
<1>1. /\ put \in Nat /\ got \in Nat /\ got <= put /\ peak \in Nat
      /\ put' = put + n /\ got' = got
      /\ peak' = IF put + n - got > peak THEN put + n - got ELSE peak
      /\ buf.size \in Nat /\ buf'.size \in Nat
  BY DEF Inv, TypeOK, filled, WellFormed
<1>2. peak' \in Nat /\ peak' >= peak /\ peak' >= put + n - got
  BY <1>1
<1>3. TypeOK' /\ PeakCovers'
  BY <1>1, <1>2 DEF TypeOK, PeakCovers
<1>4. ContentsExact'
  BY <1>1 DEF ContentsExact
<1>5. SizeBounded'
  BY <1>1, <1>2 DEF Inv, SizeBounded
<1>. QED  BY <1>3, <1>4, <1>5 DEF Inv

\* Taking bytes out.
LEMMA DrainInv ==
    ASSUME Inv, NEW k \in Nat, got + k <= put,
           got' = got + k, UNCHANGED <<put, peak>>,
           WellFormed(buf'), Contains(buf', got + k, put), buf'.size = buf.size
    PROVE  Inv'
<1>1. got \in Nat /\ put \in Nat /\ peak \in Nat /\ put - got <= peak
  BY DEF Inv, TypeOK, PeakCovers
<1>2. TypeOK' /\ PeakCovers'
  BY <1>1 DEF TypeOK, PeakCovers
<1>3. ContentsExact' /\ SizeBounded'
  BY DEF Inv, ContentsExact, SizeBounded
<1>. QED  BY <1>2, <1>3 DEF Inv

LEMMA NextInv == Inv /\ [Next]_vars => Inv'
<1> SUFFICES ASSUME Inv, [Next]_vars PROVE Inv'
  OBVIOUS
<1> USE BufferAssumption
<1>1. put \in Nat /\ got \in Nat /\ WellFormed(buf) /\ Contains(buf, got, put)
  BY DEF Inv, TypeOK, ContentsExact
<1>2. ASSUME NEW n \in 1 .. MaxBytes - put, Append(n)  PROVE Inv'
  <2>1. n \in Nat
    OBVIOUS
  <2>. QED  BY <1>1, <1>2, <2>1, AppendGood, FillInv DEF Append
<1>3. ASSUME NEW n \in 1 .. MaxBytes - put, ReadFd(n)  PROVE Inv'
  <2>1. n \in Nat
    OBVIOUS
  <2>. QED  BY <1>1, <1>3, <2>1, ReadFdGood, FillInv DEF ReadFd
<1>4. ASSUME NEW n \in 0 .. MaxBytes, Retrieve(n)  PROVE Inv'
  <2> DEFINE k == IF n < readableBytes(buf) THEN n ELSE readableBytes(buf)
  <2>1. n \in Nat
    OBVIOUS
  <2>2. /\ k \in Nat /\ got + k <= put
        /\ WellFormed(buf') /\ Contains(buf', got + k, put) /\ buf'.size = buf.size
    BY <1>1, <1>4, <2>1, RetrieveGood DEF Retrieve
  <2>3. got' = got + k /\ UNCHANGED <<put, peak>>
    BY <1>4 DEF Retrieve
  <2> HIDE DEF k
  <2>. QED  BY <2>2, <2>3, DrainInv
<1>5. ASSUME NEW n \in 0 .. MaxBytes, Take(n)  PROVE Inv'
  <2> DEFINE k == IF n < readableBytes(buf) THEN n ELSE readableBytes(buf)
  <2>1. n \in Nat
    OBVIOUS
  <2>2. /\ k \in Nat /\ got + k <= put
        /\ WellFormed(buf') /\ Contains(buf', got + k, put) /\ buf'.size = buf.size
    BY <1>1, <1>5, <2>1, RetrieveGood DEF Take
  <2>3. k = n
    <3>1. readableBytes(buf) = put - got
      BY <1>1 DEF Contains
    <3>. QED  BY <1>1, <1>5, <3>1 DEF Take
  <2>4. got' = got + k /\ UNCHANGED <<put, peak>>
    BY <1>5, <2>3 DEF Take
  <2> HIDE DEF k
  <2>. QED  BY <2>2, <2>4, DrainInv
<1>6. ASSUME UNCHANGED vars  PROVE Inv'
  BY <1>6 DEF vars, Inv, TypeOK, ContentsExact, SizeBounded, PeakCovers
<1>. QED  BY <1>2, <1>3, <1>4, <1>5, <1>6 DEF Next

LEMMA Invariance == Spec => []Inv
<1>. QED  BY InitInv, NextInv, PTL DEF Spec

-----------------------------------------------------------------------------

\* The indices are in order whatever is called: no size_t subtraction of
\* readableBytes(), writableBytes() or prependableBytes() wraps.
THEOREM IndicesInOrder == Spec => []TypeOK
<1>1. Inv => TypeOK
  BY DEF Inv
<1>. QED  BY <1>1, Invariance, PTL

\* A Buffer holds exactly what was put in and not taken out, in order.
THEOREM NothingLost == Spec => []ContentsExact
<1>1. Inv => ContentsExact
  BY DEF Inv
<1>. QED  BY <1>1, Invariance, PTL

\* makeSpace() keeps the vector within twice the most it had to hold.
THEOREM SpaceReused == Spec => []SizeBounded
<1>1. Inv => SizeBounded
  BY DEF Inv
<1>. QED  BY <1>1, Invariance, PTL

\* A Buffer gives its bytes back in the order in which it got them.
THEOREM BufferImplementation == Spec => ImplementsByteQueue
<1>1. Init => Promise!Init
  BY DEF Init, Promise!Init
<1>2. Inv /\ [Next]_vars => [Promise!Next]_(Promise!vars)
  <2> SUFFICES ASSUME Inv, [Next]_vars PROVE [Promise!Next]_(Promise!vars)
    OBVIOUS
  <2> USE BufferAssumption
  <2>1. /\ put \in Nat /\ got \in Nat /\ got <= put
        /\ WellFormed(buf) /\ Contains(buf, got, put)
        /\ readableBytes(buf) = put - got
    BY DEF Inv, TypeOK, ContentsExact, Contains
  <2>2. ASSUME NEW n \in 1 .. MaxBytes - put, Append(n) \/ ReadFd(n)
        PROVE  Promise!Put
    BY <2>1, <2>2 DEF Append, ReadFd, filled, Promise!Put
  <2>3. ASSUME NEW n \in 0 .. MaxBytes, Retrieve(n)  PROVE Promise!Take
    BY <2>1, <2>3 DEF Retrieve, Promise!Take
  <2>4. ASSUME NEW n \in 0 .. MaxBytes, Take(n)  PROVE Promise!Take
    <3>1. result' = [i \in 1 .. n |-> got + i]
      BY <2>1, <2>4, PeekedExact DEF Take
    <3>2. got' - got = n /\ got' \in got .. put
      BY <2>1, <2>4 DEF Take
    <3>. QED  BY <2>4, <3>1, <3>2 DEF Take, Promise!Take
  <2>5. CASE UNCHANGED vars
    BY <2>5 DEF vars, Promise!vars
  <2>. QED  BY <2>2, <2>3, <2>4, <2>5 DEF Next, Promise!Next
<1>. QED  BY <1>1, <1>2, Invariance, PTL DEF Spec, ImplementsByteQueue, Promise!Spec
=============================================================================
