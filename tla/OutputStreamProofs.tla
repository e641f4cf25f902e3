------------------------ MODULE OutputStreamProofs -------------------------
(***************************************************************************)
(* Proofs about OutputStream, for strings of any length and number and any *)
(* high water mark: no string overtakes another, EPOLLOUT is asked for     *)
(* exactly while something waits, the user is warned once, and shutdown()  *)
(* cuts nothing off.                                                       *)
(*                                                                         *)
(* None of these is inductive alone.  What waits may be shut off only if   *)
(* isWriting() tells that it waits; a write() past outputBuffer_ keeps the *)
(* order only if the buffer is empty; a byte is behind all others because  *)
(* its string is later than any that sendinLoop has been given.            *)
(***************************************************************************)
EXTENDS OutputStream, SequenceTheorems, TLAPS

\* What has left and what waits are in the order of their strings, and of
\* strings that sendinLoop has been given.
InOrder(s) == \A i, j \in 1 .. Len(s) : i < j => s[i][1] <= s[j][1]
UpTo(s, m) == \A i \in 1 .. Len(s) : s[i][1] <= m
Of(s, m) == \A i \in 1 .. Len(s) : s[i][1] = m

Bounded == Len(strings) + Len(queued) <= MaxMsgs

OutputInv ==
    /\ TypeOK
    /\ Bounded
    /\ AskedIffWaiting
    /\ WarnedOnce
    /\ InOrder(wire \o outputBuffer)
    /\ UpTo(wire \o outputBuffer, Len(strings))

-----------------------------------------------------------------------------
(* Sequences of bytes *)

LEMMA Associative ==
    \A s, t, u \in Seq(Bytes) : (s \o t) \o u = s \o (t \o u)
  BY ConcatAssociative

\* Bytes of a later string may follow.
LEMMA LaterFollows ==
    ASSUME NEW s \in Seq(Bytes), NEW t \in Seq(Bytes), NEW m \in Nat,
           InOrder(s), UpTo(s, m), Of(t, m + 1)
    PROVE  InOrder(s \o t) /\ UpTo(s \o t, m + 1)
<1> DEFINE st == s \o t
<1>1. /\ st \in Seq(Bytes)
      /\ Len(st) = Len(s) + Len(t)
      /\ \A i \in 1 .. Len(s) + Len(t) :
            st[i] = IF i <= Len(s) THEN s[i] ELSE t[i - Len(s)]
  BY ConcatProperties
<1>2. Len(s) \in Nat /\ Len(t) \in Nat
  OBVIOUS
<1>3. \A i \in 1 .. Len(s) : s[i][1] \in Nat /\ s[i][1] <= m
  <2>1. \A i \in 1 .. Len(s) : s[i] \in Bytes
    BY ElementOfSeq
  <2>2. \A b \in Bytes : b[1] \in Nat
    BY OutputAssumption DEF Bytes
  <2>. QED  BY <2>1, <2>2 DEF UpTo
<1>4. ASSUME NEW i \in 1 .. Len(s) + Len(t), i > Len(s)
      PROVE  st[i][1] = m + 1
  <2>1. i - Len(s) \in 1 .. Len(t)
    BY <1>2, <1>4
  <2>. QED  BY <1>1, <1>4, <2>1 DEF Of
<1>5. ASSUME NEW i \in 1 .. Len(s) + Len(t), i <= Len(s)
      PROVE  i \in 1 .. Len(s) /\ st[i] = s[i]
  BY <1>1, <1>2, <1>5
<1> HIDE DEF st
<1>6. InOrder(st)
  <2> SUFFICES ASSUME NEW i \in 1 .. Len(st), NEW j \in 1 .. Len(st), i < j
               PROVE  st[i][1] <= st[j][1]
    BY DEF InOrder
  <2>1. CASE j <= Len(s)
    <3>1. i <= Len(s)
      BY <1>1, <1>2, <2>1
    <3>. QED  BY <1>1, <1>5, <2>1, <3>1 DEF InOrder
  <2>2. CASE j > Len(s) /\ i <= Len(s)
    BY <1>1, <1>3, <1>4, <1>5, <2>2
  <2>3. CASE j > Len(s) /\ i > Len(s)
    BY <1>1, <1>4, <2>3
  <2>. QED  BY <1>1, <1>2, <2>1, <2>2, <2>3
<1>7. UpTo(st, m + 1)
  <2> SUFFICES ASSUME NEW i \in 1 .. Len(st)  PROVE st[i][1] <= m + 1
    BY DEF UpTo
  <2>1. CASE i <= Len(s)
    BY <1>1, <1>3, <1>5, <2>1
  <2>2. CASE i > Len(s)
    BY <1>1, <1>4, <2>2
  <2>. QED  BY <1>1, <1>2, <2>1, <2>2
<1>. QED  BY <1>6, <1>7 DEF st

\* What data gives of the string that comes next.
LEMMA DataProperties ==
    ASSUME TypeOK, NEW first \in 0 .. 1, NEW n \in Nat, first + n - 1 <= MaxLen,
           Len(strings) < MaxMsgs
    PROVE  /\ data(first, n) \in Seq(Bytes)
           /\ Len(data(first, n)) = n
           /\ Of(data(first, n), Len(strings) + 1)
<1> DEFINE d == data(first, n)
<1>1. Len(strings) \in Nat /\ MaxMsgs \in Nat /\ MaxLen \in Nat
  BY OutputAssumption DEF TypeOK
<1>2. \A i \in 1 .. n : <<Len(strings) + 1, first + i - 1>> \in Bytes
  BY <1>1 DEF Bytes
<1>3. d \in [1 .. n -> Bytes]
  BY <1>2 DEF data
<1>4. d \in Seq(Bytes) /\ Len(d) = n
  BY <1>3
<1>5. \A i \in 1 .. n : d[i][1] = Len(strings) + 1
  BY DEF data
<1>. QED  BY <1>4, <1>5 DEF Of

\* Passing some of t on to the end of s leaves the two together as they were.
LEMMA PassOn ==
    ASSUME NEW s \in Seq(Bytes), NEW t \in Seq(Bytes), NEW k \in 1 .. Len(t)
    PROVE  /\ SubSeq(t, 1, k) \in Seq(Bytes)
           /\ SubSeq(t, k + 1, Len(t)) \in Seq(Bytes)
           /\ Len(SubSeq(t, k + 1, Len(t))) = Len(t) - k
           /\ (s \o SubSeq(t, 1, k)) \o SubSeq(t, k + 1, Len(t)) = s \o t
<1>1. k \in Nat /\ Len(t) \in Nat /\ k <= Len(t)
  OBVIOUS
<1>2. \A i \in 1 .. Len(t) : t[i] \in Bytes
  BY ElementOfSeq
<1>3. SubSeq(t, 1, k) \in Seq(Bytes)
  BY <1>1, <1>2, SubSeqProperties
<1>4. /\ SubSeq(t, k + 1, Len(t)) \in Seq(Bytes)
      /\ Len(SubSeq(t, k + 1, Len(t))) = Len(t) - k
  <2>1. \A i \in k + 1 .. Len(t) : t[i] \in Bytes
    BY <1>1, <1>2
  <2>. QED  BY <1>1, <2>1, SubSeqProperties
<1>5. SubSeq(t, 1, k) \o SubSeq(t, k + 1, Len(t)) = t
  <2>1. SubSeq(t, 1, k) \o SubSeq(t, k + 1, Len(t)) = SubSeq(t, 1, Len(t))
    BY <1>1, ConcatAdjacentSubSeq
  <2>2. SubSeq(t, 1, Len(t)) = t
    BY SubSeqFull
  <2>. QED  BY <2>1, <2>2
<1> DEFINE a == SubSeq(t, 1, k)
           b == SubSeq(t, k + 1, Len(t))
<1>6. a \in Seq(Bytes) /\ b \in Seq(Bytes) /\ a \o b = t
  BY <1>3, <1>4, <1>5
<1> HIDE DEF a, b
<1>7. (s \o a) \o b = s \o t
  <2>1. (s \o a) \o b = s \o (a \o b)
    BY <1>6, Associative
  <2>. QED  BY <1>6, <2>1, Zenon
<1>. QED  BY <1>3, <1>4, <1>7 DEF a, b

-----------------------------------------------------------------------------
(* sendinLoop *)

\* The bytes `out` of the string have gone to the socket, and `in` are kept.
Sent(out, in) ==
    /\ out \in Seq(Bytes) /\ Of(out, Len(strings) + 1)
    /\ in \in Seq(Bytes) /\ Of(in, Len(strings) + 1)
    /\ wire' = wire \o out
    /\ out # <<>> => outputBuffer = <<>>
    /\ state = "kDisconnected" => in = <<>>
    /\ IF in = <<>> THEN UNCHANGED <<writing, outputBuffer, warned>> ELSE keep(in)

\* What sendinLoop does is of this kind, whatever write() returns.
LEMMA SendCases ==
    ASSUME TypeOK, NEW n \in Lens, Len(strings) < MaxMsgs, sendinLoop(n)
    PROVE  \E out, in : Sent(out, in)
<1> USE DEF keepNothing
<1>0. n \in Nat /\ 1 <= n /\ n <= MaxLen /\ MaxLen \in Nat
  BY OutputAssumption DEF Lens
<1>1. /\ <<>> \in Seq(Bytes) /\ Of(<<>>, Len(strings) + 1)
      /\ wire \o <<>> = wire
  BY EmptySeq, ConcatEmptySeq DEF Of, TypeOK
<1>2. \A first \in 0 .. 1 : \A m \in 0 .. n :
         /\ data(first, m) \in Seq(Bytes)
         /\ Of(data(first, m), Len(strings) + 1)
         /\ m # 0 => data(first, m) # <<>>
  <2> SUFFICES ASSUME NEW first \in 0 .. 1, NEW m \in 0 .. n
               PROVE  /\ data(first, m) \in Seq(Bytes)
                      /\ Of(data(first, m), Len(strings) + 1)
                      /\ m # 0 => data(first, m) # <<>>
    OBVIOUS
  <2>1. m \in Nat /\ first + m - 1 <= MaxLen
    BY <1>0
  <2>2. /\ data(first, m) \in Seq(Bytes)
        /\ Len(data(first, m)) = m
        /\ Of(data(first, m), Len(strings) + 1)
    BY <2>1, DataProperties
  <2>3. Len(<<>>) = 0
    BY EmptySeq
  <2>. QED  BY <2>2, <2>3
<1>3. CASE giveUp(n)
  <2>1. Sent(<<>>, <<>>)
    BY <1>1, <1>3 DEF giveUp, Sent
  <2>. QED  BY <2>1
<1>4. CASE writeAll(n) /\ state # "kDisconnected"
  <2>1. Sent(data(1, n), <<>>)
    BY <1>0, <1>1, <1>2, <1>4 DEF writeAll, Sent, NothingQueued
  <2>. QED  BY <2>1
<1>5. CASE writePart(n) /\ state # "kDisconnected"
  <2>1. PICK k \in 1 .. n - 1 :
           /\ wire' = wire \o data(1, k)
           /\ \/ UNCHANGED <<writing, outputBuffer, warned>>
              \/ keep(data(1, n - k))
    BY <1>5 DEF writePart
  <2>2. k \in 0 .. n /\ n - k \in 0 .. n /\ n - k # 0
    BY <1>0
  <2>3. outputBuffer = <<>> /\ state # "kDisconnected"
    BY <1>5 DEF writePart, NothingQueued
  <2>4. Sent(data(1, k), <<>>) \/ Sent(data(1, k), data(1, n - k))
    BY <1>1, <1>2, <2>1, <2>2, <2>3 DEF Sent
  <2>. QED  BY <2>4
<1>6. CASE writeNothing(n) /\ state # "kDisconnected"
  <2>1. Sent(<<>>, data(0, n))
    BY <1>0, <1>1, <1>2, <1>6 DEF writeNothing, Sent
  <2>. QED  BY <2>1
<1>7. CASE waitBehind(n) /\ state # "kDisconnected"
  <2>1. Sent(<<>>, data(1, n))
    BY <1>0, <1>1, <1>2, <1>7 DEF waitBehind, Sent
  <2>. QED  BY <2>1
<1>. QED  BY <1>3, <1>4, <1>5, <1>6, <1>7 DEF sendinLoop

\* It preserves the invariant; `queued` has given up the string, or is as it was.
LEMMA SendKeeps ==
    ASSUME OutputInv, NEW n \in Lens, sendinLoop(n), Len(strings) < MaxMsgs,
           queued' \in Seq(Lens), Len(strings) + 1 + Len(queued') <= MaxMsgs
    PROVE  OutputInv'
<1> USE DEF OutputInv, TypeOK
<1>0. MaxMsgs \in Nat /\ highWaterMark \in Nat \ {0}
  BY OutputAssumption
<1>1. PICK out, in : Sent(out, in)
  BY SendCases
<1>2. /\ strings' = Append(strings, n) /\ strings' \in Seq(Lens)
      /\ Len(strings') = Len(strings) + 1
      /\ UNCHANGED <<state, wrShut>>
  BY AppendProperties DEF sendinLoop
<1>3. /\ outputBuffer' = outputBuffer \o in
      /\ out \in Seq(Bytes) /\ Of(out, Len(strings) + 1)
      /\ in \in Seq(Bytes) /\ Of(in, Len(strings) + 1)
      /\ wire' = wire \o out
  BY <1>1, ConcatEmptySeq DEF Sent, keep
<1>4. wire' \in Seq(Bytes) /\ outputBuffer' \in Seq(Bytes)
  BY <1>3, ConcatProperties
<1>5. Len(outputBuffer') = Len(outputBuffer) + Len(in) /\ Len(in) \in Nat
  BY <1>3, ConcatProperties
<1>6. TypeOK' /\ WarnedOnce'
  <2>1. CASE in = <<>>
    <3>1. UNCHANGED <<writing, outputBuffer, warned>>
      BY <1>1, <2>1 DEF Sent
    <3>. QED  BY <1>2, <1>4, <3>1 DEF WarnedOnce
  <2>2. CASE in # <<>>
    <3>1. keep(in)
      BY <1>1, <2>2 DEF Sent
    <3>2. 1 <= MaxMsgs
      BY <1>0
    <3>3. warned' = IF Len(outputBuffer') >= highWaterMark THEN 1 ELSE 0
      BY <1>0, <1>5, <3>1 DEF keep, crosses, WarnedOnce
    <3>. QED  BY <1>0, <1>2, <1>4, <3>1, <3>2, <3>3 DEF keep, asked, WarnedOnce
  <2>. QED  BY <2>1, <2>2
<1>7. AskedIffWaiting'
  <2>1. CASE in = <<>>
    BY <1>1, <1>2, <2>1 DEF Sent, AskedIffWaiting
  <2>2. CASE in # <<>>
    <3>1. writing' = TRUE
      BY <1>1, <2>2 DEF Sent, keep, asked
    <3>2. outputBuffer' # <<>>
      BY <1>3, <2>2, ConcatSimplifications
    <3>. QED  BY <3>1, <3>2 DEF AskedIffWaiting
  <2>. QED  BY <2>1, <2>2
<1>8. InOrder(wire' \o outputBuffer') /\ UpTo(wire' \o outputBuffer', Len(strings'))
  <2>1. CASE out = <<>>
    <3>1. wire' \o outputBuffer' = (wire \o outputBuffer) \o in
      <4>1. wire' = wire
        BY <1>3, <2>1, ConcatEmptySeq
      <4>2. wire \o (outputBuffer \o in) = (wire \o outputBuffer) \o in
        BY <1>3, Associative
      <4>. QED  BY <1>3, <4>1, <4>2, Zenon
    <3>2. wire \o outputBuffer \in Seq(Bytes)
      BY ConcatProperties
    <3>. QED  BY <1>2, <1>3, <3>1, <3>2, LaterFollows, LenProperties
  <2>2. CASE out # <<>>
    <3>1. outputBuffer = <<>>
      BY <1>1, <2>2 DEF Sent
    <3>2. wire \o outputBuffer = wire /\ outputBuffer' = in
      BY <1>3, <3>1, ConcatEmptySeq
    <3>3. wire' \o outputBuffer' = wire \o (out \o in)
      <4>1. (wire \o out) \o in = wire \o (out \o in)
        BY <1>3, Associative
      <4>. QED  BY <1>3, <3>2, <4>1, Zenon
    <3>4. out \o in \in Seq(Bytes) /\ Of(out \o in, Len(strings) + 1)
      BY <1>3, ConcatProperties DEF Of
    <3>. QED  BY <1>2, <3>2, <3>3, <3>4, LaterFollows, LenProperties
  <2>. QED  BY <2>1, <2>2
<1>9. Bounded'
  BY <1>2 DEF Bounded
<1>. QED  BY <1>6, <1>7, <1>8, <1>9

-----------------------------------------------------------------------------
(* The invariant *)

LEMMA OutputInit == Init => OutputInv
<1> SUFFICES ASSUME Init  PROVE OutputInv
  OBVIOUS
<1>1. /\ <<>> \in Seq(Bytes) /\ <<>> \in Seq(Lens) /\ Len(<<>>) = 0
      /\ wire \o outputBuffer = <<>>
  BY EmptySeq, ConcatEmptySeq DEF Init
<1>2. InOrder(<<>>) /\ UpTo(<<>>, Len(strings))
  BY <1>1 DEF InOrder, UpTo
<1>3. TypeOK
  <2>1. outputBuffer \in Seq(Bytes) /\ wire \in Seq(Bytes)
    BY <1>1 DEF Init
  <2>2. queued \in Seq(Lens) /\ strings \in Seq(Lens)
    BY <1>1 DEF Init
  <2>3. warned \in 0 .. MaxMsgs
    BY OutputAssumption DEF Init
  <2>. QED  BY <2>1, <2>2, <2>3 DEF Init, TypeOK
<1>4. Bounded /\ WarnedOnce
  BY <1>1, OutputAssumption DEF Init, Bounded, WarnedOnce
<1>5. AskedIffWaiting
  BY DEF Init, AskedIffWaiting
<1>. QED  BY <1>1, <1>2, <1>3, <1>4, <1>5 DEF OutputInv

\* handleWrite passes on from the front.
LEMMA WriteKeeps == OutputInv /\ handleWrite => OutputInv'
<1> SUFFICES ASSUME OutputInv, handleWrite  PROVE OutputInv'
  OBVIOUS
<1> USE DEF OutputInv, TypeOK
<1>0. MaxMsgs \in Nat /\ highWaterMark \in Nat \ {0}
  BY OutputAssumption
<1>1. PICK k \in 1 .. Len(outputBuffer) :
         LET left == SubSeq(outputBuffer, k + 1, Len(outputBuffer))
         IN  /\ wire' = wire \o SubSeq(outputBuffer, 1, k)
             /\ outputBuffer' = left
             /\ warned' = IF Len(left) < highWaterMark THEN 0 ELSE warned
             /\ writing' = (left # <<>>)
             /\ wrShut' \in BOOLEAN
  BY DEF handleWrite, stillAsked, shutdownInLoop
<1>2. /\ SubSeq(outputBuffer, 1, k) \in Seq(Bytes)
      /\ outputBuffer' \in Seq(Bytes)
      /\ Len(outputBuffer') = Len(outputBuffer) - k
      /\ wire' \o outputBuffer' = wire \o outputBuffer
  BY <1>1, PassOn
<1>3. wire' \in Seq(Bytes)
  BY <1>1, <1>2, ConcatProperties
<1>4. UNCHANGED <<state, queued, strings>>
  BY DEF handleWrite
<1>5. TypeOK' /\ WarnedOnce'
  <2>1. warned' = IF Len(outputBuffer') < highWaterMark THEN 0 ELSE warned
    BY <1>1
  <2>2. Len(outputBuffer) \in Nat /\ k \in Nat /\ Len(outputBuffer') \in Nat
    BY <1>2
  <2>3. WarnedOnce'
    BY <1>0, <1>2, <2>1, <2>2 DEF WarnedOnce
  <2>. QED  BY <1>0, <1>1, <1>2, <1>3, <1>4, <2>1, <2>3
<1>6. AskedIffWaiting'
  BY <1>1 DEF AskedIffWaiting
<1>7. Bounded' /\ InOrder(wire' \o outputBuffer')
      /\ UpTo(wire' \o outputBuffer', Len(strings'))
  BY <1>2, <1>4 DEF Bounded
<1>. QED  BY <1>5, <1>6, <1>7

LEMMA OutputNext == OutputInv /\ [Next]_vars => OutputInv'
<1> SUFFICES ASSUME OutputInv, [Next]_vars  PROVE OutputInv'
  OBVIOUS
<1>0. /\ MaxMsgs \in Nat /\ Len(strings) \in Nat /\ Len(queued) \in Nat
      /\ strings \in Seq(Lens) /\ queued \in Seq(Lens)
  BY OutputAssumption DEF OutputInv, TypeOK
<1>1. ASSUME NEW n \in Lens, send(n)  PROVE OutputInv'
  <2>1. /\ sendinLoop(n) /\ queued' = queued
        /\ Len(strings) + Len(queued) < MaxMsgs
    BY <1>1 DEF send, Room
  <2>2. Len(strings) < MaxMsgs /\ Len(strings) + 1 + Len(queued') <= MaxMsgs
    BY <1>0, <2>1
  <2>. QED  BY <1>0, <2>1, <2>2, SendKeeps
<1>2. ASSUME NEW n \in Lens, sendFromThread(n)  PROVE OutputInv'
  <2>1. /\ queued' = Append(queued, n)
        /\ Len(strings) + Len(queued) < MaxMsgs
        /\ UNCHANGED <<state, writing, outputBuffer, wire, wrShut, strings, warned>>
    BY <1>2 DEF sendFromThread, Room
  <2>2. queued' \in Seq(Lens) /\ Len(queued') = Len(queued) + 1
    BY <1>0, <2>1, AppendProperties
  <2>3. Len(strings') + Len(queued') <= MaxMsgs
    BY <1>0, <2>1, <2>2
  <2>. QED
    BY <2>1, <2>2, <2>3 DEF OutputInv, TypeOK, Bounded, AskedIffWaiting, WarnedOnce
<1>3. CASE sendQueued
  <2>1. queued # <<>> /\ queued' = Tail(queued) /\ sendinLoop(Head(queued))
    BY <1>3 DEF sendQueued
  <2>2. /\ Head(queued) \in Lens /\ queued' \in Seq(Lens)
        /\ Len(queued') = Len(queued) - 1
    BY <1>0, <2>1, HeadTailProperties
  <2>3. Len(queued) # 0 /\ Len(strings) + Len(queued) <= MaxMsgs
    BY <1>0, <2>1, EmptySeq DEF OutputInv, Bounded
  <2>4. Len(strings) < MaxMsgs /\ Len(strings) + 1 + Len(queued') <= MaxMsgs
    BY <1>0, <2>2, <2>3
  <2>. QED  BY <2>1, <2>2, <2>4, SendKeeps
<1>4. CASE shutdown
  BY <1>4 DEF shutdown, shutdownInLoop, OutputInv, TypeOK, Bounded,
     AskedIffWaiting, WarnedOnce
<1>5. CASE handleClose
  BY <1>5 DEF handleClose, OutputInv, TypeOK, Bounded, AskedIffWaiting, WarnedOnce
<1>6. CASE UNCHANGED vars
  BY <1>6 DEF vars, OutputInv, TypeOK, Bounded, AskedIffWaiting, WarnedOnce
<1>. QED
  BY <1>1, <1>2, <1>3, <1>4, <1>5, <1>6, WriteKeeps DEF Next

LEMMA OutputInvariant == Spec => []OutputInv
  BY OutputInit, OutputNext, PTL DEF Spec

-----------------------------------------------------------------------------
(* The theorems *)

\* Every variable keeps its type; in particular the user is warned no more often
\* than there are strings.
THEOREM OutputTypes == Spec => []TypeOK
<1>1. OutputInv => TypeOK
  BY DEF OutputInv
<1>. QED  BY <1>1, OutputInvariant, PTL

\* Neither a write() in sendinLoop nor a string queued by another thread passes
\* what waits in outputBuffer_.
THEOREM NoOvertaking == Spec => []StringsInOrder
<1>1. OutputInv => StringsInOrder
  <2> SUFFICES ASSUME OutputInv  PROVE StringsInOrder
    OBVIOUS
  <2>1. DOMAIN (wire \o outputBuffer) = 1 .. Len(wire \o outputBuffer)
    BY ConcatProperties, LenProperties DEF OutputInv, TypeOK
  <2>. QED  BY <2>1 DEF OutputInv, InOrder, StringsInOrder
<1>. QED  BY <1>1, OutputInvariant, PTL

\* EPOLLOUT is asked for exactly while outputBuffer_ holds something.
THEOREM AskedExactlyWhileWaiting == Spec => []AskedIffWaiting
<1>1. OutputInv => AskedIffWaiting
  BY DEF OutputInv
<1>. QED  BY <1>1, OutputInvariant, PTL

\* One high water callback for each crossing of the mark.
THEOREM OneWarning == Spec => []WarnedOnce
<1>1. OutputInv => WarnedOnce
  BY DEF OutputInv
<1>. QED  BY <1>1, OutputInvariant, PTL

\* The socket is shut for writing, by shutdown() or later by handleWrite, only
\* when nothing waits: isWriting(), which is all shutdownInLoop looks at, tells.
THEOREM NothingCutOff == Spec => ShutdownCutsNothing
<1>1. OutputInv /\ [Next]_vars => [wrShut' # wrShut => outputBuffer' = <<>>]_vars
  <2> SUFFICES ASSUME OutputInv, [Next]_vars, wrShut' # wrShut
               PROVE  outputBuffer' = <<>>
    OBVIOUS
  <2>1. CASE shutdown
    <3>1. ~writing /\ state # "kDisconnected" /\ UNCHANGED outputBuffer
      BY <2>1 DEF shutdown, shutdownInLoop, OutputInv, TypeOK
    <3>. QED  BY <3>1 DEF OutputInv, AskedIffWaiting
  <2>2. CASE handleWrite
    BY <2>2 DEF handleWrite
  <2>3. CASE (\E n \in Lens : send(n) \/ sendFromThread(n)) \/ sendQueued
             \/ handleClose \/ UNCHANGED vars
    BY <2>3 DEF send, sendFromThread, sendQueued, sendinLoop, handleClose, vars
  <2>. QED  BY <2>1, <2>2, <2>3 DEF Next
<1>. QED  BY <1>1, OutputInvariant, PTL DEF Spec, ShutdownCutsNothing
=============================================================================
