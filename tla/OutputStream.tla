---------------------------- MODULE OutputStream ----------------------------
(***************************************************************************)
(* The sending side of one Connection, byte by byte: sendinLoop writes to  *)
(* the socket as long as nothing waits in outputBuffer_, what the socket   *)
(* does not take waits there with EPOLLOUT asked for, and handleWrite      *)
(* empties it.  Server.tla has the same calls among everything else a      *)
(* connection does, and knows of outputBuffer_ only whether it is empty;   *)
(* here all that matters is which bytes leave, and in which order.         *)
(*                                                                         *)
(* The byte <<m, i>> is the i-th of the m-th string that sendinLoop is     *)
(* given; <<m, 0>> is the byte in front of that string in memory.  A       *)
(* string queued by another thread is assumed to be kept until it is sent. *)
(***************************************************************************)
EXTENDS Naturals, Sequences, SequencesExt

CONSTANTS
    MaxMsgs,        \* bound: strings ever sent
    MaxLen,         \* bound: bytes of a string
    highWaterMark   \* the mark given with setHighWaterMarkCallback

ASSUME OutputAssumption ==
    /\ MaxMsgs \in Nat
    /\ MaxLen \in Nat \ {0}
    /\ highWaterMark \in Nat \ {0}

VARIABLES
    state,          \* state_
    writing,        \* filed_->isWriting()
    outputBuffer,   \* what waits in outputBuffer_
    queued,         \* the lengths of the strings other threads have queued
    wire,           \* what the socket has taken
    wrShut,         \* the socket has been shut down for writing
    strings,        \* history: the lengths of the strings sendinLoop was given
    warned          \* history: high water callbacks since it was last below

vars == <<state, writing, outputBuffer, queued, wire, wrShut, strings, warned>>

Lens == 1 .. MaxLen
Bytes == (1 .. MaxMsgs) \X (0 .. MaxLen)

TypeOK ==
    /\ state \in {"kConnected", "kDisconnecting", "kDisconnected"}
    /\ writing \in BOOLEAN
    /\ outputBuffer \in Seq(Bytes)
    /\ queued \in Seq(Lens)
    /\ wire \in Seq(Bytes)
    /\ wrShut \in BOOLEAN
    /\ strings \in Seq(Lens)
    /\ warned \in 0 .. MaxMsgs

\* Bound: no more than MaxMsgs strings.
Room == Len(strings) + Len(queued) < MaxMsgs

\* After connectEstablished.
Init ==
    /\ state = "kConnected"
    /\ writing = FALSE
    /\ outputBuffer = <<>>
    /\ queued = <<>>
    /\ wire = <<>>
    /\ wrShut = FALSE
    /\ strings = <<>>
    /\ warned = 0

-----------------------------------------------------------------------------
(* sendinLoop, of a string of n bytes *)

\* Variant of data: one byte further.
dataNext(first, len) == [i \in 1 .. len |-> <<Len(strings) + 1, first + i>>]

\* The bytes from data + first - 1 on.
data(first, len) == [i \in 1 .. len |-> <<Len(strings) + 1, first + i - 1>>]

\* Variant of NothingQueued: the socket is tried whatever waits.
AlwaysTry == TRUE

NothingQueued == ~writing /\ outputBuffer = <<>>

\* Variant of asked: EPOLLOUT is not asked for.
askedNot == writing

asked == TRUE

\* Variant of crosses: every string above the mark.
isAbove(len) == len >= highWaterMark

crosses(len) == len >= highWaterMark /\ Len(outputBuffer) < highWaterMark

\* Into outputBuffer_; the user is warned when that crosses the mark.
keep(bytes) ==
    /\ outputBuffer' = outputBuffer \o bytes
    /\ warned' = IF crosses(Len(outputBuffer) + Len(bytes)) THEN warned + 1 ELSE warned
    /\ writing' = asked

keepNothing == UNCHANGED <<writing, outputBuffer, warned>>

giveUp(n) ==
    /\ state = "kDisconnected"
    /\ keepNothing
    /\ UNCHANGED wire

\* write() takes everything.
writeAll(n) ==
    /\ NothingQueued
    /\ ~wrShut
    /\ wire' = wire \o data(1, n)
    /\ keepNothing

\* write() takes k bytes.  nwrote becomes 0 and errno, which this write() has
\* not set, is what it was: the rest is given up, or as many bytes as are left
\* are kept, from the start of the string.
writePart(n) ==
    /\ NothingQueued
    /\ ~wrShut
    /\ \E k \in 1 .. n - 1 :
          /\ wire' = wire \o data(1, k)
          /\ keepNothing \/ keep(data(1, n - k))

\* write() returns -1, and nwrote is still -1 when data + nwrote is kept.
writeNothing(n) ==
    /\ NothingQueued
    /\ keep(data(0, n))
    /\ UNCHANGED wire

\* Something waits: this waits behind it.
waitBehind(n) ==
    /\ ~NothingQueued
    /\ keep(data(1, n))
    /\ UNCHANGED wire

sendinLoop(n) ==
    /\ strings' = Append(strings, n)
    /\ \/ giveUp(n)
       \/ /\ state # "kDisconnected"
          /\ writeAll(n) \/ writePart(n) \/ writeNothing(n) \/ waitBehind(n)
    /\ UNCHANGED <<state, wrShut>>

-----------------------------------------------------------------------------
(* The calls *)

\* send() on the loop's thread.
send(n) ==
    /\ Room
    /\ state = "kConnected"
    /\ sendinLoop(n)
    /\ UNCHANGED queued

\* send() on another thread, and later its turn on the loop, where state_ may
\* have changed.
sendFromThread(n) ==
    /\ Room
    /\ state = "kConnected"
    /\ queued' = Append(queued, n)
    /\ UNCHANGED <<state, writing, outputBuffer, wire, wrShut, strings, warned>>

sendQueued ==
    /\ queued # <<>>
    /\ queued' = Tail(queued)
    /\ sendinLoop(Head(queued))

\* Variant of shutdownInLoop: whether something waits is not looked at.
shutdownNow(waits) == wrShut' = TRUE

shutdownInLoop(waits) == wrShut' = (wrShut \/ ~waits)

\* shutdown() on the loop's thread.
shutdown ==
    /\ state = "kConnected"
    /\ state' = "kDisconnecting"
    /\ shutdownInLoop(writing)
    /\ UNCHANGED <<writing, outputBuffer, queued, wire, strings, warned>>

\* Variant of stillAsked: EPOLLOUT stays.
stillAskedAlways(left) == TRUE

stillAsked(left) == left # <<>>

\* EPOLLOUT: the socket takes some; it is no longer asked for when nothing is
\* left, and a shutdown() that had to wait is done.
handleWrite ==
    /\ writing
    /\ ~wrShut
    /\ \E k \in 1 .. Len(outputBuffer) :
          LET left == SubSeq(outputBuffer, k + 1, Len(outputBuffer))
          IN  /\ wire' = wire \o SubSeq(outputBuffer, 1, k)
              /\ outputBuffer' = left
              /\ warned' = IF Len(left) < highWaterMark THEN 0 ELSE warned
              /\ writing' = stillAsked(left)
              /\ IF left = <<>> /\ state = "kDisconnecting"
                 THEN shutdownInLoop(FALSE)
                 ELSE UNCHANGED wrShut
    /\ UNCHANGED <<state, queued, strings>>

\* The connection ends: disableAll().
handleClose ==
    /\ state # "kDisconnected"
    /\ state' = "kDisconnected"
    /\ writing' = FALSE
    /\ UNCHANGED <<outputBuffer, queued, wire, wrShut, strings, warned>>

Next ==
    \/ \E n \in Lens : send(n) \/ sendFromThread(n)
    \/ sendQueued \/ shutdown \/ handleWrite \/ handleClose

Spec == Init /\ [][Next]_vars

\* EPOLLOUT is reported as long as it is asked for and the peer reads, and the
\* loop runs what is queued.
FairSpec == Spec /\ WF_vars(handleWrite) /\ WF_vars(sendQueued)

-----------------------------------------------------------------------------
(* Properties *)

\* No string overtakes another: neither a write() past what waits in
\* outputBuffer_, nor a string queued by another thread.
StringsInOrder ==
    LET all == wire \o outputBuffer
    IN  \A i, j \in DOMAIN all : i < j => all[i][1] <= all[j][1]

\* EPOLLOUT is asked for exactly while something waits: no data is stuck, and
\* the loop does not spin on a socket that is always writable.
AskedIffWaiting ==
    state # "kDisconnected" => (writing <=> outputBuffer # <<>>)

\* The user is warned once each time outputBuffer_ reaches the mark.
WarnedOnce == warned = IF Len(outputBuffer) >= highWaterMark THEN 1 ELSE 0

\* shutdown() cuts nothing off: the sending side is closed only when nothing
\* waits.
ShutdownCutsNothing == [][wrShut' # wrShut => outputBuffer' = <<>>]_vars

\* What waits leaves, unless the connection ends or somebody shut it down
\* before a string that was already queued.
BufferDrains ==
    (outputBuffer # <<>>) ~> (outputBuffer = <<>> \/ state = "kDisconnected" \/ wrShut)

\* What the comments of the source say and the code does not do.

\* "Append what of data has not been sent yet": while the connection lasts, the
\* socket has taken, and outputBuffer_ holds, what was sent and nothing else.
AllOf(m) == [i \in 1 .. strings[m] |-> <<m, i>>]
OutputIntact ==
    (state # "kDisconnected" /\ ~wrShut) =>
        wire \o outputBuffer = FlattenSeq([m \in 1 .. Len(strings) |-> AllOf(m)])
=============================================================================
