---------------------------- MODULE ServerCalls -----------------------------
(*****************************************************************************)
(* Server.tla keeps its types, for every number of connections, loops,       *)
(* descriptors and threads of the user; the inductive invariant of its       *)
(* ownership; and that every call a loop makes on a connection keeps it.     *)
(*                                                                           *)
(* CallsAlive, DeadForgotten and FiledsAgree are not inductive: a connection *)
(* has another owner at each point of its life (the map, the functor that    *)
(* waits for the base loop, the connectDestroyed that waits for its own loop,*)
(* doPendFunc's vector, a guard, a local pointer, a user thread), and a loop *)
(* may meet it for as long as Epoller has it.  IInv says who owns it when.   *)
(*                                                                           *)
(* Each call is looked at in one way: it leaves the stack, makes the calls S *)
(* and queues the functors Q (Calling), and changes the registration and the *)
(* state of one connection (Changing).  What the invariant needs is proved   *)
(* once, from these two; the lemma of a call shows that it is of the kind.   *)
(*****************************************************************************)
EXTENDS Server, TLAPS

-----------------------------------------------------------------------------
(* The types. *)

\* TypeOK is not inductive alone: that a connection accepted is one of Conns rests on
\* the bound PeerConnects keeps on what has been accepted and what waits in the
\* backlog, and on the Acceptor being active only while one waits.
Counted ==
    /\ nextConnId + backlog <= MaxConns + 1
    /\ Acceptor \in active[base] => backlog > 0

Typed == TypeOK /\ Counted

LoopTypes ==
    /\ phase \in [Loops -> {"poll", "events", "functors", "exited",
                           "joining", "destroyed"}]
    /\ active \in [Loops -> SUBSET (Conns \cup {Acceptor})]
    /\ revents \in [Conns -> SUBSET {"in", "out", "hup", "err"}]
    /\ batch \in [Loops -> Seq(Functors)]
    /\ kept \in [Loops -> SUBSET Conns]
TodoTypes == todo \in [Loops -> Seq(Calls)]
PendTypes == pend \in [Loops -> Seq(Functors)]
ServerParts ==
    /\ backlog \in 0 .. MaxConns
    /\ nextConnId \in 1 .. MaxConns + 1
    /\ connections \subseteq Conns
    /\ loops \in Seq(Loops)
    /\ nextLoop = 0 \/ nextLoop \in 0 .. Len(loops) - 1
ConnTypes ==
    /\ loopOf \in [Conns -> Loops]
    /\ fdOf \in [Conns -> Fds \cup {0}]
    /\ state \in [Conns -> States]
    /\ outbuf \in [Conns -> BOOLEAN]
RegTypes ==
    /\ events \in [Conns -> SUBSET {"in", "out"}]
    /\ index \in [Conns -> {"kNew", "kAdded", "kDeleted"}]
    /\ fileds \in [Loops -> [Fds -> Conns \cup {0}]]
SockTypes ==
    /\ peer \in [Conns -> {"open", "fin", "rst"}]
    /\ sent \in [Conns -> 0 .. Messages]
    /\ read \in [Conns -> 0 .. Messages]
    /\ err \in [Conns -> BOOLEAN]
    /\ wrShut \in [Conns -> BOOLEAN]
UserTypes ==
    /\ held \in [Users -> SUBSET Conns]
    /\ doing \in [Users -> {Idle} \cup
                 [op : Raw \cup {"setDisconnecting"}, conn : Conns]]
HistoryTypes ==
    /\ told \in [Conns -> Seq(BOOLEAN)]
    /\ delivered \in [Conns -> 0 .. Messages]

Parts == /\ LoopTypes /\ TodoTypes /\ PendTypes /\ ServerParts /\ ConnTypes
         /\ RegTypes /\ SockTypes /\ UserTypes /\ HistoryTypes

\* TypeOK is the conjunction of its parts.
LEMMA TypeParts == TypeOK <=> Parts
BY DEF TypeOK, Parts, LoopTypes, TodoTypes, PendTypes, ServerParts, ConnTypes, RegTypes,
  SockTypes, UserTypes, HistoryTypes

\* A sequence of one.
LEMMA SeqOfOne == ASSUME NEW S, NEW x \in S PROVE <<x>> \in Seq(S)
OBVIOUS

\* The calls the code makes are Calls, the ones it queues are Functors.
LEMMA CallTyped == ASSUME NEW o \in Deferred \cup Nested, NEW c \in Conns
  PROVE Call(o, c) \in Calls /\ (o \in Deferred => Call(o, c) \in Functors)
BY DEF Call, Calls, Functors

\* The program starts with nothing queued, accepted or registered.
LEMMA TypesInit == Init => Typed
<1> SUFFICES ASSUME Init PROVE Typed
  OBVIOUS
<1> USE ServerAssumption DEF Init
<1>1. base \in Loops /\ \A m \in ToSet(IoLoops) : m \in Loops
  BY DEF Loops
<1>2. loops \in Seq(Loops)
  <2>1. PICK n \in ThreadNums : loops = SubSeq(IoLoops, 1, n)
    OBVIOUS
  <2>2. IoLoops \in Seq(Loops)
    BY DEF Loops
  <2>3. n \in 0 .. Len(IoLoops)
    OBVIOUS
  <2> QED BY <2>1, <2>2, <2>3
<1>3. LoopTypes
  BY DEF LoopTypes, Conns, Acceptor
<1>4. TodoTypes /\ PendTypes
  BY DEF TodoTypes, PendTypes
<1>5. ServerParts
  BY <1>2 DEF ServerParts
<1>6. ConnTypes /\ RegTypes
  BY <1>1 DEF ConnTypes, RegTypes, States
<1>7. SockTypes /\ UserTypes /\ HistoryTypes
  BY DEF SockTypes, UserTypes, HistoryTypes
<1>8. Counted
  BY <1>1 DEF Counted
<1> QED BY <1>3, <1>4, <1>5, <1>6, <1>7, <1>8, TypeParts DEF Parts, Typed

-----------------------------------------------------------------------------
\* The innermost call of l returns and leaves the calls s.
LEMMA BecomeTyped ==
  ASSUME TodoTypes, NEW l \in Loops, NEW o, NEW c, Now(l, o, c), NEW s \in Seq(Calls),
         become(l, s)
  PROVE  TodoTypes' /\ c \in Conns
<1>1. todo[l] \in Seq(Calls) /\ todo[l] # <<>> /\ Head(todo[l]) = Call(o, c)
  BY DEF TodoTypes, Now
<1>2. Head(todo[l]) \in Calls /\ Tail(todo[l]) \in Seq(Calls)
  BY <1>1
<1>3. s \o Tail(todo[l]) \in Seq(Calls)
  BY <1>2
<1>4. c \in Conns
  BY <1>1, <1>2 DEF Call, Calls
<1> QED BY <1>3, <1>4 DEF TodoTypes, become

\* EventLoop::queueinLoop appends one functor.
LEMMA QueueTyped ==
  ASSUME PendTypes, NEW m \in Loops, NEW o \in Deferred, NEW c \in Conns,
         queueinLoop(m, Call(o, c))
  PROVE  PendTypes'
<1>1. Call(o, c) \in Functors
  BY DEF Call, Functors
<1>2. Append(pend[m], Call(o, c)) \in Seq(Functors)
  BY <1>1 DEF PendTypes
<1> QED BY <1>2 DEF PendTypes, queueinLoop

\* Filed::update and Epoller::update.
LEMMA EventsTyped ==
  ASSUME RegTypes, ConnTypes, NEW c \in Conns, NEW e \in SUBSET {"in", "out"}, setEvents(c, e)
  PROVE  RegTypes'
BY DEF RegTypes, ConnTypes, setEvents

\* The calls a loop makes.
CallStep(l, c) ==
    \/ removeConnection(l, c) \/ removeConnectionInLoop(l, c)
    \/ connectEstablished(l, c) \/ connectDestroyed(l, c) \/ remove(l, c)
    \/ handleRead(l, c) \/ handleWriteAll(l, c) \/ handleWritePart(l, c)
    \/ handleClose(l, c) \/ handleError(l, c)
    \/ connectionCallback(l, c) \/ messageCallback(l, c)
    \/ writeCompleteCallback(l, c)
    \/ send(l, c) \/ sendAtOnce(l, c) \/ sendBuffered(l, c)
    \/ shutdown(l, c) \/ shutdownInLoop(l, c)

USE DEF turnVars, loopVars, serverVars, connVars, regVars, sockVars, userVars, history,
        outside, Parts

\* Server::removeConnection, at once or queued to the base loop.
LEMMA RemoveConnectionTyped ==
  ASSUME Parts, NEW l \in Loops, NEW c \in Conns, removeConnection(l, c) PROVE Parts'
<1>1. Call("removeConnectionInLoop", c) \in Calls /\ "removeConnectionInLoop" \in Deferred
  BY CallTyped DEF Deferred
<1>2. <<Call("removeConnectionInLoop", c)>> \in Seq(Calls) /\ <<>> \in Seq(Calls)
  BY <1>1
<1>3. TodoTypes' /\ PendTypes'
  <2>1. CASE l = base
    BY <2>1, <1>2, BecomeTyped DEF removeConnection, runinLoop, PendTypes
  <2>2. CASE l # base
    BY <2>2, <1>1, <1>2, BecomeTyped, QueueTyped DEF removeConnection, runinLoop, Loops
  <2> QED BY <2>1, <2>2
<1> QED BY <1>3 DEF removeConnection, LoopTypes, ServerParts, ConnTypes, RegTypes,
      SockTypes, UserTypes, HistoryTypes

\* Server::removeConnectionInLoop.
LEMMA RemoveInLoopTyped ==
  ASSUME Parts, NEW l \in Loops, NEW c \in Conns, removeConnectionInLoop(l, c) PROVE Parts'
<1>1. <<>> \in Seq(Calls)
  OBVIOUS
<1>2. TodoTypes'
  BY <1>1, BecomeTyped DEF removeConnectionInLoop
<1>3. PendTypes'
  BY QueueTyped DEF removeConnectionInLoop, Deferred, ConnTypes
<1> QED BY <1>2, <1>3 DEF removeConnectionInLoop, LoopTypes, ServerParts, ConnTypes,
      RegTypes, SockTypes, UserTypes, HistoryTypes

\* What a call may leave to be done next, all of it about its own connection.
LEMMA NextCalls ==
  ASSUME NEW c \in Conns
  PROVE  /\ \A o \in Deferred \cup Nested : <<Call(o, c)>> \in Seq(Calls)
         /\ \A o, q \in Deferred \cup Nested : <<Call(o, c), Call(q, c)>> \in Seq(Calls)
         /\ <<>> \in Seq(Calls)
<1>1. \A o \in Deferred \cup Nested : Call(o, c) \in Calls
  BY CallTyped
<1> QED BY <1>1

\* Connection::connectEstablished.
LEMMA EstablishedTyped ==
  ASSUME Parts, NEW l \in Loops, NEW c \in Conns, connectEstablished(l, c) PROVE Parts'
<1>1. TodoTypes'
  BY NextCalls, BecomeTyped DEF connectEstablished, Nested
<1>2. RegTypes'
  BY EventsTyped DEF connectEstablished, enableReading, RegTypes
<1> QED BY <1>1, <1>2 DEF connectEstablished, LoopTypes, PendTypes, ServerParts, ConnTypes,
      SockTypes, UserTypes, HistoryTypes, States

\* Connection::connectDestroyed.
LEMMA DestroyedTyped ==
  ASSUME Parts, NEW l \in Loops, NEW c \in Conns, connectDestroyed(l, c) PROVE Parts'
<1>1. TodoTypes'
  BY NextCalls, BecomeTyped DEF connectDestroyed, Nested
<1>2. RegTypes'
  BY EventsTyped DEF connectDestroyed, disableAll, RegTypes
<1> QED BY <1>1, <1>2 DEF connectDestroyed, LoopTypes, PendTypes, ServerParts, ConnTypes,
      SockTypes, UserTypes, HistoryTypes, States

\* Epoller::remove.
LEMMA RemoveTyped ==
  ASSUME Parts, NEW l \in Loops, NEW c \in Conns, remove(l, c) PROVE Parts'
<1>1. TodoTypes'
  BY NextCalls, BecomeTyped DEF remove
<1>2. RegTypes'
  BY DEF remove, erased, unregistered, RegTypes, ConnTypes
<1> QED BY <1>1, <1>2 DEF remove, LoopTypes, PendTypes, ServerParts, ConnTypes,
      SockTypes, UserTypes, HistoryTypes

\* Connection::handleRead: no more is read than was sent.
LEMMA ReadTyped ==
  ASSUME Parts, NEW l \in Loops, NEW c \in Conns, handleRead(l, c) PROVE Parts'
<1>1. TodoTypes'
  BY NextCalls, BecomeTyped DEF handleRead, Nested
<1>2. SockTypes'
  <2>1. \A n \in read[c] + 1 .. sent[c] : n \in 0 .. Messages
    BY ServerAssumption DEF SockTypes
  <2>2. read' \in [Conns -> 0 .. Messages]
    BY <2>1 DEF handleRead, SockTypes
  <2>3. err' \in [Conns -> BOOLEAN]
    BY DEF handleRead, SockTypes
  <2> QED BY <2>2, <2>3 DEF handleRead, SockTypes
<1> QED BY <1>1, <1>2 DEF handleRead, LoopTypes, PendTypes, ServerParts, ConnTypes,
      RegTypes, UserTypes, HistoryTypes

\* Connection::handleWrite, when outputBuffer_ becomes empty.
LEMMA WriteAllTyped ==
  ASSUME Parts, NEW l \in Loops, NEW c \in Conns, handleWriteAll(l, c) PROVE Parts'
<1>1. TodoTypes'
  BY NextCalls, BecomeTyped DEF handleWriteAll, allWritten, Deferred
<1>2. RegTypes'
  BY EventsTyped DEF handleWriteAll, disableWriting, RegTypes
<1>3. PendTypes'
  BY QueueTyped DEF handleWriteAll, Deferred, PendTypes
<1> QED BY <1>1, <1>2, <1>3 DEF handleWriteAll, LoopTypes, ServerParts, ConnTypes,
      SockTypes, UserTypes, HistoryTypes

\* Connection::handleWrite, in its other outcomes.
LEMMA WritePartTyped ==
  ASSUME Parts, NEW l \in Loops, NEW c \in Conns, handleWritePart(l, c) PROVE Parts'
<1>1. TodoTypes'
  BY NextCalls, BecomeTyped DEF handleWritePart
<1> QED BY <1>1 DEF handleWritePart, LoopTypes, PendTypes, ServerParts, ConnTypes,
      RegTypes, SockTypes, UserTypes, HistoryTypes

\* Connection::handleClose.
LEMMA CloseTyped ==
  ASSUME Parts, NEW l \in Loops, NEW c \in Conns, handleClose(l, c) PROVE Parts'
<1>1. TodoTypes'
  BY NextCalls, BecomeTyped DEF handleClose, closing, Nested
<1>2. RegTypes'
  BY EventsTyped DEF handleClose, disableAll, RegTypes
<1> QED BY <1>1, <1>2 DEF handleClose, LoopTypes, PendTypes, ServerParts, ConnTypes,
      SockTypes, UserTypes, HistoryTypes, States

\* Connection::handleError.
LEMMA ErrorTyped ==
  ASSUME Parts, NEW l \in Loops, NEW c \in Conns, handleError(l, c) PROVE Parts'
<1>1. TodoTypes'
  BY NextCalls, BecomeTyped DEF handleError
<1> QED BY <1>1 DEF handleError, LoopTypes, PendTypes, ServerParts, ConnTypes,
      RegTypes, SockTypes, UserTypes, HistoryTypes

\* Connection::send on the loop of the connection.
LEMMA SendTyped ==
  ASSUME Parts, NEW l \in Loops, NEW c \in Conns, send(l, c) PROVE Parts'
<1>1. TodoTypes'
  BY NextCalls, BecomeTyped DEF send, Deferred
<1> QED BY <1>1 DEF send, LoopTypes, PendTypes, ServerParts, ConnTypes,
      RegTypes, SockTypes, UserTypes, HistoryTypes

\* Connection::shutdown on the loop of the connection.
LEMMA ShutdownTyped ==
  ASSUME Parts, NEW l \in Loops, NEW c \in Conns, shutdown(l, c) PROVE Parts'
<1>1. TodoTypes'
  BY NextCalls, BecomeTyped DEF shutdown, Deferred
<1>2. ConnTypes'
  BY DEF shutdown, ConnTypes, States
<1> QED BY <1>1, <1>2 DEF shutdown, LoopTypes, PendTypes, ServerParts,
      RegTypes, SockTypes, UserTypes, HistoryTypes

\* Connection::sendinLoop, when nothing is left to buffer.
LEMMA SendAtOnceTyped ==
  ASSUME Parts, NEW l \in Loops, NEW c \in Conns, sendAtOnce(l, c) PROVE Parts'
<1>1. TodoTypes'
  BY NextCalls, BecomeTyped DEF sendAtOnce
<1>2. PendTypes'
  BY QueueTyped DEF sendAtOnce, Deferred, PendTypes
<1> QED BY <1>1, <1>2 DEF sendAtOnce, LoopTypes, ServerParts, ConnTypes,
      RegTypes, SockTypes, UserTypes, HistoryTypes

\* Connection::sendinLoop, when outputBuffer_ takes the rest.
LEMMA SendBufferedTyped ==
  ASSUME Parts, NEW l \in Loops, NEW c \in Conns, sendBuffered(l, c) PROVE Parts'
<1>1. TodoTypes'
  BY NextCalls, BecomeTyped DEF sendBuffered
<1>2. RegTypes'
  BY EventsTyped DEF sendBuffered, enableWriting, RegTypes
<1> QED BY <1>1, <1>2 DEF sendBuffered, LoopTypes, PendTypes, ServerParts, ConnTypes,
      SockTypes, UserTypes, HistoryTypes

\* Connection::shutdownInLoop.
LEMMA ShutdownInLoopTyped ==
  ASSUME Parts, NEW l \in Loops, NEW c \in Conns, shutdownInLoop(l, c) PROVE Parts'
<1>1. TodoTypes'
  BY NextCalls, BecomeTyped DEF shutdownInLoop
<1> QED BY <1>1 DEF shutdownInLoop, LoopTypes, PendTypes, ServerParts, ConnTypes,
      RegTypes, SockTypes, UserTypes, HistoryTypes

\* The callbacks: the calls of a script, and a pointer given to threads.
LEMMA CallbackTyped ==
  ASSUME Parts, NEW l \in Loops, NEW c \in Conns,
         connectionCallback(l, c) \/ messageCallback(l, c)
  PROVE  Parts'
<1>1. userCode(l, c) /\ \E o : Now(l, o, c)
  BY DEF connectionCallback, messageCallback
<1>2. TodoTypes'
  <2>1. PICK s \in Scripts : become(l, [i \in DOMAIN s |-> Call(s[i], c)])
    BY <1>1 DEF userCode
  <2>2. s \in Seq({"send", "shutdown"})
    BY ServerAssumption
  <2>3. \A o \in {"send", "shutdown"} : Call(o, c) \in Calls
    BY CallTyped DEF Nested
  <2>4. [i \in DOMAIN s |-> Call(s[i], c)] \in Seq(Calls)
    BY <2>2, <2>3
  <2> QED BY <1>1, <2>1, <2>4, BecomeTyped
<1>3. UserTypes'
  BY <1>1 DEF userCode, UserTypes
<1>4. HistoryTypes'
  <2>1. CASE connectionCallback(l, c)
    <3>1. Append(told[c], state[c] = "kConnected") \in Seq(BOOLEAN)
      BY DEF HistoryTypes
    <3> QED BY <2>1, <3>1 DEF connectionCallback, HistoryTypes
  <2>2. CASE messageCallback(l, c)
    BY <2>2 DEF messageCallback, HistoryTypes, SockTypes
  <2> QED BY <2>1, <2>2
<1> QED BY <1>1, <1>2, <1>3, <1>4 DEF userCode, LoopTypes, PendTypes, ServerParts, ConnTypes,
      RegTypes, SockTypes

\* The callback that makes no call.
LEMMA WriteCompleteTyped ==
  ASSUME Parts, NEW l \in Loops, NEW c \in Conns, writeCompleteCallback(l, c) PROVE Parts'
<1>1. TodoTypes'
  BY NextCalls, BecomeTyped DEF writeCompleteCallback
<1> QED BY <1>1 DEF writeCompleteCallback, LoopTypes, PendTypes, ServerParts, ConnTypes,
      RegTypes, SockTypes, UserTypes, HistoryTypes

\* So every call a loop makes keeps the types, and accepts nothing.
LEMMA CallTypes ==
  ASSUME Parts, Counted, NEW l \in Loops, NEW c \in Conns, CallStep(l, c)
  PROVE  Parts' /\ Counted'
<1>1. Parts'
  BY RemoveConnectionTyped, RemoveInLoopTyped, EstablishedTyped, DestroyedTyped, RemoveTyped,
     ReadTyped, WriteAllTyped, WritePartTyped, CloseTyped, ErrorTyped, CallbackTyped,
     WriteCompleteTyped, SendTyped, SendAtOnceTyped, SendBufferedTyped, ShutdownTyped,
     ShutdownInLoopTyped DEF CallStep
<1>2. UNCHANGED <<nextConnId, backlog, active>>
  BY DEF CallStep, removeConnection, removeConnectionInLoop, connectEstablished,
     connectDestroyed, remove, handleRead, handleWriteAll, handleWritePart, handleClose,
     handleError, connectionCallback, messageCallback, userCode, writeCompleteCallback,
     send, sendAtOnce, sendBuffered, shutdown, shutdownInLoop
<1> QED BY <1>1, <1>2 DEF Counted

-----------------------------------------------------------------------------
(* The turns of a loop. *)

\* EventLoop::loop: the connections of this loop that are ready.
LEMMA EpollTypes ==
  ASSUME Parts, Counted, NEW l \in Loops, epoll(l) PROVE Parts' /\ Counted'
<1>1. PICK W \in SUBSET {c \in Registered(l) : isWriting(c)} :
        LET ready == {c \in Registered(l) : Revents(c, W) # {}}
        IN  /\ active' = [active EXCEPT ![l] = ready \cup
                    {a \in {Acceptor} : l = base /\ backlog > 0}]
            /\ revents' = [c \in Conns |->
                    IF c \in ready THEN Revents(c, W) ELSE revents[c]]
  BY DEF epoll
<1>2. \A c \in Conns : Revents(c, W) \in SUBSET {"in", "out", "hup", "err"}
  BY DEF Revents
<1>3. Registered(l) \subseteq Conns
  BY DEF Registered
<1>4. LoopTypes'
  BY <1>1, <1>2, <1>3 DEF epoll, LoopTypes
<1>5. Counted'
  BY <1>1, <1>3 DEF Counted, LoopTypes, epoll, Acceptor, Conns
<1> QED BY <1>4, <1>5 DEF epoll, TodoTypes, PendTypes, ServerParts, ConnTypes,
      RegTypes, SockTypes, UserTypes, HistoryTypes

\* Filed::handleEvent: at most four callbacks.
LEMMA EventTypes ==
  ASSUME Parts, Counted, NEW l \in Loops, NEW c \in Conns, handleEvent(l, c)
  PROVE  Parts' /\ Counted'
<1> DEFINE one(b, o) == IF b THEN <<Call(o, c)>> ELSE <<>>
<1>1. \A b : \A o \in Nested : one(b, o) \in Seq(Calls)
  BY NextCalls
<1> HIDE DEF one
<1>2. \A b1, b2, b3, b4 :
        one(b1, "handleClose") \o one(b2, "handleError") \o one(b3, "handleRead")
           \o one(b4, "handleWrite") \in Seq(Calls)
  BY <1>1 DEF Nested
<1>3. todo' = [todo EXCEPT ![l] =
        one("hup" \in revents[c] /\ "in" \notin revents[c], "handleClose")
        \o one("err" \in revents[c], "handleError") \o one("in" \in revents[c], "handleRead")
        \o one("out" \in revents[c], "handleWrite")]
  BY DEF handleEvent, one
<1>4. TodoTypes'
  BY <1>2, <1>3 DEF TodoTypes
<1>5. LoopTypes' /\ Counted'
  BY DEF handleEvent, LoopTypes, Counted
<1> QED BY <1>4, <1>5 DEF handleEvent, PendTypes, ServerParts, ConnTypes,
      RegTypes, SockTypes, UserTypes, HistoryTypes

\* EventLoop::doPendFunc takes what is queued, and ends.
LEMMA SwapTypes ==
  ASSUME Parts, Counted, NEW l \in Loops, swapPendFuncs(l) \/ doPendFuncDone(l)
  PROVE  Parts' /\ Counted'
<1>1. PendTypes'
  <2>1. <<>> \in Seq(Functors)
    OBVIOUS
  <2> QED BY <2>1 DEF swapPendFuncs, doPendFuncDone, PendTypes
<1>2. LoopTypes'
  BY DEF swapPendFuncs, doPendFuncDone, PendTypes, LoopTypes
<1> QED BY <1>1, <1>2 DEF swapPendFuncs, doPendFuncDone, TodoTypes, ServerParts, ConnTypes,
      RegTypes, SockTypes, UserTypes, HistoryTypes, Counted

\* EventLoop::doPendFunc runs a functor.
LEMMA RunTypes ==
  ASSUME Parts, Counted, NEW l \in Loops, runFunctor(l) PROVE Parts' /\ Counted'
<1>1. /\ Head(batch[l]) \in Functors
      /\ Tail(batch[l]) \in Seq(Functors)
  BY DEF runFunctor, LoopTypes
<1>2. Head(batch[l]) \in Calls /\ Head(batch[l]).conn \in Conns
  BY <1>1 DEF Functors, Calls
<1>3. TodoTypes'
  BY <1>2 DEF runFunctor, TodoTypes
<1>4. LoopTypes'
  BY <1>1, <1>2 DEF runFunctor, LoopTypes
<1> QED BY <1>3, <1>4 DEF runFunctor, PendTypes, ServerParts, ConnTypes,
      RegTypes, SockTypes, UserTypes, HistoryTypes, Counted

-----------------------------------------------------------------------------
(* The Acceptor, and the end. *)

\* Acceptor::handleRead with Server::newConnection: the next number is one of Conns.
LEMMA AcceptTypes ==
  ASSUME Parts, Counted, acceptFails \/ newConnection PROVE Parts' /\ Counted'
<1> USE DEF Acceptor
<1>0. base \in Loops
  BY DEF Loops
<1>1. LoopTypes' /\ active' = [active EXCEPT ![base] = @ \ {0}]
  <2>1. accepting
    BY DEF acceptFails, newConnection
  <2> QED BY <1>0, <2>1 DEF accepting, LoopTypes
<1>2. CASE acceptFails
  <2>1. /\ backlog > 0 /\ nextConnId + backlog <= MaxConns + 1
        /\ backlog' = backlog \/ backlog' = backlog - 1
        /\ nextConnId' = nextConnId
    BY <1>2 DEF acceptFails, accepting, Counted
  <2>2. backlog \in 0 .. MaxConns /\ nextConnId \in 1 .. MaxConns + 1 /\ MaxConns \in Nat
    BY ServerAssumption DEF ServerParts
  <2>3. backlog' \in 0 .. MaxConns /\ nextConnId' + backlog' <= MaxConns + 1
    BY <2>1, <2>2
  <2>4. Acceptor \notin active'[base]
    BY <1>0, <1>1 DEF LoopTypes
  <2> QED BY <1>1, <1>2, <2>3, <2>4 DEF acceptFails, accepting, TodoTypes, PendTypes, ServerParts,
        ConnTypes, RegTypes, SockTypes, UserTypes, HistoryTypes, Counted
<1>3. CASE newConnection
  <2>1. backlog > 0 /\ nextConnId + backlog <= MaxConns + 1
    BY <1>3 DEF newConnection, accepting, Counted
  <2>2. nextConnId \in Conns /\ backlog' \in 0 .. MaxConns /\ nextConnId' \in 1 .. MaxConns + 1
    BY <1>3, <2>1, ServerAssumption DEF newConnection, ServerParts, Conns
  <2> DEFINE m == IF loops = <<>> THEN base ELSE loops[nextLoop + 1]
  <2>3. m \in Loops
    BY <1>0 DEF ServerParts
  <2>4. nextLoop' = 0 \/ nextLoop' \in 0 .. Len(loops) - 1
    BY <1>3 DEF newConnection, getNextLoop, ServerParts
  <2>5. ServerParts'
    BY <1>3, <2>2, <2>4 DEF newConnection, accepting, ServerParts
  <2>6. /\ \E fd \in FreeFds : fdOf' = [fdOf EXCEPT ![nextConnId] = fd]
        /\ loopOf' = [loopOf EXCEPT ![nextConnId] = m]
        /\ IF m = base
           THEN /\ todo' = [todo EXCEPT ![base] = <<Call("connectEstablished", nextConnId)>>]
                /\ UNCHANGED pend
           ELSE queueinLoop(m, Call("connectEstablished", nextConnId)) /\ UNCHANGED todo
    BY <1>3 DEF newConnection
  <2> HIDE DEF m
  <2>7. ConnTypes'
    BY <1>3, <2>2, <2>3, <2>6 DEF newConnection, accepting, ConnTypes, FreeFds
  <2>8. TodoTypes'
    <3>1. <<Call("connectEstablished", nextConnId)>> \in Seq(Calls)
      BY <2>2, NextCalls DEF Deferred
    <3> QED BY <1>0, <2>6, <3>1 DEF TodoTypes
  <2>9. PendTypes'
    BY <2>2, <2>3, <2>6, QueueTyped DEF PendTypes, Deferred
  <2>10. Counted'
    BY <1>0, <1>1, <1>3, <2>1, <2>2 DEF newConnection, Counted, ServerParts, LoopTypes
  <2> QED BY <1>1, <1>3, <2>5, <2>7, <2>8, <2>9, <2>10 DEF newConnection, accepting,
        RegTypes, SockTypes, UserTypes, HistoryTypes
<1> QED BY <1>2, <1>3

\* A loop returns, or the main thread waits for one.
LEMMA EnterTypes ==
  ASSUME Parts, Counted, NEW l \in Loops, NEW p \in {"exited", "joining"}, enter(l, p)
  PROVE  Parts' /\ Counted'
BY DEF enter, LoopTypes, TodoTypes, PendTypes, ServerParts, ConnTypes,
      RegTypes, SockTypes, UserTypes, HistoryTypes, Counted

\* ~Server.
LEMMA DestroyServerTypes ==
  ASSUME Parts, Counted, NEW c \in Conns, destroyServer(c) PROVE Parts' /\ Counted'
<1>1. base \in Loops
  BY DEF Loops
<1>2. TodoTypes'
  BY <1>1, NextCalls DEF destroyServer, TodoTypes, Deferred
<1>3. PendTypes'
  BY QueueTyped DEF destroyServer, PendTypes, ConnTypes, Deferred
<1> QED BY <1>2, <1>3 DEF destroyServer, LoopTypes, ServerParts, ConnTypes,
      RegTypes, SockTypes, UserTypes, HistoryTypes, Counted

\* ~EventLoop.
LEMMA DestroyLoopTypes ==
  ASSUME Parts, Counted, NEW l \in Loops, destroyLoop(l) PROVE Parts' /\ Counted'
<1>1. PendTypes'
  BY DEF destroyLoop, dropped, PendTypes
<1>2. LoopTypes'
  BY DEF destroyLoop, LoopTypes
<1>3. RegTypes'
  BY DEF destroyLoop, RegTypes
<1> QED BY <1>1, <1>2, <1>3 DEF destroyLoop, TodoTypes, ServerParts, ConnTypes,
      SockTypes, UserTypes, HistoryTypes, Counted

-----------------------------------------------------------------------------
(* The peers and the threads of the user. *)

\* What peers do.
LEMMA PeerTypes ==
  ASSUME Parts, Counted, PeerConnects \/ \E c \in Conns : PeerStep(c)
  PROVE  Parts' /\ Counted'
<1>1. CASE PeerConnects
  <2>1. ServerParts' /\ Counted'
    BY <1>1, ServerAssumption DEF PeerConnects, ServerParts, Counted
  <2> QED BY <1>1, <2>1 DEF PeerConnects, LoopTypes, TodoTypes, PendTypes, ConnTypes,
      RegTypes, SockTypes, UserTypes, HistoryTypes
<1>2. ASSUME NEW c \in Conns, PeerStep(c) PROVE Parts' /\ Counted'
  <2>1. SockTypes'
    <3>1. CASE PeerSends(c)
      <4>1. sent[c] + 1 \in 0 .. Messages
        BY <3>1, ServerAssumption DEF PeerSends, SockTypes
      <4> QED BY <1>2, <3>1, <4>1 DEF PeerStep, PeerSends, SockTypes
    <3>2. CASE PeerCloses(c) \/ PeerResets(c)
      BY <1>2, <3>2 DEF PeerStep, PeerCloses, PeerResets, SockTypes
    <3> QED BY <1>2, <3>1, <3>2 DEF PeerStep
  <2> QED BY <1>2, <2>1 DEF PeerStep, LoopTypes, TodoTypes, PendTypes, ServerParts, ConnTypes,
      RegTypes, UserTypes, HistoryTypes, Counted
<1> QED BY <1>1, <1>2

\* What threads of the user do.
LEMMA UserTyped ==
  ASSUME Parts, Counted, NEW p \in Users, NEW c \in Conns,
         \/ userDrops(p, c) \/ userSetDisconnecting(p, c) \/ userQueues(p, c)
         \/ \E op \in UserOps : userCalls(p, c, op)
  PROVE  Parts' /\ Counted'
<1>1. UserTypes'
  <2>1. \A o \in Raw \cup {"setDisconnecting"} :
           Call(o, c) \in [op : Raw \cup {"setDisconnecting"}, conn : Conns]
    BY DEF Call
  <2>2. CASE userDrops(p, c)
    BY <2>2 DEF userDrops, UserTypes
  <2>3. CASE userSetDisconnecting(p, c)
    BY <2>1, <2>3 DEF userSetDisconnecting, UserTypes, Raw
  <2>4. CASE userQueues(p, c)
    BY <2>4 DEF userQueues, UserTypes
  <2>5. CASE \E op \in UserOps : userCalls(p, c, op)
    BY <2>1, <2>5 DEF userCalls, UserTypes, Raw
  <2> QED BY <2>2, <2>3, <2>4, <2>5
<1>2. PendTypes'
  <2>1. CASE userQueues(p, c)
    BY <2>1, QueueTyped DEF userQueues, ConnTypes, Raw, Deferred
  <2>2. CASE UNCHANGED pend
    BY <2>2 DEF PendTypes
  <2> QED BY <2>1, <2>2 DEF userDrops, userSetDisconnecting, userCalls
<1>3. ConnTypes'
  BY DEF userDrops, userSetDisconnecting, userQueues, userCalls, ConnTypes, States
<1> QED BY <1>1, <1>2, <1>3 DEF userDrops, userSetDisconnecting, userQueues, userCalls,
      LoopTypes, TodoTypes, ServerParts, RegTypes, SockTypes, HistoryTypes, Counted

-----------------------------------------------------------------------------
\* Every step keeps the types.
LEMMA TypesStep == Typed /\ [Next]_vars => Typed'
<1> SUFFICES ASSUME Parts, Counted, [Next]_vars PROVE Parts' /\ Counted'
  BY DEF Typed, TypeOK, LoopTypes, TodoTypes, PendTypes, ServerParts, ConnTypes, RegTypes,
     SockTypes, UserTypes, HistoryTypes
<1>1. CASE UNCHANGED vars
  BY <1>1 DEF vars, LoopTypes, TodoTypes, PendTypes, ServerParts, ConnTypes,
      RegTypes, SockTypes, UserTypes, HistoryTypes, Counted
<1>2. ASSUME NEW l \in Loops, LoopStep(l) PROVE Parts' /\ Counted'
  <2>1. \/ epoll(l) \/ swapPendFuncs(l) \/ runFunctor(l) \/ doPendFuncDone(l)
        \/ acceptFails \/ newConnection \/ quitLoop \/ leaveLoop(l) \/ destroyLoop(l)
        \/ \E c \in Conns : handleEvent(l, c) \/ destroyServer(c) \/ CallStep(l, c)
    BY <1>2 DEF LoopStep, CallStep
  <2> QED BY <2>1, EpollTypes, SwapTypes, RunTypes, AcceptTypes, EnterTypes, DestroyLoopTypes,
        EventTypes, DestroyServerTypes, CallTypes DEF quitLoop, leaveLoop, Loops
<1>3. CASE quitBase
  BY <1>3, EnterTypes DEF quitBase, Loops
<1>4. ASSUME NEW p \in Users, NEW c \in Conns,
             \/ userDrops(p, c) \/ userSetDisconnecting(p, c) \/ userQueues(p, c)
             \/ \E op \in UserOps : userCalls(p, c, op)
      PROVE  Parts' /\ Counted'
  BY <1>4, UserTyped
<1> QED BY <1>1, <1>2, <1>3, <1>4, PeerTypes DEF Next, UserGoesOn

\* Whatever the peers, the loops and the threads of the user do, for every number
\* of them: every queue holds functors of connections accepted, state_, events_,
\* index_ and revents_ keep their ranges, every connection has a loop, and
\* nextLoop_ stays within the pool (ManagerPool::getNextLoop).
THEOREM ServerTypesHold == Spec => []TypeOK
<1>1. Typed => TypeOK
  BY DEF Typed
<1> QED BY <1>1, TypesInit, TypesStep, PTL DEF Spec

HIDE DEF turnVars, loopVars, serverVars, connVars, regVars, sockVars, userVars, history,
         outside, Parts


-----------------------------------------------------------------------------
(* The invariant. *)

\* What the loop l is in the middle of, all of it and without the innermost call.
Todo(l) == ToSet(todo[l])
Rest(l) == ToSet(Tail(todo[l]))

\* What waits: in pendFuncs_, and in the vector doPendFunc works off.
Pend(l) == ToSet(pend[l])
Batch(l) == ToSet(batch[l])
Waiting(l) == Pend(l) \cup Batch(l)

\* The two uses of a connection by the threads of the user that the theorems are
\* about: they never send(), or they only send() and the program does not stop.
Shuts == "send" \notin UserOps
Sends == "shutdown" \notin UserOps /\ ~MayStop

\* The functors the life of a connection turns on.
CD(c) == Call("connectDestroyed", c)
CE(c) == Call("connectEstablished", c)
Removal(c) == Call("removeConnectionInLoop", c)

\* The loop is in loop().
Runs(l) == phase[l] \in {"poll", "events", "functors"}

\* Where a loop is tells what it can hold: doPendFunc's vector only in functors,
\* activeFileds_ only in events; loop() returns between two turns, and an io loop
\* only while ~Server waits for it.
TurnsAt(l) ==
    /\ phase[l] \in {"poll", "joining", "destroyed"} => todo[l] = <<>>
    /\ phase[l] \in {"exited", "joining"} /\ l # base => todo[l] = <<>> /\ phase[l] # "joining"
    /\ phase[l] # "functors" => batch[l] = <<>> /\ kept[l] = {}
    /\ phase[l] # "events" => active[l] = {}
    /\ ~MayStop => Runs(l)
    /\ phase[l] = "exited" /\ l # base =>
          l \in ToSet(loops) /\ phase[base] \in {"exited", "joining"}
Turns == \A l \in Loops : TurnsAt(l)

\* Where a functor or a call belongs: Server::removeConnection goes to the base
\* loop, everything else to the loop of the connection (ioLoop_).
Place(f) == IF f.op = "removeConnectionInLoop" THEN base ELSE loopOf[f.conn]

\* Nothing is queued for a connection that was not accepted yet, and all that is
\* queued waits on its own loop.
Known ==
    /\ \A l \in Loops : \A f \in Todo(l) \cup Waiting(l) : Born(f.conn) /\ Place(f) = l
    /\ \A l \in Loops : \A c \in active[l] \ {Acceptor} : Born(c) /\ loopOf[c] = l
    /\ \A c \in connections : Born(c)
    /\ \A p \in Users : \A c \in held[p] : Born(c)
    /\ \A c \in Conns : ~Born(c) => index[c] = "kNew" /\ state[c] = "kConnecting"

\* A thread in the middle of a call keeps its pointer, and makes only the calls
\* it may make.
Asked ==
    \A p \in Users : doing[p] # Idle =>
          /\ doing[p].conn \in held[p]
          /\ doing[p].op = "sendinLoop" => "send" \in UserOps
          /\ doing[p].op # "sendinLoop" => "shutdown" \in UserOps

\* What a connection gets once in its life.
Once == {"connectEstablished", "connectDestroyed"}

\* connectEstablished is the first of all that is queued for a connection.
First(q) == \A i, j \in DOMAIN q :
    i < j /\ q[j].op = "connectEstablished" => q[i].conn # q[j].conn

\* connectEstablished comes before everything else of its connection, in pendFuncs_,
\* in doPendFunc's vector and on the stack, and never waits on the base loop, which
\* runs it at once; connectEstablished and connectDestroyed run at the bottom of the
\* stack, the latter only from doPendFunc or from ~Server.
OrderAt(l) ==
    /\ First(pend[l]) /\ First(batch[l])
    /\ \A f \in Waiting(l) : f.op = "connectEstablished" => l # base
    /\ \A f \in Batch(l), g \in Pend(l) : g.op = "connectEstablished" => f.conn # g.conn
    /\ \A f \in Todo(l), g \in Waiting(l) : g.op = "connectEstablished" => f.conn # g.conn
    /\ \A f \in Todo(l) : f.op \in Once => Rest(l) = {}
    /\ \A f \in Todo(l) : f.op = "connectDestroyed" => phase[l] \in {"functors", "exited"}
Order == \A l \in Loops : OrderAt(l)

\* Somebody owns the connection for as long as its loop may meet it in fileds_: the
\* map of the Server (connections_), or the connectDestroyed that has been queued.
Kept(c) ==
    \/ c \in connections
    \/ CD(c) \in Waiting(loopOf[c]) \cup Todo(loopOf[c])

\* The connection is still to be announced.
Awaited(c) == CE(c) \in Waiting(loopOf[c]) \cup Todo(loopOf[c])

\* Before connectEstablished nobody but the map knows the connection: it is not
\* registered, no callback has passed it on, nobody removes it.
Fresh == \A c \in Conns : Awaited(c) =>
    /\ state[c] = "kConnecting"
    /\ index[c] = "kNew"
    /\ c \notin active[loopOf[c]]
    /\ \A p \in Users : c \notin held[p]
    /\ Removal(c) \notin Waiting(base) \cup Todo(base)
    /\ Kept(c)

\* What handleEvent calls.
Touching == {"handleRead", "handleWrite", "handleClose", "handleError"}

\* Everything that reads or writes the connection runs while somebody keeps it; a
\* sendinLoop of a user thread may come later, but then it gives up writing.
InUse == \A l \in Loops :
    /\ \A f \in Todo(l) : f.op \in Touching => Kept(f.conn)
    /\ \A f \in Todo(l) : f.op = "sendinLoop" =>
          Kept(f.conn) \/ (Sends /\ state[f.conn] = "kDisconnected")
    /\ \A c \in active[l] \ {Acceptor} : Kept(c)

\* What is registered, or connected, is kept: only `remove`, the last statement of
\* connectDestroyed, runs without that, and it ends the registration.
Registry == \A c \in Conns :
    phase[loopOf[c]] # "destroyed" =>
       /\ index[c] # "kNew" => Kept(c) \/ Call("remove", c) \in Todo(loopOf[c])
       /\ state[c] = "kConnected" => Kept(c)

\* Where the user only sends, a connection leaves the map after handleClose has set
\* kDisconnected: the reason why a late sendinLoop gives up.
Closing == Sends =>
    /\ \A c \in Conns : Born(c) /\ c \notin connections => state[c] = "kDisconnected"
    /\ \A l \in Loops : \A f \in Todo(l) \cup Waiting(l) :
          f.op \in {"closeCallback", "removeConnectionInLoop"} => state[f.conn] = "kDisconnected"

\* A thread of the user keeps a pointer to the connection.
IsHeld(c) == \E p \in Users : c \in held[p]

\* What a loop runs from its vector is owned by the vector, or is a raw call of a
\* user thread that still keeps its pointer.
OwnedAt(l) ==
    /\ phase[l] = "functors" => \A f \in Todo(l) :
          f.conn \in kept[l] \/ (f.op \in Raw /\ IsHeld(f.conn))
    /\ Runs(l) => \A f \in Waiting(l) : f.op \in Raw => IsHeld(f.conn)
    /\ \A f \in Waiting(l) : f.op = "sendinLoop" => "send" \in UserOps
Owned == \A l \in Loops : OwnedAt(l)

\* fileds_ and index_ agree: an entry leads to a registered connection of this loop
\* and of this descriptor, and a registered connection is found under its own.
Entries ==
    /\ \A l \in Loops, fd \in Fds : fileds[l][fd] # 0 =>
          LET c == fileds[l][fd]
          IN  /\ Born(c) /\ loopOf[c] = l /\ fdOf[c] = fd /\ index[c] # "kNew"
              /\ phase[l] # "destroyed"
    /\ \A c \in Conns : index[c] # "kNew" /\ phase[loopOf[c]] # "destroyed" =>
          fileds[loopOf[c]][fdOf[c]] = c
    /\ \A c \in Conns : Born(c) => fdOf[c] \in Fds

\* A descriptor belongs to one connection at a time.
Apart == \A c, d \in Conns : Alive(c) /\ Alive(d) /\ fdOf[c] = fdOf[d] => c = d

\* The inductive invariant.  CallsAlive alone is not one: who keeps a connection
\* alive changes with every call, and each part above says who, at one point of the
\* life of the connection.
IInv == /\ Turns /\ Known /\ Asked /\ Order /\ Fresh /\ InUse /\ Registry /\ Closing
        /\ Owned /\ Entries /\ Apart

-----------------------------------------------------------------------------
(* Sequences and the sets of their elements. *)

\* The elements of a sequence of one, and of none.
LEMMA SetOfOne == \A x : ToSet(<<x>>) = {x} /\ ToSet(<<>>) = {}
BY DEF ToSet

\* queueinLoop adds one functor.
LEMMA SetOfAppend ==
  ASSUME NEW S, NEW s \in Seq(S), NEW x PROVE ToSet(Append(s, x)) = ToSet(s) \cup {x}
<1>1. DOMAIN Append(s, x) = DOMAIN s \cup {Len(s) + 1}
  OBVIOUS
<1> QED BY <1>1 DEF ToSet

\* Running the innermost call takes one away.
LEMMA SetOfTail ==
  ASSUME NEW S, NEW s \in Seq(S), s # <<>>
  PROVE  ToSet(s) = {Head(s)} \cup ToSet(Tail(s)) /\ Head(s) \in S
<1>1. DOMAIN s = 1 .. Len(s) /\ Len(s) >= 1 /\ DOMAIN Tail(s) = 1 .. Len(s) - 1
  OBVIOUS
<1>2. \A i \in DOMAIN Tail(s) : Tail(s)[i] = s[i + 1]
  BY <1>1
<1>3. Head(s) = s[1]
  OBVIOUS
<1>4. \A i \in DOMAIN s : i = 1 \/ i - 1 \in DOMAIN Tail(s)
  BY <1>1
<1>5. ToSet(s) \subseteq {Head(s)} \cup ToSet(Tail(s))
  BY <1>1, <1>2, <1>3, <1>4 DEF ToSet
<1>6. {Head(s)} \cup ToSet(Tail(s)) \subseteq ToSet(s)
  BY <1>1, <1>2, <1>3 DEF ToSet
<1> QED BY <1>1, <1>3, <1>5, <1>6

\* become puts calls in front.
LEMMA SetOfConcat ==
  ASSUME NEW S, NEW s \in Seq(S), NEW t \in Seq(S)
  PROVE  ToSet(s \o t) = ToSet(s) \cup ToSet(t)
<1>1. /\ DOMAIN (s \o t) = 1 .. Len(s) + Len(t)
      /\ \A i \in 1 .. Len(s) : (s \o t)[i] = s[i]
      /\ \A i \in 1 .. Len(t) : (s \o t)[Len(s) + i] = t[i]
      /\ DOMAIN s = 1 .. Len(s) /\ DOMAIN t = 1 .. Len(t) /\ Len(s) \in Nat /\ Len(t) \in Nat
  OBVIOUS
<1>2. \A i \in 1 .. Len(s) + Len(t) :
         i \in 1 .. Len(s) \/ (i - Len(s) \in 1 .. Len(t) /\ i = Len(s) + (i - Len(s)))
  BY <1>1
<1>3. ToSet(s \o t) \subseteq ToSet(s) \cup ToSet(t)
  BY <1>1, <1>2 DEF ToSet
<1>4. \A i \in 1 .. Len(s) : i \in DOMAIN (s \o t)
  BY <1>1
<1>5. \A i \in 1 .. Len(t) : Len(s) + i \in DOMAIN (s \o t)
  BY <1>1
<1>6. ToSet(s) \cup ToSet(t) \subseteq ToSet(s \o t)
  BY <1>1, <1>4, <1>5 DEF ToSet
<1> QED BY <1>3, <1>6

\* Calls are told apart by what is called and on which connection.
LEMMA CallEq == \A o, q, c, d : /\ Call(o, c) = Call(q, d) <=> (o = q /\ c = d)
                                /\ Call(o, c).op = o /\ Call(o, c).conn = c
BY DEF Call

-----------------------------------------------------------------------------
(* What the invariant says of the connections at large. *)

\* What is on the stack are calls, what waits are functors.
LEMMA Typing ==
  ASSUME Parts, NEW l \in Loops
  PROVE  Todo(l) \subseteq Calls /\ Waiting(l) \subseteq Functors
<1>1. \A T, s : s \in Seq(T) => ToSet(s) \subseteq T
  BY DEF ToSet
<1> QED BY <1>1 DEF Parts, TodoTypes, PendTypes, LoopTypes, Todo, Waiting, Pend, Batch

\* A connection that is kept is alive: the map owns it, or the connectDestroyed that
\* waits, or, while connectDestroyed runs, the vector or the local pointer of ~Server.
LEMMA KeptAlive ==
  ASSUME Turns, Order, Owned, NEW c \in Conns, loopOf[c] \in Loops, Born(c), Kept(c)
  PROVE  Alive(c)
<1>1. CASE c \in connections
  BY <1>1 DEF Alive
<1>2. CASE CD(c) \in Waiting(loopOf[c])
  BY <1>2, CallEq DEF Alive, Waiting, Pend, Batch, CD, Owning
<1>3. CASE CD(c) \in Todo(loopOf[c])
  <2>1. CASE phase[loopOf[c]] = "exited"
    BY <1>3, <2>1, CallEq DEF Alive, Todo, CD
  <2>2. CASE phase[loopOf[c]] = "functors"
    <3>1. c \in kept[loopOf[c]]
      BY <1>3, <2>2, CallEq DEF Owned, OwnedAt, CD, Raw
    <3> QED BY <3>1 DEF Alive
  <2> QED BY <1>3, <2>1, <2>2, CallEq DEF Order, OrderAt, CD
<1> QED BY <1>1, <1>2, <1>3 DEF Kept

\* The invariant implies CallsAlive: what handleEvent runs, its guard owns; what
\* doPendFunc runs is owned by the vector or by the user thread that queued it.
LEMMA Safe ==
  ASSUME Parts, Turns, Known, Order, InUse, Owned PROVE CallsAlive
<1>1. ASSUME NEW l \in Loops, NEW f \in Todo(l) PROVE Alive(f.conn)
  <2>1. Born(f.conn) /\ todo[l] # <<>> /\ f \in ToSet(todo[l])
    BY <1>1, SetOfOne DEF Known, Todo
  <2>2. CASE phase[l] \in {"events", "exited"}
    BY <2>1, <2>2 DEF Alive
  <2>3. CASE phase[l] = "functors"
    <3>1. CASE f.conn \in kept[l]
      BY <2>1, <3>1 DEF Alive
    <3>2. CASE IsHeld(f.conn)
      BY <2>1, <3>2 DEF Alive, IsHeld
    <3> QED BY <2>3, <3>1, <3>2 DEF Owned, OwnedAt
  <2>4. phase[l] \in {"poll", "events", "functors", "exited", "joining", "destroyed"}
    BY DEF Parts, LoopTypes
  <2> QED BY <2>1, <2>2, <2>3, <2>4 DEF Turns, TurnsAt
<1>2. ASSUME NEW l \in Loops, NEW c \in active[l] \ {Acceptor} PROVE Alive(c)
  <2>1. c \in Conns
    BY <1>2 DEF Parts, LoopTypes
  <2>2. loopOf[c] \in Loops /\ Born(c) /\ Kept(c)
    BY <1>2, <2>1 DEF Parts, ConnTypes, Known, InUse
  <2> QED BY <2>1, <2>2, KeptAlive
<1> QED BY <1>1, <1>2 DEF CallsAlive, Todo

\* What Epoller has registered is alive.
LEMMA IndexedAlive ==
  ASSUME Parts, Turns, Known, Order, Owned, InUse, Registry, NEW c \in Conns, index[c] # "kNew",
         phase[loopOf[c]] # "destroyed"
  PROVE  Alive(c)
<1>1. loopOf[c] \in Loops /\ Born(c)
  BY DEF Parts, ConnTypes, Known
<1>2. CASE Kept(c)
  BY <1>1, <1>2, KeptAlive
<1>3. CASE Call("remove", c) \in Todo(loopOf[c])
  BY <1>1, <1>3, Safe, CallEq DEF CallsAlive, Todo
<1> QED BY <1>2, <1>3 DEF Registry

-----------------------------------------------------------------------------
(* The calls. *)

\* What the calls of a connection have in common: the innermost call o of l on c
\* returns, having made the calls S and queued the functors Q.
Calling(l, o, c, S, Q) ==
    /\ Todo(l) = {Call(o, c)} \cup Rest(l)
    /\ \A m \in Loops : Todo(m)' = IF m = l THEN S \cup Rest(l) ELSE Todo(m)
    /\ \A m \in Loops : Pend(m)' = Pend(m) \cup {f \in Q : Place(f) = m}
    /\ \A m \in Loops : First(pend[m]) => First(pend'[m])
    /\ todo[l] # <<>> /\ \A m \in Loops : m # l => todo'[m] = todo[m]
    /\ UNCHANGED <<phase, active, batch, kept, nextConnId, loops, loopOf, fdOf, doing>>
    /\ \A p \in Users : held[p] \subseteq held'[p] /\ held'[p] \subseteq held[p] \cup {c}
    /\ \/ connections' = connections
       \/ connections' = connections \ {c} /\ CD(c) \in Q /\ o = "removeConnectionInLoop"
    /\ \A f \in S : /\ f.conn = c
                    /\ f.op \notin Once
                    /\ f.op = "removeConnectionInLoop" => l = base
    /\ \A f \in Q : /\ f.conn = c
                    /\ f.op \in {"connectDestroyed", "removeConnectionInLoop",
                                 "writeCompleteCallback"}
    /\ o \in Raw \cup {"removeConnectionInLoop"} => S = {}

\* ... and what such a call may do to state_, index_ and fileds_.
Changing(l, o, c, S, Q) ==
    /\ \A d \in Conns \ {c} : index'[d] = index[d] /\ state'[d] = state[d]
    /\ index'[c] # "kNew" =>
          \/ Call("remove", c) \in S
          \/ o \notin {"connectDestroyed", "remove"} /\ (Kept(c) \/ index[c] # "kNew")
    /\ state'[c] = "kConnected" =>
          o # "connectDestroyed" /\ (Kept(c) \/ state[c] = "kConnected")
    /\ state[c] = "kDisconnected" => state'[c] = "kDisconnected"
    /\ \A f \in S : f.op \in Touching \cup {"sendinLoop"} => Kept(c) /\ o # "connectDestroyed"
    /\ \A f \in S \cup Q : f.op \in {"closeCallback", "removeConnectionInLoop"} =>
          (Sends => state'[c] = "kDisconnected")
    /\ \/ /\ fileds' = [fileds EXCEPT ![l][fdOf[c]] = c]
          /\ index'[c] # "kNew" /\ loopOf[c] = l
       \/ /\ fileds' = [fileds EXCEPT ![l][fdOf[c]] = 0]
          /\ index'[c] = "kNew" /\ loopOf[c] = l
       \/ fileds' = fileds /\ (index'[c] = "kNew" <=> index[c] = "kNew")

\* What is known while the call runs.
InCall(l, o, c) ==
    /\ Call(o, c) \in Todo(l)
    /\ Born(c) /\ Alive(c) /\ loopOf[c] \in Loops
    /\ o # "removeConnectionInLoop" => loopOf[c] = l
    /\ phase[l] \in {"events", "functors", "exited"}
    /\ o = "connectDestroyed" => Rest(l) = {} /\ phase[l] \in {"functors", "exited"}
    /\ o # "connectEstablished" => ~Awaited(c)

\* A running call is on a connection that is alive, and not one still awaited.
LEMMA Called ==
  ASSUME Parts, IInv, NEW l \in Loops, NEW o, NEW c \in Conns, NEW S, NEW Q,
         Calling(l, o, c, S, Q)
  PROVE  InCall(l, o, c)
<1>1. Call(o, c) \in Todo(l)
  BY DEF Calling
<1>2. Born(c) /\ Place(Call(o, c)) = l
  BY <1>1, CallEq DEF IInv, Known
<1>3. loopOf[c] \in Loops
  BY DEF Parts, ConnTypes
<1>4. o # "removeConnectionInLoop" => loopOf[c] = l
  BY <1>2, CallEq DEF Place
<1>5. Alive(c)
  BY <1>1, Safe, CallEq DEF IInv, CallsAlive, Todo
<1>6. phase[l] \in {"events", "functors", "exited"}
  BY DEF Calling, Parts, LoopTypes, IInv, Turns, TurnsAt
<1>7. o = "connectDestroyed" => Rest(l) = {} /\ phase[l] \in {"functors", "exited"}
  BY <1>1, CallEq DEF IInv, Order, OrderAt, Once
<1>8. ASSUME o # "connectEstablished", Awaited(c) PROVE FALSE
  <2>1. o = "removeConnectionInLoop" => l = base
    BY <1>2, CallEq DEF Place
  <2>2. o # "removeConnectionInLoop"
    BY <1>1, <1>8, <2>1 DEF IInv, Fresh, Removal
  <2>3. CE(c) \notin Waiting(l)
    BY <1>1, CallEq DEF IInv, Order, OrderAt, CE
  <2>4. CE(c) \in Rest(l)
    BY <1>4, <1>8, <2>2, <2>3, CallEq DEF Awaited, Calling, CE
  <2>5. CE(c) \in Todo(l)
    BY <2>4 DEF Calling
  <2> QED BY <2>4, <2>5, CallEq DEF IInv, Order, OrderAt, Once, CE
<1> QED BY <1>1, <1>2, <1>3, <1>4, <1>5, <1>6, <1>7, <1>8 DEF InCall

\* A call takes the connection out of the map only with connectDestroyed queued.
LEMMA KeptCarried ==
  ASSUME Parts, IInv, NEW l \in Loops, NEW o, NEW c \in Conns, NEW S, NEW Q,
         Calling(l, o, c, S, Q), NEW d \in Conns, Kept(d),
         d # c \/ o # "connectDestroyed"
  PROVE  Kept(d)'
<1>1. loopOf[d] \in Loops /\ loopOf' = loopOf /\ batch' = batch
  BY DEF Parts, ConnTypes, Calling
<1>2. CASE CD(d) \in Waiting(loopOf[d])
  BY <1>1, <1>2 DEF Kept, Waiting, Batch, Calling, CD
<1>3. CASE CD(d) \in Todo(loopOf[d])
  <2>1. CD(d) # Call(o, c)
    BY CallEq DEF CD
  <2>2. CD(d) \in Todo(loopOf[d])'
    BY <1>1, <1>3, <2>1 DEF Calling, CD
  <2> QED BY <1>1, <2>2 DEF Kept, CD
<1>4. CASE d \in connections
  <2>1. CASE d \in connections'
    BY <2>1 DEF Kept
  <2>2. CASE d = c /\ CD(c) \in Q
    <3>1. Place(CD(c)) = loopOf[c]
      BY CallEq DEF Place, CD
    <3>2. CD(d) \in Pend(loopOf[d])'
      BY <1>1, <2>2, <3>1 DEF Calling
    <3> QED BY <1>1, <3>2 DEF Kept, Waiting, CD
  <2> QED BY <1>4, <2>1, <2>2 DEF Calling
<1> QED BY <1>2, <1>3, <1>4 DEF Kept

\* A call leaves the turns of the loops alone.
LEMMA CallTurns ==
  ASSUME Parts, IInv, NEW l \in Loops, NEW o, NEW c \in Conns, NEW S, NEW Q,
         Calling(l, o, c, S, Q)
  PROVE  Turns'
<1>c. InCall(l, o, c)
  BY Called
<1>1. \A m \in Loops : m # l => todo'[m] = todo[m]
  BY DEF Calling
<1>2. phase[l] \in {"events", "functors", "exited"} /\ todo[l] # <<>>
  BY <1>c DEF InCall, Calling
<1>3. phase[l] = "exited" => l = base
  BY <1>2 DEF IInv, Turns, TurnsAt
<1> QED BY <1>1, <1>2, <1>3 DEF IInv, Turns, TurnsAt, Calling, Runs

\* What a call makes or queues belongs to its own connection, and waits where it
\* belongs; a callback may pass the pointer on.
LEMMA CallKnown ==
  ASSUME Parts, IInv, NEW l \in Loops, NEW o, NEW c \in Conns, NEW S, NEW Q,
         Calling(l, o, c, S, Q), Changing(l, o, c, S, Q)
  PROVE  Known' /\ Asked'
<1>c. InCall(l, o, c)
  BY Called
<1>0. \A d : Born(d)' <=> Born(d)
  BY DEF Born, Calling
<1>1. \A f : Place(f)' = Place(f)
  BY DEF Place, Calling
<1>2. ASSUME NEW m \in Loops, NEW f \in Todo(m)' PROVE Born(f.conn) /\ Place(f) = m
  <2>1. CASE f \in S /\ m = l
    <3>1. Place(f) = l
      BY <2>1, <1>c DEF InCall, Calling, Place
    <3> QED BY <2>1, <3>1, <1>c DEF InCall, Calling
  <2>2. CASE f \in Todo(m)
    BY <2>2 DEF IInv, Known
  <2> QED BY <1>2, <2>1, <2>2 DEF Calling
<1>3. ASSUME NEW m \in Loops, NEW f \in Waiting(m)' PROVE Born(f.conn) /\ Place(f) = m
  <2>1. f \in Waiting(m) \/ (f \in Q /\ Place(f) = m)
    BY <1>3 DEF Calling, Waiting, Batch
  <2> QED BY <2>1, <1>c DEF InCall, Calling, IInv, Known
<1>4. \A m \in Loops : \A d \in active[m] \ {Acceptor} : Born(d) /\ loopOf[d] = m
  BY DEF IInv, Known
<1>5. \A d \in connections' : Born(d)
  BY DEF IInv, Known, Calling
<1>6. \A p \in Users : \A d \in held'[p] : Born(d)
  BY <1>c DEF InCall, IInv, Known, Calling
<1>7. \A d \in Conns : ~Born(d) => index'[d] = "kNew" /\ state'[d] = "kConnecting"
  BY <1>c DEF InCall, IInv, Known, Changing
<1>8. Known'
  BY <1>0, <1>1, <1>2, <1>3, <1>4, <1>5, <1>6, <1>7 DEF Known, Calling
<1>9. Asked'
  BY DEF IInv, Asked, Calling
<1> QED BY <1>8, <1>9

\* A call never queues a connectEstablished, so nothing gets in front of one.
LEMMA CallOrder ==
  ASSUME Parts, IInv, NEW l \in Loops, NEW o, NEW c \in Conns, NEW S, NEW Q,
         Calling(l, o, c, S, Q)
  PROVE  Order'
<1> SUFFICES ASSUME NEW m \in Loops
    PROVE  /\ First(pend'[m]) /\ First(batch'[m])
           /\ \A f \in Waiting(m)' : f.op = "connectEstablished" => m # base
           /\ \A f \in Batch(m)', g \in Pend(m)' : g.op = "connectEstablished" => f.conn # g.conn
           /\ \A f \in Todo(m)', g \in Waiting(m)' :
                 g.op = "connectEstablished" => f.conn # g.conn
           /\ \A f \in Todo(m)' : f.op \in Once => Rest(m)' = {}
           /\ \A f \in Todo(m)' : f.op = "connectDestroyed" => phase'[m] \in {"functors", "exited"}
  BY DEF Order, OrderAt
<1>c. InCall(l, o, c)
  BY Called
<1>1. First(pend'[m]) /\ First(batch'[m])
  BY DEF IInv, Order, OrderAt, Calling
<1>2. \A g \in Pend(m)' : g.op = "connectEstablished" => g \in Pend(m)
  BY DEF Calling
<1>3. Batch(m)' = Batch(m)
  BY DEF Batch, Calling
<1>4. \A f \in Todo(m)' : f \in Todo(m) \/ (m = l /\ f.conn = c /\ f.op \notin Once)
  BY DEF Calling
<1>5. ASSUME NEW f \in Todo(m)', NEW g \in Waiting(m)', g.op = "connectEstablished"
      PROVE  f.conn # g.conn
  <2>1. g \in Waiting(m)
    BY <1>2, <1>3, <1>5 DEF Waiting
  <2>2. CASE f \in Todo(m)
    BY <1>5, <2>1, <2>2 DEF IInv, Order, OrderAt
  <2>3. CASE m = l /\ f.conn = c
    BY <1>5, <2>1, <2>3, <1>c, CallEq DEF InCall, IInv, Order, OrderAt
  <2> QED BY <1>4, <1>5, <2>2, <2>3
<1>6. ASSUME NEW f \in Todo(m)', f.op \in Once
      PROVE  Rest(m)' = {} /\ f \in Todo(m)
  <2>1. f \in Todo(m) /\ Rest(m) = {}
    BY <1>4, <1>6 DEF IInv, Order, OrderAt
  <2>2. m # l
    BY <1>6, <2>1 DEF Calling
  <2> QED BY <2>1, <2>2 DEF Rest, Calling
<1>7. \A f \in Todo(m)' : f.op = "connectDestroyed" => phase'[m] \in {"functors", "exited"}
  BY <1>6 DEF IInv, Order, OrderAt, Calling, Once
<1>8. \A f \in Waiting(m)' : f.op = "connectEstablished" => m # base
  BY <1>2, <1>3 DEF IInv, Order, OrderAt, Waiting
<1> QED BY <1>1, <1>2, <1>3, <1>5, <1>6, <1>7, <1>8 DEF IInv, Order, OrderAt

\* No call touches a connection still to be announced but connectEstablished.
LEMMA CallFresh ==
  ASSUME Parts, IInv, NEW l \in Loops, NEW o, NEW c \in Conns, NEW S, NEW Q,
         Calling(l, o, c, S, Q), Changing(l, o, c, S, Q)
  PROVE  Fresh'
<1> SUFFICES ASSUME NEW d \in Conns, Awaited(d)'
    PROVE  /\ state'[d] = "kConnecting"
           /\ index'[d] = "kNew"
           /\ d \notin active'[loopOf'[d]]
           /\ \A p \in Users : d \notin held'[p]
           /\ Removal(d) \notin Waiting(base)' \cup Todo(base)'
           /\ Kept(d)'
  BY DEF Fresh, Removal
<1>c. InCall(l, o, c)
  BY Called
<1>1. loopOf[d] \in Loops /\ loopOf' = loopOf /\ base \in Loops
  BY DEF Parts, ConnTypes, Calling, Loops
<1>2. \A m \in Loops : CE(d) \in Waiting(m)' => CE(d) \in Waiting(m)
  BY CallEq DEF Calling, Waiting, Batch, CE
<1>3. \A m \in Loops : CE(d) \in Todo(m)' => CE(d) \in Todo(m) /\ (m = l => CE(d) \in Rest(l))
  BY CallEq DEF Calling, CE, Once
<1>4. Awaited(d)
  BY <1>1, <1>2, <1>3 DEF Awaited, CE
<1>5. d # c
  <2>1. SUFFICES ASSUME d = c PROVE FALSE
    OBVIOUS
  <2>2. o = "connectEstablished"
    BY <1>4, <2>1, <1>c DEF InCall
  <2>3. Rest(l) = {} /\ CE(d) \in Todo(l) /\ loopOf[d] = l
    BY <2>1, <2>2, <1>c, CallEq DEF InCall, IInv, Order, OrderAt, Once, CE
  <2>4. CE(d) \in Waiting(l)
    BY <1>1, <1>2, <1>3, <2>3 DEF Awaited, CE
  <2> QED BY <2>3, <2>4, CallEq DEF IInv, Order, OrderAt, CE
<1>6. Removal(d) \notin Waiting(base)' \cup Todo(base)'
  <2>1. Removal(d) \notin Waiting(base) \cup Todo(base)
    BY <1>4 DEF IInv, Fresh
  <2>2. Removal(d) \notin S \cup Q
    BY <1>5, CallEq DEF Calling, Removal
  <2> QED BY <1>1, <2>1, <2>2 DEF Calling, Waiting, Batch, Removal
<1>7. Kept(d)'
  BY <1>4, <1>5, KeptCarried DEF IInv, Fresh
<1> QED BY <1>1, <1>4, <1>5, <1>6, <1>7 DEF IInv, Fresh, Calling, Changing

\* What a call makes runs while somebody keeps the connection.
LEMMA CallInUse ==
  ASSUME Parts, IInv, NEW l \in Loops, NEW o, NEW c \in Conns, NEW S, NEW Q,
         Calling(l, o, c, S, Q), Changing(l, o, c, S, Q)
  PROVE  InUse'
<1>c. InCall(l, o, c)
  BY Called
<1>k. \A d \in Conns : Kept(d) /\ (d # c \/ o # "connectDestroyed") => Kept(d)'
  BY KeptCarried
<1>1. ASSUME NEW m \in Loops, NEW f \in Todo(m), m = l => f \in Rest(l), f.conn = c
      PROVE  o # "connectDestroyed" \/ f.op = "removeConnectionInLoop"
  <2>1. f.op # "removeConnectionInLoop" => m = loopOf[c]
    BY <1>1 DEF IInv, Known, Place
  <2> QED BY <1>1, <1>c, <2>1 DEF InCall
<1>2. ASSUME NEW m \in Loops, NEW f \in Todo(m), m = l => f \in Rest(l), Kept(f.conn),
             f.op \in Touching \cup {"sendinLoop"}
      PROVE  Kept(f.conn)'
  <2>1. f.conn \in Conns
    BY Typing DEF Calls
  <2>2. f.conn # c \/ o # "connectDestroyed"
    BY <1>1, <1>2 DEF Touching
  <2> QED BY <1>2, <1>k, <2>1, <2>2
<1>3. ASSUME NEW m \in Loops, NEW f \in Todo(m)'
      PROVE  \/ m = l /\ f \in S
             \/ f \in Todo(m) /\ (m = l => f \in Rest(l))
  BY <1>3 DEF Calling
<1>4. ASSUME NEW f \in S, f.op \in Touching \cup {"sendinLoop"}
      PROVE  Kept(f.conn)'
  BY <1>4, <1>k DEF Calling, Changing
<1>5. ASSUME NEW m \in Loops, NEW f \in Todo(m)', f.op \in Touching PROVE Kept(f.conn)'
  <2>1. CASE f \in Todo(m) /\ (m = l => f \in Rest(l))
    BY <1>2, <1>5, <2>1 DEF IInv, InUse
  <2> QED BY <1>3, <1>4, <1>5, <2>1
<1>6. ASSUME NEW m \in Loops, NEW f \in Todo(m)', f.op = "sendinLoop"
      PROVE  Kept(f.conn)' \/ (Sends /\ state'[f.conn] = "kDisconnected")
  <2>1. CASE f \in Todo(m) /\ (m = l => f \in Rest(l))
    <3>1. f.conn \in Conns
      BY <2>1, Typing DEF Calls
    <3>2. state[f.conn] = "kDisconnected" => state'[f.conn] = "kDisconnected"
      BY <3>1 DEF Changing
    <3> QED BY <1>2, <1>6, <2>1, <3>2 DEF IInv, InUse
  <2> QED BY <1>3, <1>4, <1>6, <2>1
<1>7. ASSUME NEW m \in Loops, NEW d \in active[m] \ {Acceptor} PROVE Kept(d)'
  <2>1. d \in Conns /\ Kept(d) /\ loopOf[d] = m /\ phase[m] = "events"
    BY DEF Parts, LoopTypes, IInv, InUse, Known, Turns, TurnsAt
  <2>2. d # c \/ o # "connectDestroyed"
    BY <1>c, <2>1 DEF InCall
  <2> QED BY <1>k, <2>1, <2>2
<1>8. active' = active
  BY DEF Calling
<1> QED BY <1>5, <1>6, <1>7, <1>8 DEF InUse, Sends

\* A call registers a connection only while somebody keeps it, and connectDestroyed
\* goes on with `remove`.
LEMMA CallRegistry ==
  ASSUME Parts, IInv, NEW l \in Loops, NEW o, NEW c \in Conns, NEW S, NEW Q,
         Calling(l, o, c, S, Q), Changing(l, o, c, S, Q)
  PROVE  Registry'
<1> SUFFICES ASSUME NEW d \in Conns, phase'[loopOf'[d]] # "destroyed"
    PROVE  /\ index'[d] # "kNew" => Kept(d)' \/ Call("remove", d) \in Todo(loopOf[d])'
           /\ state'[d] = "kConnected" => Kept(d)'
  BY DEF Registry, Call, Calling
<1>c. InCall(l, o, c)
  BY Called
<1>k. Kept(d) /\ (d # c \/ o # "connectDestroyed") => Kept(d)'
  BY KeptCarried
<1>1. loopOf[d] \in Loops /\ phase[loopOf[d]] # "destroyed"
  BY DEF Parts, ConnTypes, Calling
<1>2. ASSUME Call("remove", d) \in Todo(loopOf[d]), Call("remove", d) # Call(o, c)
      PROVE  Call("remove", d) \in Todo(loopOf[d])'
  BY <1>1, <1>2 DEF Calling
<1>3. index[d] # "kNew" => Kept(d) \/ Call("remove", d) \in Todo(loopOf[d])
  BY <1>1 DEF IInv, Registry
<1>4. state[d] = "kConnected" => Kept(d)
  BY <1>1 DEF IInv, Registry
<1>5. CASE d # c
  BY <1>2, <1>3, <1>4, <1>5, <1>k, CallEq DEF Changing
<1>6. CASE d = c
  <2>1. ASSUME index'[c] # "kNew"
        PROVE  Kept(c)' \/ Call("remove", c) \in Todo(loopOf[c])'
    <3>1. CASE Call("remove", c) \in S
      <4>1. loopOf[c] = l
        BY <1>c, <3>1 DEF InCall, Calling
      <4> QED BY <3>1, <4>1 DEF Calling
    <3>2. CASE o \notin {"connectDestroyed", "remove"} /\ Kept(c)
      BY <1>6, <1>k, <3>2
    <3>3. CASE o \notin {"connectDestroyed", "remove"} /\ index[c] # "kNew"
      <4>1. Call("remove", c) # Call(o, c)
        BY <3>3, CallEq
      <4> QED BY <1>2, <1>3, <1>6, <1>k, <3>3, <4>1
    <3> QED BY <2>1, <3>1, <3>2, <3>3 DEF Changing
  <2>2. state'[c] = "kConnected" => Kept(c)'
    BY <1>4, <1>6, <1>k DEF Changing
  <2> QED BY <1>6, <2>1, <2>2
<1> QED BY <1>5, <1>6

\* Server::removeConnection is called by handleClose, which has set kDisconnected.
LEMMA CallClosing ==
  ASSUME Parts, IInv, NEW l \in Loops, NEW o, NEW c \in Conns, NEW S, NEW Q,
         Calling(l, o, c, S, Q), Changing(l, o, c, S, Q)
  PROVE  Closing'
<1> SUFFICES ASSUME Sends
    PROVE  /\ \A d \in Conns : Born(d)' /\ d \notin connections' => state'[d] = "kDisconnected"
           /\ \A m \in Loops : \A f \in Todo(m)' \cup Waiting(m)' :
                 f.op \in {"closeCallback", "removeConnectionInLoop"} =>
                    state'[f.conn] = "kDisconnected"
  BY DEF Closing, Sends
<1>1. \A d \in Conns : state[d] = "kDisconnected" => state'[d] = "kDisconnected"
  BY DEF Changing
<1>2. ASSUME NEW d \in Conns, Born(d)', d \notin connections'
      PROVE  state'[d] = "kDisconnected"
  <2>1. CASE d \notin connections
    BY <1>1, <1>2, <2>1 DEF IInv, Closing, Born, Calling
  <2>2. CASE d \in connections
    <3>1. d = c /\ o = "removeConnectionInLoop"
      BY <1>2, <2>2 DEF Calling
    <3>2. Call(o, c) \in Todo(l)
      BY DEF Calling
    <3> QED BY <1>1, <3>1, <3>2, CallEq DEF IInv, Closing
  <2> QED BY <2>1, <2>2
<1>3. ASSUME NEW m \in Loops, NEW f \in Todo(m)' \cup Waiting(m)',
             f.op \in {"closeCallback", "removeConnectionInLoop"}
      PROVE  state'[f.conn] = "kDisconnected"
  <2>1. CASE f \in S \cup Q
    BY <1>3, <2>1 DEF Calling, Changing
  <2>2. CASE f \in Todo(m) \cup Waiting(m)
    <3>1. f.conn \in Conns
      BY <2>2, Typing DEF Calls, Functors
    <3> QED BY <1>1, <1>3, <2>2, <3>1 DEF IInv, Closing
  <2>3. f \in S \cup Q \cup Todo(m) \cup Waiting(m)
    BY <1>3 DEF Calling, Waiting, Batch
  <2> QED BY <2>1, <2>2, <2>3
<1> QED BY <1>2, <1>3

\* What a call queues owns its connection.
LEMMA CallOwned ==
  ASSUME Parts, IInv, NEW l \in Loops, NEW o, NEW c \in Conns, NEW S, NEW Q,
         Calling(l, o, c, S, Q)
  PROVE  Owned'
<1>c. InCall(l, o, c)
  BY Called
<1>1. \A d : IsHeld(d) => IsHeld(d)'
  BY DEF IsHeld, Calling
<1>2. ASSUME NEW m \in Loops, phase'[m] = "functors", NEW f \in Todo(m)'
      PROVE  f.conn \in kept'[m] \/ (f.op \in Raw /\ IsHeld(f.conn)')
  <2>1. phase[m] = "functors" /\ kept' = kept
    BY <1>2 DEF Calling
  <2>2. CASE f \in Todo(m)
    BY <1>1, <2>1, <2>2 DEF IInv, Owned, OwnedAt
  <2>3. CASE m = l /\ f \in S
    <3>1. f.conn = c /\ o \notin Raw
      BY <2>3 DEF Calling
    <3>2. c \in kept[l]
      BY <1>c, <2>1, <2>3, <3>1, CallEq DEF InCall, IInv, Owned, OwnedAt
    <3> QED BY <2>1, <2>3, <3>1, <3>2
  <2> QED BY <1>2, <2>2, <2>3 DEF Calling
<1>3. ASSUME NEW m \in Loops, NEW f \in Waiting(m)', f.op \in Raw
      PROVE  f \in Waiting(m)
  BY <1>3 DEF Calling, Waiting, Batch, Raw
<1>4. \A m \in Loops : Runs(m)' => Runs(m)
  BY DEF Runs, Calling
<1> QED BY <1>1, <1>2, <1>3, <1>4 DEF IInv, Owned, OwnedAt, Raw

\* A call brings no connection back to life.
LEMMA CallAlive ==
  ASSUME Parts, IInv, NEW l \in Loops, NEW o, NEW c \in Conns, NEW S, NEW Q,
         Calling(l, o, c, S, Q), NEW d \in Conns, Alive(d)'
  PROVE  Alive(d)
<1>c. InCall(l, o, c)
  BY Called
<1> SUFFICES ASSUME d # c PROVE Alive(d)
  BY <1>c DEF InCall
<1>1. Born(d)
  BY DEF Alive, Born, Calling
<1>2. CASE d \in connections'
  BY <1>1, <1>2 DEF Alive, Calling
<1>3. ASSUME NEW m \in Loops, NEW f \in Waiting(m)', f.op \in Owning, f.conn = d
      PROVE  Alive(d)
  <2>1. f \in Waiting(m)
    BY <1>3 DEF Calling, Waiting, Batch
  <2> QED BY <1>1, <1>3, <2>1 DEF Alive, Waiting, Pend, Batch
<1>4. ASSUME NEW m \in Loops, d \in kept'[m] PROVE Alive(d)
  BY <1>1, <1>4 DEF Alive, Calling
<1>5. ASSUME NEW m \in Loops, phase'[m] \in {"events", "exited"}, NEW f \in Todo(m)', f.conn = d
      PROVE  Alive(d)
  <2>1. f \in Todo(m) /\ phase[m] \in {"events", "exited"}
    BY <1>5 DEF Calling
  <2> QED BY <1>1, <1>5, <2>1 DEF Alive, Todo
<1>6. ASSUME NEW p \in Users, d \in held'[p] PROVE Alive(d)
  BY <1>1, <1>6 DEF Alive, Calling
<1>7. \/ d \in connections'
      \/ \E m \in Loops : \E f \in Waiting(m)' : f.op \in Owning /\ f.conn = d
      \/ \E m \in Loops : d \in kept'[m]
      \/ \E m \in Loops : phase'[m] \in {"events", "exited"} /\ \E f \in Todo(m)' : f.conn = d
      \/ \E p \in Users : d \in held'[p]
  BY DEF Alive, Waiting, Pend, Batch, Todo
<1> QED BY <1>2, <1>3, <1>4, <1>5, <1>6, <1>7

\* A call changes one entry of fileds_, that of its own connection.
LEMMA CallEntries ==
  ASSUME Parts, IInv, NEW l \in Loops, NEW o, NEW c \in Conns, NEW S, NEW Q,
         Calling(l, o, c, S, Q), Changing(l, o, c, S, Q)
  PROVE  Entries' /\ Apart'
<1>c. InCall(l, o, c)
  BY Called
<1>0. UNCHANGED <<phase, loopOf, fdOf>> /\ \A d : Born(d)' <=> Born(d)
  BY DEF Calling, Born
<1>1. Apart'
  BY <1>0, CallAlive DEF IInv, Apart
<1>2. ASSUME NEW d \in Conns, index[d] # "kNew", phase[loopOf[d]] # "destroyed",
             fdOf[d] = fdOf[c]
      PROVE  d = c
  <2>1. Alive(d)
    BY <1>2, IndexedAlive DEF IInv
  <2> QED BY <1>2, <1>c, <2>1 DEF IInv, Apart, InCall
<1>3. loopOf[c] \in Loops /\ fdOf[c] \in Fds
  BY <1>c DEF InCall, IInv, Entries
<1>t. fileds \in [Loops -> [Fds -> Conns \cup {0}]] /\ 0 \notin Conns
  BY DEF Parts, RegTypes, Conns
<1>4. ASSUME NEW m \in Loops, NEW fd \in Fds, fileds'[m][fd] # 0, NEW d, d = fileds'[m][fd]
      PROVE  Born(d) /\ loopOf[d] = m /\ fdOf[d] = fd /\ index'[d] # "kNew"
             /\ phase[m] # "destroyed"
  <2>1. CASE /\ fileds[m][fd] = d
             /\ \/ fileds' = fileds /\ (index'[c] = "kNew" <=> index[c] = "kNew")
                \/ m # loopOf[c] \/ fd # fdOf[c]
    <3>1. /\ Born(d) /\ loopOf[d] = m /\ fdOf[d] = fd /\ index[d] # "kNew"
          /\ phase[m] # "destroyed" /\ d \in Conns
      BY <1>4, <1>t, <2>1 DEF IInv, Entries
    <3> QED BY <2>1, <3>1 DEF Changing
  <2>2. CASE d = c /\ m = l /\ loopOf[c] = l /\ fd = fdOf[c] /\ index'[c] # "kNew"
    BY <1>c, <2>2 DEF InCall
  <2> QED BY <1>4, <1>t, <2>1, <2>2 DEF Changing
<1>5. ASSUME NEW d \in Conns, index'[d] # "kNew", phase[loopOf[d]] # "destroyed"
      PROVE  fileds'[loopOf[d]][fdOf[d]] = d
  <2>0. loopOf[d] \in Loops
    BY DEF Parts, ConnTypes
  <2>1. CASE d # c
    <3>1. index[d] # "kNew"
      BY <1>5, <2>1 DEF Changing
    <3>2. fileds[loopOf[d]][fdOf[d]] = d /\ fdOf[d] # fdOf[c]
      BY <1>2, <1>5, <2>1, <3>1 DEF IInv, Entries
    <3>3. fdOf[d] \in Fds
      BY <3>1 DEF IInv, Known, Entries
    <3> QED BY <1>3, <1>t, <2>0, <3>2, <3>3 DEF Changing
  <2>2. CASE d = c /\ fileds' = fileds /\ index[c] # "kNew"
    BY <1>5, <2>2 DEF IInv, Entries
  <2>3. CASE d = c /\ fileds' = [fileds EXCEPT ![l][fdOf[c]] = c] /\ loopOf[c] = l
    BY <1>3, <1>t, <2>3
  <2> QED BY <1>5, <2>1, <2>2, <2>3 DEF Changing
<1> QED BY <1>0, <1>1, <1>4, <1>5 DEF IInv, Entries

\* A call on c has been made by l, of the one form.
Making(l, c) == \E o, S, Q : Calling(l, o, c, S, Q)

\* A call that fits the two descriptions keeps the invariant.
LEMMA CallKeeps ==
  ASSUME Parts, IInv, NEW l \in Loops, NEW o, NEW c \in Conns, NEW S, NEW Q,
         Calling(l, o, c, S, Q), Changing(l, o, c, S, Q)
  PROVE  IInv' /\ Making(l, c)
BY CallTurns, CallKnown, CallOrder, CallFresh, CallInUse, CallRegistry, CallClosing,
   CallOwned, CallEntries DEF IInv, Making

\* The elements of a sequence of two.
LEMMA SetOfTwo == \A x, y : ToSet(<<x, y>>) = {x, y}
<1> TAKE x, y
<1>1. DOMAIN <<x, y>> = {1, 2} /\ <<x, y>>[1] = x /\ <<x, y>>[2] = y
  OBVIOUS
<1> QED BY <1>1 DEF ToSet

\* become on the set of calls.
LEMMA Becoming ==
  ASSUME Parts, NEW l \in Loops, NEW o, NEW c \in Conns, NEW s \in Seq(Calls), Now(l, o, c),
         become(l, s)
  PROVE  /\ Todo(l) = {Call(o, c)} \cup Rest(l)
         /\ \A m \in Loops : Todo(m)' = IF m = l THEN ToSet(s) \cup Rest(l) ELSE Todo(m)
         /\ todo[l] # <<>> /\ \A m \in Loops : m # l => todo'[m] = todo[m]
<1>1. todo \in [Loops -> Seq(Calls)] /\ todo[l] # <<>> /\ Head(todo[l]) = Call(o, c)
  BY DEF Parts, TodoTypes, Now
<1>2. Todo(l) = {Call(o, c)} \cup Rest(l)
  BY <1>1, SetOfTail DEF Todo, Rest
<1>3. todo' = [todo EXCEPT ![l] = s \o Tail(todo[l])] /\ Tail(todo[l]) \in Seq(Calls)
  BY <1>1 DEF become
<1>4. ToSet(s \o Tail(todo[l])) = ToSet(s) \cup Rest(l)
  BY <1>3, SetOfConcat DEF Rest
<1> QED BY <1>1, <1>2, <1>3, <1>4 DEF Todo

\* queueinLoop on the set of functors: one more at the end.
LEMMA Queueing ==
  ASSUME Parts, NEW m \in Loops, NEW g \in Functors, queueinLoop(m, g)
  PROVE  /\ \A n \in Loops : Pend(n)' = Pend(n) \cup {f \in {g} : n = m}
         /\ \A n \in Loops : n # m => pend'[n] = pend[n]
         /\ First(pend[m]) /\ (g.op = "connectEstablished" =>
               \A f \in Pend(m) : f.conn # g.conn) => First(pend'[m])
<1>1. pend \in [Loops -> Seq(Functors)] /\ pend' = [pend EXCEPT ![m] = Append(pend[m], g)]
  BY DEF Parts, PendTypes, queueinLoop
<1>2. ToSet(Append(pend[m], g)) = Pend(m) \cup {g}
  BY <1>1, SetOfAppend DEF Pend
<1>3. \A n \in Loops : Pend(n)' = Pend(n) \cup {f \in {g} : n = m}
  BY <1>1, <1>2 DEF Pend
<1>4. ASSUME First(pend[m]), g.op = "connectEstablished" => \A f \in Pend(m) : f.conn # g.conn
      PROVE  First(pend'[m])
  <2> DEFINE q == pend[m]
  <2>1. q \in Seq(Functors) /\ pend'[m] = Append(q, g)
    BY <1>1
  <2>2. \A i \in DOMAIN q : q[i] \in Pend(m)
    BY DEF Pend, ToSet
  <2>3. ASSUME NEW i \in DOMAIN Append(q, g), NEW j \in DOMAIN Append(q, g), i < j,
               Append(q, g)[j].op = "connectEstablished"
        PROVE  Append(q, g)[i].conn # Append(q, g)[j].conn
    <3>1. i \in DOMAIN q /\ Append(q, g)[i] = q[i]
      BY <2>1, <2>3
    <3>2. CASE j \in DOMAIN q
      BY <1>4, <2>1, <2>3, <3>1, <3>2 DEF First
    <3>3. CASE j = Len(q) + 1
      BY <1>4, <2>1, <2>2, <2>3, <3>1, <3>3
    <3> QED BY <2>1, <2>3, <3>2, <3>3
  <2> QED BY <2>1, <2>3 DEF First
<1> QED BY <1>1, <1>3, <1>4

\* What no call of a connection changes.
Frame(c) ==
    /\ UNCHANGED <<phase, active, batch, kept, nextConnId, loops, loopOf, fdOf, doing>>
    /\ \A p \in Users : held[p] \subseteq held'[p] /\ held'[p] \subseteq held[p] \cup {c}

\* A call that queues nothing.
LEMMA Silent ==
  ASSUME Parts, NEW l \in Loops, NEW o, NEW c \in Conns, NEW s \in Seq(Calls), Now(l, o, c),
         become(l, s), UNCHANGED <<pend, connections>>, Frame(c),
         \A f \in ToSet(s) : /\ f.conn = c
                             /\ f.op \notin Once
                             /\ f.op = "removeConnectionInLoop" => l = base,
         o \in Raw \cup {"removeConnectionInLoop"} => ToSet(s) = {}
  PROVE  Calling(l, o, c, ToSet(s), {})
<1>1. \A m \in Loops : Pend(m)' = Pend(m)
  BY DEF Pend
<1>2. /\ Todo(l) = {Call(o, c)} \cup Rest(l)
      /\ \A m \in Loops : Todo(m)' = IF m = l THEN ToSet(s) \cup Rest(l) ELSE Todo(m)
      /\ todo[l] # <<>> /\ \A m \in Loops : m # l => todo'[m] = todo[m]
  BY Becoming
<1> QED BY <1>1, <1>2 DEF Calling, Frame

\* A call that queues one functor.
LEMMA Telling ==
  ASSUME Parts, NEW l \in Loops, NEW o, NEW c \in Conns, NEW s \in Seq(Calls), Now(l, o, c),
         become(l, s), Frame(c),
         NEW q \in {"connectDestroyed", "removeConnectionInLoop", "writeCompleteCallback"},
         queueinLoop(Place(Call(q, c)), Call(q, c)),
         \/ connections' = connections
         \/ /\ connections' = connections \ {c}
            /\ q = "connectDestroyed"
            /\ o = "removeConnectionInLoop",
         \A f \in ToSet(s) : f.conn = c /\ f.op \notin Once \cup {"removeConnectionInLoop"},
         o \in Raw \cup {"removeConnectionInLoop"} => ToSet(s) = {}
  PROVE  Calling(l, o, c, ToSet(s), {Call(q, c)})
<1>0. Call(q, c) \in Functors
  BY CallTyped DEF Deferred
<1>1. Call(q, c) \in Functors /\ Place(Call(q, c)) \in Loops
  BY <1>0, CallEq DEF Place, Parts, ConnTypes, Loops
<1>2. \A m \in Loops : /\ Pend(m)' = Pend(m) \cup {f \in {Call(q, c)} : m = Place(f)}
                       /\ First(pend[m]) => First(pend'[m])
  BY <1>1, Queueing, CallEq
<1>3. /\ Todo(l) = {Call(o, c)} \cup Rest(l)
      /\ \A m \in Loops : Todo(m)' = IF m = l THEN ToSet(s) \cup Rest(l) ELSE Todo(m)
      /\ todo[l] # <<>> /\ \A m \in Loops : m # l => todo'[m] = todo[m]
  BY Becoming
<1> QED BY <1>2, <1>3, CallEq DEF Calling, Frame, CD

\* Filed::update registers the connection, and changes no other entry.
LEMMA SetsEvents ==
  ASSUME NEW l \in Loops, NEW c \in Conns, NEW e, Parts, loopOf[c] = l, setEvents(c, e)
  PROVE  /\ index'[c] # "kNew"
         /\ \A d \in Conns \ {c} : index'[d] = index[d]
         /\ \/ fileds' = [fileds EXCEPT ![l][fdOf[c]] = c]
            \/ fileds' = fileds /\ index[c] # "kNew"
BY DEF setEvents, Parts, RegTypes

\* connectEstablished keeps the invariant: the map still has the connection.
LEMMA EstablishedKeeps ==
  ASSUME Parts, IInv, NEW l \in Loops, NEW c \in Conns, connectEstablished(l, c)
  PROVE  IInv' /\ Making(l, c)
<1> DEFINE S == {Call("connectionCallback", c)}
<1>1. Calling(l, "connectEstablished", c, S, {})
  <2>1. ToSet(<<Call("connectionCallback", c)>>) = S /\ <<Call("connectionCallback", c)>> \in Seq(Calls)
    BY SetOfOne, NextCalls DEF Nested
  <2>2. /\ Now(l, "connectEstablished", c) /\ become(l, <<Call("connectionCallback", c)>>)
        /\ UNCHANGED <<pend, connections>> /\ Frame(c)
    BY DEF connectEstablished, Frame, turnVars, outside, serverVars, userVars
  <2>3. \A f \in S : f.conn = c /\ f.op = "connectionCallback"
    BY CallEq
  <2> QED BY <2>1, <2>2, <2>3, Silent DEF Once, Raw
<1>2. Changing(l, "connectEstablished", c, S, {})
  <2>1. InCall(l, "connectEstablished", c)
    BY <1>1, Called
  <2>2. Awaited(c) /\ loopOf[c] = l
    BY <2>1 DEF InCall, Awaited, CE
  <2>3. Kept(c) /\ state[c] = "kConnecting"
    BY <2>2 DEF IInv, Fresh
  <2>4. /\ index'[c] # "kNew"
        /\ \A d \in Conns \ {c} : index'[d] = index[d]
        /\ \/ fileds' = [fileds EXCEPT ![l][fdOf[c]] = c]
           \/ fileds' = fileds /\ index[c] # "kNew"
    BY <2>2, SetsEvents DEF connectEstablished, enableReading
  <2>5. \A d \in Conns \ {c} : state'[d] = state[d]
    BY DEF connectEstablished, Parts, ConnTypes
  <2> QED BY <2>2, <2>3, <2>4, <2>5, CallEq DEF Changing, Touching
<1> QED BY <1>1, <1>2, CallKeeps

\* A call that leaves registration and state alone.
LEMMA Unregistering ==
  ASSUME NEW l, NEW o, NEW c \in Conns, NEW S, NEW Q, UNCHANGED <<index, fileds, state>>,
         o \notin {"connectDestroyed", "remove"},
         \A f \in S : f.op \in Touching \cup {"sendinLoop"} => Kept(c),
         \A f \in S \cup Q : f.op \in {"closeCallback", "removeConnectionInLoop"} =>
            (Sends => state[c] = "kDisconnected")
  PROVE  Changing(l, o, c, S, Q)
BY DEF Changing

\* The innermost call is one of those on the stack.
LEMMA Innermost ==
  ASSUME Parts, NEW l \in Loops, NEW o, NEW c, Now(l, o, c) PROVE Call(o, c) \in Todo(l)
BY SetOfTail DEF Parts, TodoTypes, Todo, Now

\* A call that returns and makes no other.
LEMMA Returning ==
  ASSUME Parts, IInv, NEW l \in Loops, NEW o, NEW c \in Conns, Now(l, o, c), become(l, <<>>),
         UNCHANGED <<pend, connections, index, fileds, state>>, Frame(c),
         o \notin {"connectDestroyed", "remove"}
  PROVE  IInv' /\ Making(l, c)
<1>1. ToSet(<<>>) = {} /\ <<>> \in Seq(Calls)
  BY SetOfOne
<1>2. Calling(l, o, c, {}, {})
  BY <1>1, Silent
<1>3. Changing(l, o, c, {}, {})
  BY Unregistering
<1> QED BY <1>2, <1>3, CallKeeps

\* A call that makes one other, of those that need no owner.
LEMMA GoingOn ==
  ASSUME Parts, IInv, NEW l \in Loops, NEW o, NEW c \in Conns, Now(l, o, c),
         NEW q \in (Deferred \cup Nested) \ (Once \cup {"removeConnectionInLoop", "closeCallback"}),
         become(l, <<Call(q, c)>>),
         UNCHANGED <<pend, connections, index, fileds, state>>, Frame(c),
         o \notin {"connectDestroyed", "remove", "removeConnectionInLoop"} \cup Raw,
         q \in Touching \cup {"sendinLoop"} => Kept(c)
  PROVE  IInv' /\ Making(l, c)
<1> DEFINE s == <<Call(q, c)>>
<1>1. ToSet(s) = {Call(q, c)} /\ s \in Seq(Calls)
  BY SetOfOne, NextCalls
<1>2. \A f \in ToSet(s) : f.conn = c /\ f.op = q
  BY <1>1, CallEq
<1>3. become(l, s)
  OBVIOUS
<1> HIDE DEF s
<1>4. o \in Raw \cup {"removeConnectionInLoop"} => ToSet(s) = {}
  OBVIOUS
<1>5. Calling(l, o, c, ToSet(s), {})
  BY <1>1, <1>2, <1>3, <1>4, Silent
<1>6. Changing(l, o, c, ToSet(s), {})
  BY <1>2, Unregistering
<1> QED BY <1>5, <1>6, CallKeeps

\* A call that queues the writeCompleteCallback.
LEMMA Completing ==
  ASSUME Parts, IInv, NEW l \in Loops, NEW o, NEW c \in Conns, Now(l, o, c), become(l, <<>>),
         queueinLoop(l, Call("writeCompleteCallback", c)),
         UNCHANGED <<connections, index, fileds, state>>, Frame(c),
         o \notin {"connectDestroyed", "remove", "removeConnectionInLoop"}
  PROVE  IInv' /\ Making(l, c)
<1>1. ToSet(<<>>) = {} /\ <<>> \in Seq(Calls)
  BY SetOfOne
<1>2. Call(o, c) \in Todo(l)
  BY Innermost
<1>3. Place(Call("writeCompleteCallback", c)) = l
  BY <1>2, CallEq DEF IInv, Known, Place
<1>4. Calling(l, o, c, {}, {Call("writeCompleteCallback", c)})
  BY <1>1, <1>3, Telling
<1>5. Changing(l, o, c, {}, {Call("writeCompleteCallback", c)})
  BY CallEq, Unregistering
<1> QED BY <1>4, <1>5, CallKeeps

\* handleError, a handleWrite that leaves something, writeCompleteCallback,
\* shutdownInLoop and a sendinLoop that buffers nothing keep the invariant.
LEMMA QuietKeeps ==
  ASSUME Parts, IInv, NEW l \in Loops, NEW c \in Conns,
         \/ handleError(l, c) \/ handleWritePart(l, c) \/ writeCompleteCallback(l, c)
         \/ shutdownInLoop(l, c) \/ sendAtOnce(l, c)
  PROVE  IInv' /\ Making(l, c)
<1> USE DEF Frame, turnVars, outside, serverVars, connVars, regVars, userVars
<1>1. CASE handleError(l, c)
  BY <1>1, Returning DEF handleError
<1>2. CASE handleWritePart(l, c)
  BY <1>2, Returning DEF handleWritePart
<1>3. CASE writeCompleteCallback(l, c)
  BY <1>3, Returning DEF writeCompleteCallback
<1>4. CASE shutdownInLoop(l, c)
  BY <1>4, Returning DEF shutdownInLoop
<1>5. CASE sendAtOnce(l, c)
  <2>1. CASE UNCHANGED pend
    BY <1>5, <2>1, Returning DEF sendAtOnce
  <2>2. CASE queueinLoop(l, Call("writeCompleteCallback", c))
    BY <1>5, <2>2, Completing DEF sendAtOnce
  <2> QED BY <1>5, <2>1, <2>2 DEF sendAtOnce
<1> QED BY <1>1, <1>2, <1>3, <1>4, <1>5

\* handleRead and send keep the invariant.
LEMMA ReadKeeps ==
  ASSUME Parts, IInv, NEW l \in Loops, NEW c \in Conns, handleRead(l, c) \/ send(l, c)
  PROVE  IInv' /\ Making(l, c)
<1> USE DEF Frame, turnVars, outside, serverVars, connVars, regVars, userVars
<1>1. \A o : Now(l, o, c) => Call(o, c) \in Todo(l) /\ phase[l] # "destroyed"
  BY Innermost DEF Now, IInv, Turns, TurnsAt
<1>2. CASE handleRead(l, c)
  <2>1. Kept(c)
    BY <1>1, <1>2, CallEq DEF handleRead, IInv, InUse, Touching
  <2>2. /\ Now(l, "handleRead", c) /\ Frame(c)
        /\ UNCHANGED <<pend, connections, index, fileds, state>>
    BY <1>2 DEF handleRead
  <2>3. PICK q \in {"messageCallback", "handleError", "handleClose"} : become(l, <<Call(q, c)>>)
    BY <1>2 DEF handleRead
  <2> QED BY <2>1, <2>2, <2>3, GoingOn DEF Nested, Raw, Once
<1>3. CASE send(l, c)
  <2>1. CASE state[c] = "kConnected"
    <3>1. loopOf[c] = l
      BY <1>1, <1>3, CallEq DEF send, IInv, Known, Place
    <3>2. Kept(c)
      BY <1>1, <1>3, <2>1, <3>1 DEF send, IInv, Registry
    <3> QED BY <1>3, <2>1, <3>2, GoingOn DEF send, Deferred, Raw, Once
  <2>2. CASE state[c] # "kConnected"
    BY <1>3, <2>2, Returning DEF send
  <2> QED BY <2>1, <2>2
<1> QED BY <1>2, <1>3

\* The user's callbacks keep the invariant, whatever script they run and to whichever
\* threads they pass the pointer.
LEMMA CallbackKeeps ==
  ASSUME Parts, IInv, NEW l \in Loops, NEW c \in Conns,
         connectionCallback(l, c) \/ messageCallback(l, c)
  PROVE  IInv' /\ Making(l, c)
<1>1. userCode(l, c) /\ \E o \in {"connectionCallback", "messageCallback"} : Now(l, o, c)
  BY DEF connectionCallback, messageCallback
<1>2. PICK r \in Scripts : become(l, [i \in DOMAIN r |-> Call(r[i], c)])
  BY <1>1 DEF userCode
<1> DEFINE s == [i \in DOMAIN r |-> Call(r[i], c)]
<1>3. PICK o \in {"connectionCallback", "messageCallback"} : Now(l, o, c)
  BY <1>1
<1>4. s \in Seq(Calls)
  <2>1. r \in Seq({"send", "shutdown"})
    BY ServerAssumption
  <2>2. \A q \in {"send", "shutdown"} : Call(q, c) \in Calls
    BY CallTyped DEF Nested
  <2> QED BY <2>1, <2>2
<1>5. \A f \in ToSet(s) : f.conn = c /\ f.op \in {"send", "shutdown"}
  <2>1. \A i \in DOMAIN r : r[i] \in {"send", "shutdown"}
    BY ServerAssumption
  <2>2. \A f \in ToSet(s) : \E i \in DOMAIN r : f = Call(r[i], c)
    BY DEF ToSet
  <2> QED BY <2>1, <2>2, CallEq
<1>6. Frame(c) /\ UNCHANGED <<pend, connections, index, fileds, state>>
  BY <1>1 DEF userCode, Frame, turnVars, serverVars, connVars, regVars
<1> HIDE DEF s
<1>7. Calling(l, o, c, ToSet(s), {})
  BY <1>2, <1>3, <1>4, <1>5, <1>6, Silent DEF s, Once, Raw
<1>8. Changing(l, o, c, ToSet(s), {})
  BY <1>5, <1>6, Unregistering DEF Touching
<1> QED BY <1>7, <1>8, CallKeeps

\* shutdown on its own loop keeps the invariant.
LEMMA ShutdownKeeps ==
  ASSUME Parts, IInv, NEW l \in Loops, NEW c \in Conns, shutdown(l, c) PROVE IInv' /\ Making(l, c)
<1> DEFINE s == IF state[c] = "kConnected" THEN <<Call("shutdownInLoop", c)>> ELSE <<>>
<1>1. s \in Seq(Calls) /\ \A f \in ToSet(s) : f.conn = c /\ f.op = "shutdownInLoop"
  BY SetOfOne, NextCalls, CallEq DEF Deferred
<1>2. /\ Now(l, "shutdown", c) /\ become(l, s)
      /\ UNCHANGED <<pend, connections>> /\ Frame(c)
  BY DEF shutdown, Frame, turnVars, serverVars, outside, userVars
<1>3. /\ UNCHANGED <<index, fileds>>
      /\ \A d \in Conns \ {c} : state'[d] = state[d]
      /\ state'[c] = "kConnected" => state[c] = "kConnected"
      /\ state[c] = "kDisconnected" => state'[c] = "kDisconnected"
  BY DEF shutdown, regVars, Parts, ConnTypes
<1> HIDE DEF s
<1>4. Calling(l, "shutdown", c, ToSet(s), {})
  BY <1>1, <1>2, Silent DEF Once, Raw
<1>5. Changing(l, "shutdown", c, ToSet(s), {})
  BY <1>1, <1>3 DEF Changing, Touching
<1> QED BY <1>4, <1>5, CallKeeps

\* A sendinLoop that asks for EPOLLOUT keeps the invariant: it did not give up, so the
\* connection is still in use, and what it registers is not forgotten.
LEMMA SendBufferedKeeps ==
  ASSUME Parts, IInv, NEW l \in Loops, NEW c \in Conns, sendBuffered(l, c) PROVE IInv' /\ Making(l, c)
<1>1. /\ Now(l, "sendinLoop", c) /\ become(l, <<>>)
      /\ UNCHANGED <<pend, connections>> /\ Frame(c)
  BY DEF sendBuffered, Frame, turnVars, serverVars, outside, userVars
<1>2. ToSet(<<>>) = {} /\ <<>> \in Seq(Calls)
  BY SetOfOne
<1>3. Calling(l, "sendinLoop", c, {}, {})
  BY <1>1, <1>2, Silent
<1>4. loopOf[c] = l /\ Kept(c)
  <2>1. InCall(l, "sendinLoop", c)
    BY <1>3, Called
  <2> QED BY <2>1, CallEq DEF InCall, IInv, InUse, sendBuffered, GivesUp
<1>5. /\ \A d \in Conns \ {c} : index'[d] = index[d]
      /\ \/ fileds' = [fileds EXCEPT ![l][fdOf[c]] = c] /\ index'[c] # "kNew"
         \/ fileds' = fileds /\ (index'[c] = "kNew" <=> index[c] = "kNew")
  <2>1. CASE enableWriting(c)
    BY <1>4, <2>1, SetsEvents DEF enableWriting
  <2>2. CASE UNCHANGED regVars
    BY <2>2 DEF regVars
  <2> QED BY <2>1, <2>2 DEF sendBuffered
<1>6. Changing(l, "sendinLoop", c, {}, {})
  BY <1>4, <1>5 DEF Changing, sendBuffered, connVars
<1> QED BY <1>3, <1>6, CallKeeps

\* A handleWrite that empties outputBuffer_ keeps the invariant.
LEMMA WriteAllKeeps ==
  ASSUME Parts, IInv, NEW l \in Loops, NEW c \in Conns, handleWriteAll(l, c) PROVE IInv' /\ Making(l, c)
<1> DEFINE s == allWritten(c)
           g == Call("writeCompleteCallback", c)
<1>1. s \in Seq(Calls) /\ \A f \in ToSet(s) : f.conn = c /\ f.op = "shutdownInLoop"
  BY SetOfOne, NextCalls, CallEq DEF Deferred, allWritten
<1>2. /\ Now(l, "handleWrite", c) /\ become(l, s)
      /\ queueinLoop(l, g) \/ UNCHANGED pend
      /\ UNCHANGED <<connections, state>> /\ Frame(c)
  BY DEF handleWriteAll, Frame, turnVars, serverVars, outside, userVars
<1> HIDE DEF s
<1>3. loopOf[c] = l /\ Kept(c)
  <2>1. Call("handleWrite", c) \in Todo(l)
    BY <1>2, Innermost
  <2> QED BY <2>1, CallEq DEF IInv, InUse, Touching, Known, Place
<1>4. Place(g) = l
  BY <1>3, CallEq DEF Place
<1>5. PICK Q \in {{g}, {}} : Calling(l, "handleWrite", c, ToSet(s), Q)
  <2>1. CASE queueinLoop(l, g)
    BY <1>1, <1>2, <1>4, <2>1, Telling DEF Once, Raw
  <2>2. CASE UNCHANGED pend
    BY <1>1, <1>2, <2>2, Silent DEF Once, Raw
  <2> QED BY <1>2, <2>1, <2>2
<1>6. /\ index'[c] # "kNew"
      /\ \A d \in Conns \ {c} : index'[d] = index[d]
      /\ \/ fileds' = [fileds EXCEPT ![l][fdOf[c]] = c]
         \/ fileds' = fileds /\ index[c] # "kNew"
  BY <1>3, SetsEvents DEF handleWriteAll, disableWriting
<1>7. \A f \in Q : f.op = "writeCompleteCallback"
  BY CallEq
<1>8. Changing(l, "handleWrite", c, ToSet(s), Q)
  BY <1>1, <1>2, <1>3, <1>6, <1>7 DEF Changing, Touching
<1> QED BY <1>5, <1>8, CallKeeps

\* handleClose keeps the invariant: the connection is kept until closeCallback_.
LEMMA CloseKeeps ==
  ASSUME Parts, IInv, NEW l \in Loops, NEW c \in Conns, handleClose(l, c) PROVE IInv' /\ Making(l, c)
<1> DEFINE s == closing(c)
<1>1. s \in Seq(Calls) /\ \A f \in ToSet(s) : /\ f.conn = c
                                              /\ f.op \in {"connectionCallback", "closeCallback"}
  BY SetOfTwo, NextCalls, CallEq DEF Nested, closing
<1>2. /\ Now(l, "handleClose", c) /\ become(l, s)
      /\ UNCHANGED <<pend, connections>> /\ Frame(c)
  BY DEF handleClose, Frame, turnVars, serverVars, outside, userVars
<1> HIDE DEF s
<1>3. loopOf[c] = l /\ Kept(c)
  <2>1. Call("handleClose", c) \in Todo(l)
    BY <1>2, Innermost
  <2> QED BY <2>1, CallEq DEF IInv, InUse, Touching, Known, Place
<1>4. Calling(l, "handleClose", c, ToSet(s), {})
  BY <1>1, <1>2, Silent DEF Once, Raw
<1>5. /\ index'[c] # "kNew"
      /\ \A d \in Conns \ {c} : index'[d] = index[d]
      /\ \/ fileds' = [fileds EXCEPT ![l][fdOf[c]] = c]
         \/ fileds' = fileds /\ index[c] # "kNew"
  BY <1>3, SetsEvents DEF handleClose, disableAll
<1>6. state'[c] = "kDisconnected" /\ \A d \in Conns \ {c} : state'[d] = state[d]
  BY DEF handleClose, Parts, ConnTypes
<1>7. Changing(l, "handleClose", c, ToSet(s), {})
  BY <1>1, <1>3, <1>5, <1>6 DEF Changing, Touching
<1> QED BY <1>4, <1>7, CallKeeps

\* connectDestroyed keeps the invariant: `remove` follows it if it had to unregister.
LEMMA DestroyedKeeps ==
  ASSUME Parts, IInv, NEW l \in Loops, NEW c \in Conns, connectDestroyed(l, c) PROVE IInv' /\ Making(l, c)
<1> DEFINE s == IF state[c] = "kConnected"
                THEN <<Call("connectionCallback", c), Call("remove", c)>>
                ELSE <<Call("remove", c)>>
<1>1. /\ s \in Seq(Calls) /\ Call("remove", c) \in ToSet(s)
      /\ \A f \in ToSet(s) : f.conn = c /\ f.op \in {"connectionCallback", "remove"}
  BY SetOfOne, SetOfTwo, NextCalls, CallEq DEF Nested
<1>2. /\ Now(l, "connectDestroyed", c) /\ become(l, s)
      /\ UNCHANGED <<pend, connections>> /\ Frame(c)
  BY DEF connectDestroyed, Frame, turnVars, serverVars, outside, userVars
<1> HIDE DEF s
<1>3. loopOf[c] = l
  <2>1. Call("connectDestroyed", c) \in Todo(l)
    BY <1>2, Innermost
  <2> QED BY <2>1, CallEq DEF IInv, Known, Place
<1>4. Calling(l, "connectDestroyed", c, ToSet(s), {})
  BY <1>1, <1>2, Silent DEF Once, Raw
<1>5. /\ \A d \in Conns \ {c} : index'[d] = index[d] /\ state'[d] = state[d]
      /\ state'[c] # "kConnected"
      /\ state[c] = "kDisconnected" => state'[c] = "kDisconnected"
      /\ \/ fileds' = [fileds EXCEPT ![l][fdOf[c]] = c] /\ index'[c] # "kNew"
         \/ fileds' = fileds /\ (index'[c] = "kNew" <=> index[c] = "kNew")
  <2>1. CASE state[c] = "kConnected"
    <3>1. disableAll(c) /\ state' = [state EXCEPT ![c] = "kDisconnected"]
      BY <2>1 DEF connectDestroyed
    <3>2. /\ index'[c] # "kNew"
          /\ \A d \in Conns \ {c} : index'[d] = index[d]
          /\ \/ fileds' = [fileds EXCEPT ![l][fdOf[c]] = c]
             \/ fileds' = fileds /\ index[c] # "kNew"
      BY <1>3, <3>1, SetsEvents DEF disableAll
    <3> QED BY <3>1, <3>2 DEF Parts, ConnTypes
  <2>2. CASE state[c] # "kConnected"
    BY <2>2 DEF connectDestroyed, regVars
  <2> QED BY <2>1, <2>2
<1>6. Changing(l, "connectDestroyed", c, ToSet(s), {})
  BY <1>1, <1>3, <1>5 DEF Changing, Touching
<1> QED BY <1>4, <1>6, CallKeeps

\* Epoller::remove keeps the invariant: it erases the connection's own entry.
LEMMA RemoveKeeps ==
  ASSUME Parts, IInv, NEW l \in Loops, NEW c \in Conns, remove(l, c) PROVE IInv' /\ Making(l, c)
<1>1. /\ Now(l, "remove", c) /\ become(l, <<>>)
      /\ UNCHANGED <<pend, connections, state>> /\ Frame(c)
  BY DEF remove, Frame, turnVars, serverVars, connVars, outside, userVars
<1>2. ToSet(<<>>) = {} /\ <<>> \in Seq(Calls)
  BY SetOfOne
<1>3. Calling(l, "remove", c, {}, {})
  BY <1>1, <1>2, Silent DEF Raw
<1>4. loopOf[c] = l
  <2>1. InCall(l, "remove", c)
    BY <1>3, Called
  <2> QED BY <2>1 DEF InCall
<1>5. /\ \A d \in Conns \ {c} : index'[d] = index[d]
      /\ index'[c] = "kNew"
      /\ fileds' = [fileds EXCEPT ![l][fdOf[c]] = 0]
  BY DEF remove, erased, unregistered, Parts, RegTypes
<1>6. Changing(l, "remove", c, {}, {})
  BY <1>1, <1>4, <1>5 DEF Changing
<1> QED BY <1>3, <1>6, CallKeeps

\* Server::removeConnection and removeConnectionInLoop keep the invariant: the map
\* gives the connection up for the connectDestroyed it queues.
LEMMA RemovalKeeps ==
  ASSUME Parts, IInv, NEW l \in Loops, NEW c \in Conns,
         removeConnection(l, c) \/ removeConnectionInLoop(l, c)
  PROVE  IInv' /\ Making(l, c)
<1>0. ToSet(<<>>) = {} /\ <<>> \in Seq(Calls)
  BY SetOfOne
<1>1. CASE removeConnection(l, c)
  <2>1. /\ Now(l, "closeCallback", c) /\ runinLoop(l, base, Removal(c))
        /\ UNCHANGED <<connections, index, fileds, state>> /\ Frame(c)
    BY <1>1 DEF removeConnection, Removal, Frame, turnVars, serverVars, connVars, regVars,
       outside, userVars
  <2>2. Sends => state[c] = "kDisconnected"
    <3>1. Call("closeCallback", c) \in Todo(l)
      BY <2>1, Innermost
    <3> QED BY <3>1, CallEq DEF IInv, Closing
  <2>3. CASE l = base
    <3> DEFINE s == <<Removal(c)>>
    <3>1. /\ ToSet(s) = {Removal(c)} /\ s \in Seq(Calls)
          /\ \A f \in ToSet(s) : f.conn = c /\ f.op = "removeConnectionInLoop"
      BY SetOfOne, NextCalls, CallEq DEF Deferred, Removal
    <3>2. become(l, s) /\ UNCHANGED pend
      BY <2>1, <2>3 DEF runinLoop
    <3> HIDE DEF s
    <3>3. Calling(l, "closeCallback", c, ToSet(s), {})
      BY <2>1, <2>3, <3>1, <3>2, Silent DEF Once, Raw
    <3>4. Changing(l, "closeCallback", c, ToSet(s), {})
      BY <2>1, <2>2, <3>1, Unregistering DEF Touching
    <3> QED BY <3>3, <3>4, CallKeeps
  <2>4. CASE l # base
    <3>1. become(l, <<>>) /\ queueinLoop(base, Removal(c))
      BY <2>1, <2>4 DEF runinLoop
    <3>2. Place(Removal(c)) = base
      BY CallEq DEF Place, Removal
    <3>3. Calling(l, "closeCallback", c, {}, {Removal(c)})
      BY <1>0, <2>1, <3>1, <3>2, Telling DEF Once, Raw, Removal
    <3>4. Changing(l, "closeCallback", c, {}, {Removal(c)})
      BY <2>1, <2>2, Unregistering
    <3> QED BY <3>3, <3>4, CallKeeps
  <2> QED BY <2>3, <2>4
<1>2. CASE removeConnectionInLoop(l, c)
  <2>1. /\ Now(l, "removeConnectionInLoop", c) /\ become(l, <<>>)
        /\ queueinLoop(loopOf[c], CD(c)) /\ connections' = connections \ {c}
        /\ UNCHANGED <<index, fileds, state>> /\ Frame(c)
    BY <1>2 DEF removeConnectionInLoop, CD, Frame, turnVars, connVars, regVars, outside,
       userVars
  <2>2. Place(CD(c)) = loopOf[c] /\ CD(c).op = "connectDestroyed"
    BY CallEq DEF Place, CD
  <2>3. Calling(l, "removeConnectionInLoop", c, {}, {CD(c)})
    BY <1>0, <2>1, <2>2, Telling DEF CD
  <2>4. Changing(l, "removeConnectionInLoop", c, {}, {CD(c)})
    BY <2>1, <2>2, Unregistering
  <2> QED BY <2>3, <2>4, CallKeeps
<1> QED BY <1>1, <1>2

\* Every call of a connection keeps the invariant.
LEMMA CallsKeep ==
  ASSUME Parts, IInv, NEW l \in Loops, NEW c \in Conns, CallStep(l, c) PROVE IInv' /\ Making(l, c)
BY QuietKeeps, ReadKeeps, CallbackKeeps, ShutdownKeeps, SendBufferedKeeps, WriteAllKeeps,
   CloseKeeps, DestroyedKeeps, RemoveKeeps, RemovalKeeps, EstablishedKeeps DEF CallStep
=============================================================================
