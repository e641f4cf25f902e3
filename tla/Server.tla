------------------------------- MODULE Server -------------------------------
(***************************************************************************)
(* The life of the connections of one Server: Acceptor, Server, Connection,*)
(* Filed and Epoller, on a base loop and the loops of its ManagerPool.     *)
(*                                                                         *)
(* Each loop is a thread that executes calls.  todo[l] is what it is in    *)
(* the middle of, innermost call first: handleClose puts the user's        *)
(* connection callback and then Server::removeConnection in front of what  *)
(* remains of handleEvent.  A loop repeats poll, events, functors; what    *)
(* the other threads give it waits in pend[l] until it swaps it with       *)
(* batch[l].  The wakeup that ends epoll_wait is EventLoop.tla's subject:  *)
(* here a loop with something queued does not sleep.                       *)
(*                                                                         *)
(* A Connection exists while a shared_ptr to it does.  Holders follows     *)
(* every owner in the code; a call bound to a raw `this` is not one.       *)
(***************************************************************************)
EXTENDS Naturals, Sequences, FiniteSets, SequencesExt

CONSTANTS
    base,           \* the loop the Server was constructed with
    IoLoops,        \* the loops its ManagerPool may create, in order
    ThreadNums,     \* how many of them: what the user may give setThreadNum
    MaxConns,       \* bound: connections ever accepted
    Messages,       \* bound: messages a peer sends on one connection
    Fds,            \* the descriptors accept() may return
    Users,          \* threads of the user that are no loop's
    UserOps,        \* what they call: among "send" and "shutdown"
    Scripts,        \* what a callback calls on its connection, in order
    Careful,        \* Users drop a pointer only when no call of theirs is queued
    MayStop         \* the base loop may return and the Server be destroyed

Loops == {base} \cup ToSet(IoLoops)
Conns == 1 .. MaxConns      \* by the nextConnId_ in their name
Acceptor == 0               \* the listening Filed, among the active ones

ASSUME ServerAssumption ==
    /\ IoLoops \in Seq(ToSet(IoLoops) \ {base})
    /\ ThreadNums \subseteq 0 .. Len(IoLoops)
    /\ MaxConns \in Nat
    /\ Messages \in Nat
    /\ 0 \notin Fds
    /\ UserOps \subseteq {"send", "shutdown"}
    /\ Scripts \subseteq Seq({"send", "shutdown"})
    /\ Careful \in BOOLEAN
    /\ MayStop \in BOOLEAN

VARIABLES
    phase, todo, active, revents, pend, batch, kept,    \* of each loop
    backlog, nextConnId, connections,               \* Acceptor and Server
    loops, nextLoop,                                \* ManagerPool
    loopOf, fdOf, state, outbuf,                    \* Connection
    events, index, fileds,                          \* Filed and Epoller
    peer, sent, read, err, wrShut,                  \* the socket, in the kernel
    held, doing,                                    \* of each user thread
    told, delivered                                 \* history: callbacks run

turnVars == <<phase, active, revents, batch, kept>>
loopVars == <<turnVars, todo, pend>>
serverVars == <<backlog, nextConnId, connections, loops, nextLoop>>
connVars == <<loopOf, fdOf, state, outbuf>>
regVars == <<events, index, fileds>>
sockVars == <<peer, sent, read, err, wrShut>>
userVars == <<held, doing>>
history == <<told, delivered>>
outside == <<sockVars, userVars, history>>
vars == <<phase, todo, active, revents, pend, batch, kept, backlog, nextConnId,
          connections, loops, nextLoop, loopOf, fdOf, state, outbuf, events, index,
          fileds, peer, sent, read, err, wrShut, held, doing, told, delivered>>

\* Variant of Owning: connectDestroyed is bound to a raw `this` too.
OwningNotDestroyed == {"connectEstablished", "removeConnectionInLoop",
                       "writeCompleteCallback"}

\* What is queued is bound to a shared_ptr to the connection, ...
Owning == {"connectEstablished", "connectDestroyed", "removeConnectionInLoop",
           "writeCompleteCallback"}

\* ... or to its raw `this`.
Raw == {"sendinLoop", "shutdownInLoop"}

Deferred == {"connectEstablished", "connectDestroyed", "removeConnectionInLoop",
             "writeCompleteCallback", "sendinLoop", "shutdownInLoop"}
Nested == {"handleRead", "handleWrite", "handleClose", "handleError",
           "connectionCallback", "messageCallback", "closeCallback", "remove",
           "send", "shutdown"}
Calls == [op : Deferred \cup Nested, conn : Conns]
Functors == [op : Deferred, conn : Conns]
Call(o, c) == [op |-> o, conn |-> c]
Idle == Call("idle", 0)

States == {"kConnecting", "kConnected", "kDisconnecting", "kDisconnected"}

TypeOK ==
    /\ phase \in [Loops -> {"poll", "events", "functors", "exited",
                           "joining", "destroyed"}]
    /\ todo \in [Loops -> Seq(Calls)]
    /\ pend \in [Loops -> Seq(Functors)]
    /\ batch \in [Loops -> Seq(Functors)]
    /\ active \in [Loops -> SUBSET (Conns \cup {Acceptor})]
    /\ kept \in [Loops -> SUBSET Conns]
    /\ backlog \in 0 .. MaxConns
    /\ nextConnId \in 1 .. MaxConns + 1
    /\ loops \in Seq(Loops)
    /\ nextLoop = 0 \/ nextLoop \in 0 .. Len(loops) - 1
    /\ connections \subseteq Conns
    /\ loopOf \in [Conns -> Loops]
    /\ fdOf \in [Conns -> Fds \cup {0}]
    /\ state \in [Conns -> States]
    /\ events \in [Conns -> SUBSET {"in", "out"}]
    /\ index \in [Conns -> {"kNew", "kAdded", "kDeleted"}]
    /\ outbuf \in [Conns -> BOOLEAN]
    /\ revents \in [Conns -> SUBSET {"in", "out", "hup", "err"}]
    /\ fileds \in [Loops -> [Fds -> Conns \cup {0}]]
    /\ peer \in [Conns -> {"open", "fin", "rst"}]
    /\ sent \in [Conns -> 0 .. Messages]
    /\ read \in [Conns -> 0 .. Messages]
    /\ err \in [Conns -> BOOLEAN]
    /\ wrShut \in [Conns -> BOOLEAN]
    /\ held \in [Users -> SUBSET Conns]
    /\ doing \in [Users -> {Idle} \cup
                 [op : Raw \cup {"setDisconnecting"}, conn : Conns]]
    /\ told \in [Conns -> Seq(BOOLEAN)]
    /\ delivered \in [Conns -> 0 .. Messages]

Born(c) == c < nextConnId

\* A Connection exists, and its descriptor is open, while it has an owner: the
\* map of the Server; a functor waiting, or running, or run and still in
\* doPendFunc's vector; the guard of a handleEvent; the local pointer of
\* ~Server; a pointer some thread of the user keeps.
Alive(c) ==
    /\ Born(c)
    /\ \/ c \in connections
       \/ \E l \in Loops :
             \/ \E f \in ToSet(pend[l]) \cup ToSet(batch[l]) :
                   f.op \in Owning /\ f.conn = c
             \/ c \in kept[l]
             \/ /\ phase[l] \in {"events", "exited"}
                /\ \E f \in ToSet(todo[l]) : f.conn = c
       \/ \E p \in Users : c \in held[p]

FreeFds == Fds \ {fdOf[c] : c \in {d \in Conns : Alive(d)}}

Init ==
    /\ phase = [l \in Loops |-> "poll"]
    /\ todo = [l \in Loops |-> <<>>]
    /\ active = [l \in Loops |-> {}]
    /\ pend = [l \in Loops |-> <<>>]
    /\ batch = [l \in Loops |-> <<>>]
    /\ kept = [l \in Loops |-> {}]
    /\ backlog = 0
    /\ nextConnId = 1
    /\ connections = {}
    /\ loops \in {SubSeq(IoLoops, 1, n) : n \in ThreadNums}
    /\ nextLoop = 0
    /\ loopOf = [c \in Conns |-> base]
    /\ fdOf = [c \in Conns |-> 0]
    /\ state = [c \in Conns |-> "kConnecting"]
    /\ events = [c \in Conns |-> {}]
    /\ index = [c \in Conns |-> "kNew"]
    /\ outbuf = [c \in Conns |-> FALSE]
    /\ revents = [c \in Conns |-> {}]
    /\ fileds = [l \in Loops |-> [f \in Fds |-> 0]]
    /\ peer = [c \in Conns |-> "open"]
    /\ sent = [c \in Conns |-> 0]
    /\ read = [c \in Conns |-> 0]
    /\ err = [c \in Conns |-> FALSE]
    /\ wrShut = [c \in Conns |-> FALSE]
    /\ held = [p \in Users |-> {}]
    /\ doing = [p \in Users |-> Idle]
    /\ told = [c \in Conns |-> <<>>]
    /\ delivered = [c \in Conns |-> 0]

-----------------------------------------------------------------------------
(* The peers *)

PeerConnects ==
    /\ nextConnId + backlog <= MaxConns
    /\ backlog' = backlog + 1
    /\ UNCHANGED <<loopVars, nextConnId, connections, loops, nextLoop, connVars,
                   regVars, outside>>

PeerSends(c) ==
    /\ peer[c] = "open"
    /\ sent[c] < Messages
    /\ sent' = [sent EXCEPT ![c] = @ + 1]
    /\ UNCHANGED <<peer, err>>

PeerCloses(c) ==
    /\ peer[c] = "open"
    /\ peer' = [peer EXCEPT ![c] = "fin"]
    /\ UNCHANGED <<sent, err>>

PeerResets(c) ==
    /\ peer[c] # "rst"
    /\ peer' = [peer EXCEPT ![c] = "rst"]
    /\ err' = [err EXCEPT ![c] = TRUE]
    /\ UNCHANGED sent

PeerStep(c) ==
    /\ Alive(c)
    /\ PeerSends(c) \/ PeerCloses(c) \/ PeerResets(c)
    /\ UNCHANGED <<loopVars, serverVars, connVars, regVars, read, wrShut, userVars,
                   history>>

-----------------------------------------------------------------------------
(* Calls, functors and registrations *)

Stopped == phase[base] \in {"exited", "joining", "destroyed"}

\* The loop the main thread has told to quit, and waits for.
Told(l) ==
    /\ phase[base] = "joining"
    /\ \E i \in DOMAIN loops :
          /\ l = loops[i]
          /\ phase[l] # "destroyed"
          /\ \A j \in 1 .. i - 1 : phase[loops[j]] = "destroyed"

Now(l, o, c) == todo[l] # <<>> /\ Head(todo[l]) = Call(o, c)

\* The innermost call returns, having made the calls s.
become(l, s) == todo' = [todo EXCEPT ![l] = s \o Tail(@)]

queueinLoop(m, f) == pend' = [pend EXCEPT ![m] = Append(@, f)]

\* runinLoop on the loop m, as the last thing the innermost call of l does.
runinLoop(l, m, f) ==
    IF l = m
    THEN become(l, <<f>>) /\ UNCHANGED pend
    ELSE become(l, <<>>) /\ queueinLoop(m, f)

\* Filed::update and Epoller::update, after events_ has become e.
setEvents(c, e) ==
    /\ events' = [events EXCEPT ![c] = e]
    /\ index' = [index EXCEPT ![c] =
          IF @ # "kAdded" THEN "kAdded" ELSE IF e = {} THEN "kDeleted" ELSE @]
    /\ fileds' = IF index[c] = "kNew"
                 THEN [fileds EXCEPT ![loopOf[c]][fdOf[c]] = c]
                 ELSE fileds

enableReading(c) == setEvents(c, events[c] \cup {"in"})
enableWriting(c) == setEvents(c, events[c] \cup {"out"})
disableWriting(c) == setEvents(c, events[c] \ {"out"})
isWriting(c) == "out" \in events[c]

\* Variant of disableAll: it is forgotten.
disableNothing(c) == UNCHANGED regVars

disableAll(c) == setEvents(c, {})

\* What epoll_wait reports of a registered descriptor; W are those whose send
\* buffer has room.
Revents(c, W) ==
    {e \in {"in"} : e \in events[c] /\ (read[c] < sent[c] \/ peer[c] # "open")}
    \cup {e \in {"out"} : e \in events[c] /\ (c \in W \/ wrShut[c] \/ peer[c] = "rst")}
    \cup {e \in {"hup"} : peer[c] = "rst" \/ (peer[c] = "fin" /\ wrShut[c])}
    \cup {e \in {"err"} : err[c]}

Registered(l) == {c \in Conns : Alive(c) /\ loopOf[c] = l /\ index[c] = "kAdded"}

\* Epoller::epoll, with fillActiveFileds.
epoll(l) ==
    /\ phase[l] = "poll"
    /\ ~Told(l)
    /\ \E W \in SUBSET {c \in Registered(l) : isWriting(c)} :
          LET ready == {c \in Registered(l) : Revents(c, W) # {}}
          IN  /\ active' = [active EXCEPT ![l] = ready \cup
                    {a \in {Acceptor} : l = base /\ backlog > 0}]
              /\ revents' = [c \in Conns |->
                    IF c \in ready THEN Revents(c, W) ELSE revents[c]]
    /\ active'[l] # {} \/ pend[l] # <<>>
    /\ phase' = [phase EXCEPT ![l] = "events"]
    /\ UNCHANGED <<todo, pend, batch, kept, serverVars, connVars, regVars, outside>>

\* Filed::handleEvent of a connection: its four callbacks by revents_.
handleEvent(l, c) ==
    /\ phase[l] = "events"
    /\ todo[l] = <<>>
    /\ c \in active[l]
    /\ active' = [active EXCEPT ![l] = @ \ {c}]
    /\ LET r == revents[c]
           one(b, o) == IF b THEN <<Call(o, c)>> ELSE <<>>
       IN  todo' = [todo EXCEPT ![l] =
              one("hup" \in r /\ "in" \notin r, "handleClose")
              \o one("err" \in r, "handleError")
              \o one("in" \in r, "handleRead")
              \o one("out" \in r, "handleWrite")]
    /\ UNCHANGED <<phase, revents, pend, batch, kept, serverVars, connVars, regVars,
                   outside>>

\* doPendFunc: the swap, ...
swapPendFuncs(l) ==
    /\ phase[l] = "events"
    /\ todo[l] = <<>>
    /\ active[l] = {}
    /\ phase' = [phase EXCEPT ![l] = "functors"]
    /\ batch' = [batch EXCEPT ![l] = pend[l]]
    /\ pend' = [pend EXCEPT ![l] = <<>>]
    /\ UNCHANGED <<todo, active, revents, kept, serverVars, connVars, regVars, outside>>

\* ... one functor, which stays in the vector with the pointer it is bound to, ...
runFunctor(l) ==
    /\ phase[l] = "functors"
    /\ todo[l] = <<>>
    /\ batch[l] # <<>>
    /\ LET f == Head(batch[l])
       IN  /\ todo' = [todo EXCEPT ![l] = <<f>>]
           /\ batch' = [batch EXCEPT ![l] = Tail(@)]
           /\ kept' = [kept EXCEPT ![l] = @ \cup {c \in {f.conn} : f.op \in Owning}]
    /\ UNCHANGED <<phase, active, revents, pend, serverVars, connVars, regVars, outside>>

\* ... and the end, where the vector and all it owns is destroyed.
doPendFuncDone(l) ==
    /\ phase[l] = "functors"
    /\ todo[l] = <<>>
    /\ batch[l] = <<>>
    /\ phase' = [phase EXCEPT ![l] = "poll"]
    /\ kept' = [kept EXCEPT ![l] = {}]
    /\ UNCHANGED <<todo, active, revents, pend, batch, serverVars, connVars, regVars,
                   outside>>

-----------------------------------------------------------------------------
(* Acceptor and Server *)

\* Acceptor::handleRead: one accept() for one event.
accepting ==
    /\ phase[base] = "events"
    /\ todo[base] = <<>>
    /\ Acceptor \in active[base]
    /\ active' = [active EXCEPT ![base] = @ \ {Acceptor}]
    /\ UNCHANGED <<phase, revents, batch, kept, loops, state, outbuf, regVars, outside>>

\* An error of accept() is logged and nothing else is done: with no descriptor left
\* (EMFILE) the connection keeps waiting and the listening socket stays readable,
\* any other error is that of a connection that broke off, and takes it away.
acceptFails ==
    /\ accepting
    /\ \/ FreeFds = {} /\ UNCHANGED backlog
       \/ backlog' = backlog - 1
    /\ UNCHANGED <<todo, pend, nextConnId, connections, nextLoop, loopOf, fdOf>>

\* Variant of getNextLoop: one too far.
nextLoopPastEnd(n) == IF n + 1 > Len(loops) THEN 0 ELSE n + 1

\* ManagerPool::getNextLoop: round robin over the loops of the pool.
getNextLoop(n) == IF n + 1 >= Len(loops) THEN 0 ELSE n + 1

\* Otherwise Server::newConnection: the next loop of the pool, the map, and
\* connectEstablished there, at once if it is this loop.
newConnection ==
    /\ accepting
    /\ backlog' = backlog - 1
    /\ nextConnId' = nextConnId + 1
    /\ connections' = connections \cup {nextConnId}
    /\ LET c == nextConnId
           l == IF loops = <<>> THEN base ELSE loops[nextLoop + 1]
           f == Call("connectEstablished", c)
       IN  /\ \E fd \in FreeFds : fdOf' = [fdOf EXCEPT ![c] = fd]
           /\ loopOf' = [loopOf EXCEPT ![c] = l]
           /\ IF l = base
              THEN todo' = [todo EXCEPT ![base] = <<f>>] /\ UNCHANGED pend
              ELSE queueinLoop(l, f) /\ UNCHANGED todo
    /\ nextLoop' = getNextLoop(nextLoop)

\* closeCallback_, which is Server::removeConnection.
removeConnection(l, c) ==
    /\ Now(l, "closeCallback", c)
    /\ runinLoop(l, base, Call("removeConnectionInLoop", c))
    /\ UNCHANGED <<turnVars, serverVars, connVars, regVars, outside>>

removeConnectionInLoop(l, c) ==
    /\ Now(l, "removeConnectionInLoop", c)
    /\ connections' = connections \ {c}
    /\ queueinLoop(loopOf[c], Call("connectDestroyed", c))
    /\ become(l, <<>>)
    /\ UNCHANGED <<turnVars, backlog, nextConnId, loops, nextLoop, connVars, regVars,
                   outside>>

-----------------------------------------------------------------------------
(* The end: the base loop returns from loop(), the Server is destroyed, with it *)
(* the pool and, one after the other, its loops; last of all the base loop.     *)

\* The thread of l goes on to p, and nothing else happens.
enter(l, p) ==
    /\ phase' = [phase EXCEPT ![l] = p]
    /\ UNCHANGED <<todo, active, revents, pend, batch, kept, serverVars, connVars,
                   regVars, outside>>

quitBase ==
    /\ MayStop
    /\ phase[base] = "poll"
    /\ enter(base, "exited")

\* One turn of the loop of ~Server: the map gives up c, whose loop destroys it.
destroyServer(c) ==
    /\ phase[base] = "exited"
    /\ todo[base] = <<>>
    /\ c \in connections
    /\ connections' = connections \ {c}
    /\ LET f == Call("connectDestroyed", c)
       IN  IF loopOf[c] = base
           THEN todo' = [todo EXCEPT ![base] = <<f>>] /\ UNCHANGED pend
           ELSE queueinLoop(loopOf[c], f) /\ UNCHANGED todo
    /\ UNCHANGED <<turnVars, backlog, nextConnId, loops, nextLoop, connVars, regVars,
                   outside>>

ServerGone == phase[base] = "exited" /\ todo[base] = <<>> /\ connections = {}

PoolGone == \A l \in ToSet(loops) : phase[l] = "destroyed"

\* ~Manager, for one after the other: the loop is told to quit, and joined.
quitLoop ==
    /\ ServerGone
    /\ ~PoolGone
    /\ enter(base, "joining")

\* loop() returns, whatever has been queued since its last doPendFunc.
leaveLoop(l) ==
    /\ Told(l)
    /\ phase[l] = "poll"
    /\ enter(l, "exited")

\* Variant of dropped: what was queued is not destroyed.
droppedNot(l) == pend

dropped(l) == [pend EXCEPT ![l] = <<>>]

\* ~EventLoop: what is still queued is destroyed and never runs.  A program whose
\* threads call a connection of the loop after this would call a dead loop.
destroyLoop(l) ==
    /\ phase[l] = "exited"
    /\ l = base => ServerGone /\ PoolGone
    /\ \A p \in Users : \A c \in held[p] : loopOf[c] # l
    /\ phase' = [phase EXCEPT ![base] = "exited", ![l] = "destroyed"]
    /\ pend' = dropped(l)
    /\ fileds' = [fileds EXCEPT ![l] = [fd \in Fds |-> 0]]
    /\ UNCHANGED <<todo, active, revents, batch, kept, serverVars, connVars, events,
                   index, outside>>

-----------------------------------------------------------------------------
(* Connection, on its loop *)

connectEstablished(l, c) ==
    /\ Now(l, "connectEstablished", c)
    /\ state' = [state EXCEPT ![c] = "kConnected"]
    /\ enableReading(c)
    /\ become(l, <<Call("connectionCallback", c)>>)
    /\ UNCHANGED <<turnVars, pend, serverVars, loopOf, fdOf, outbuf, outside>>

\* Only ~Server destroys a connection that is still kConnected.
connectDestroyed(l, c) ==
    /\ Now(l, "connectDestroyed", c)
    /\ IF state[c] = "kConnected"
       THEN /\ state' = [state EXCEPT ![c] = "kDisconnected"]
            /\ disableAll(c)
            /\ become(l, <<Call("connectionCallback", c), Call("remove", c)>>)
       ELSE /\ become(l, <<Call("remove", c)>>)
            /\ UNCHANGED <<state, regVars>>
    /\ UNCHANGED <<turnVars, pend, serverVars, loopOf, fdOf, outbuf, outside>>

\* Variants of erased and unregistered: fileds_ keeps its entry, the index its
\* value.
erasedNot(l, c) == fileds
unregisteredNot(c) == index

erased(l, c) == [fileds EXCEPT ![l][fdOf[c]] = 0]
unregistered(c) == [index EXCEPT ![c] = "kNew"]

\* Epoller::remove, the last statement of connectDestroyed.
remove(l, c) ==
    /\ Now(l, "remove", c)
    /\ fileds' = erased(l, c)
    /\ index' = unregistered(c)
    /\ become(l, <<>>)
    /\ UNCHANGED <<turnVars, pend, serverVars, connVars, events, outside>>

\* readFd takes some of what has arrived; 0 is the end of the stream.
handleRead(l, c) ==
    /\ Now(l, "handleRead", c)
    /\ \/ /\ \E n \in read[c] + 1 .. sent[c] : read' = [read EXCEPT ![c] = n]
          /\ become(l, <<Call("messageCallback", c)>>)
          /\ UNCHANGED err
       \/ /\ read[c] = sent[c]
          /\ err[c]
          /\ err' = [err EXCEPT ![c] = FALSE]
          /\ become(l, <<Call("handleError", c)>>)
          /\ UNCHANGED read
       \/ /\ read[c] = sent[c]
          /\ ~err[c]
          /\ peer[c] # "open"
          /\ become(l, <<Call("handleClose", c)>>)
          /\ UNCHANGED <<read, err>>
    /\ UNCHANGED <<turnVars, pend, serverVars, connVars, regVars, peer, sent, wrShut,
                   userVars, history>>

\* getsockopt(SO_ERROR) clears the error; the rest is logging.
handleError(l, c) ==
    /\ Now(l, "handleError", c)
    /\ err' = [err EXCEPT ![c] = FALSE]
    /\ become(l, <<>>)
    /\ UNCHANGED <<turnVars, pend, serverVars, connVars, regVars, peer, sent, read,
                   wrShut, userVars, history>>

\* write() may succeed.
CanWrite(c) == ~wrShut[c] /\ ~err[c] /\ peer[c] # "rst"

\* Variant of allWritten: it does not go on with a shutdown.
allWrittenOnly(c) == <<>>

\* What shutdown() had to leave undone is done.
allWritten(c) ==
    IF state[c] = "kDisconnecting" THEN <<Call("shutdownInLoop", c)>> ELSE <<>>

\* handleWrite: outputBuffer_ becomes empty.
handleWriteAll(l, c) ==
    /\ Now(l, "handleWrite", c)
    /\ isWriting(c)
    /\ CanWrite(c)
    /\ outbuf' = [outbuf EXCEPT ![c] = FALSE]
    /\ disableWriting(c)
    /\ queueinLoop(l, Call("writeCompleteCallback", c)) \/ UNCHANGED pend
    /\ become(l, allWritten(c))
    /\ UNCHANGED <<turnVars, serverVars, loopOf, fdOf, state, outside>>

\* Or it is not writing any more, or write() takes a part, or it fails and takes
\* the socket's error with it.
handleWritePart(l, c) ==
    /\ Now(l, "handleWrite", c)
    /\ err' = [err EXCEPT ![c] = @ /\ ~isWriting(c)]
    /\ become(l, <<>>)
    /\ UNCHANGED <<turnVars, pend, serverVars, connVars, regVars, peer, sent, read,
                   wrShut, userVars, history>>

\* Variants of closing: the Server is not told, or the user.
closingQuietly(c) == <<Call("connectionCallback", c)>>
closingUntold(c) == <<Call("closeCallback", c)>>

\* The two callbacks are two calls of their own: user code, then the Server.
closing(c) == <<Call("connectionCallback", c), Call("closeCallback", c)>>

handleClose(l, c) ==
    /\ Now(l, "handleClose", c)
    /\ state' = [state EXCEPT ![c] = "kDisconnected"]
    /\ disableAll(c)
    /\ become(l, closing(c))
    /\ UNCHANGED <<turnVars, pend, serverVars, loopOf, fdOf, outbuf, outside>>

\* send() on the loop's own thread: sendinLoop at once.
send(l, c) ==
    /\ Now(l, "send", c)
    /\ become(l, IF state[c] = "kConnected" THEN <<Call("sendinLoop", c)>> ELSE <<>>)
    /\ UNCHANGED <<turnVars, pend, serverVars, connVars, regVars, outside>>

\* Variant of GivesUp: state_ is not looked at.
GivesUpNever(c) == FALSE

\* "disconnected, give up writing"
GivesUp(c) == state[c] = "kDisconnected"

NothingQueued(c) == ~isWriting(c) /\ ~outbuf[c]

\* It gives up, or write() takes everything: nothing to buffer, the user is told.
\* It takes a part and errno happens not to be EWOULDBLOCK: the rest is dropped.
sendAtOnce(l, c) ==
    /\ Now(l, "sendinLoop", c)
    /\ \/ GivesUp(c) /\ UNCHANGED pend
       \/ /\ ~GivesUp(c)
          /\ NothingQueued(c)
          /\ CanWrite(c)
          /\ queueinLoop(l, Call("writeCompleteCallback", c)) \/ UNCHANGED pend
    /\ become(l, <<>>)
    /\ UNCHANGED <<turnVars, serverVars, connVars, regVars, outside>>

\* Something is left for outputBuffer_, and EPOLLOUT is asked for.  A write()
\* that returns -1, for whatever reason, is of this kind.
sendBuffered(l, c) ==
    /\ Now(l, "sendinLoop", c)
    /\ ~GivesUp(c)
    /\ outbuf' = [outbuf EXCEPT ![c] = TRUE]
    /\ IF isWriting(c) THEN UNCHANGED regVars ELSE enableWriting(c)
    /\ err' = [err EXCEPT ![c] = @ /\ ~NothingQueued(c)]
    /\ become(l, <<>>)
    /\ UNCHANGED <<turnVars, pend, serverVars, loopOf, fdOf, state, peer, sent, read,
                   wrShut, userVars, history>>

\* shutdown() on the loop's own thread.
shutdown(l, c) ==
    /\ Now(l, "shutdown", c)
    /\ IF state[c] = "kConnected"
       THEN /\ state' = [state EXCEPT ![c] = "kDisconnecting"]
            /\ become(l, <<Call("shutdownInLoop", c)>>)
       ELSE become(l, <<>>) /\ UNCHANGED state
    /\ UNCHANGED <<turnVars, pend, serverVars, loopOf, fdOf, outbuf, regVars, outside>>

shutdownInLoop(l, c) ==
    /\ Now(l, "shutdownInLoop", c)
    /\ wrShut' = [wrShut EXCEPT ![c] = @ \/ ~isWriting(c)]
    /\ become(l, <<>>)
    /\ UNCHANGED <<turnVars, pend, serverVars, connVars, regVars, peer, sent, read,
                   err, userVars, history>>

-----------------------------------------------------------------------------
(* The user's code: callbacks on the loop, threads of its own *)

\* A callback makes the calls of some script and may give the pointer it has
\* been passed to a thread.
userCode(l, c) ==
    /\ \E s \in Scripts : become(l, [i \in DOMAIN s |-> Call(s[i], c)])
    /\ \E P \in SUBSET Users :
          held' = [p \in Users |-> held[p] \cup {d \in {c} : p \in P}]
    /\ UNCHANGED <<turnVars, pend, serverVars, connVars, regVars, sockVars, doing>>

\* The callback asks isConnect().
connectionCallback(l, c) ==
    /\ Now(l, "connectionCallback", c)
    /\ told' = [told EXCEPT ![c] = Append(@, state[c] = "kConnected")]
    /\ userCode(l, c)
    /\ UNCHANGED delivered

messageCallback(l, c) ==
    /\ Now(l, "messageCallback", c)
    /\ delivered' = [delivered EXCEPT ![c] = read[c]]
    /\ userCode(l, c)
    /\ UNCHANGED told

\* One that makes no call: the answer to "all written" would be another one.
writeCompleteCallback(l, c) ==
    /\ Now(l, "writeCompleteCallback", c)
    /\ become(l, <<>>)
    /\ UNCHANGED <<turnVars, pend, serverVars, connVars, regVars, outside>>

\* Bound: a user thread has one call of a kind queued per connection.
Queued(f) == \E l \in Loops : f \in ToSet(pend[l]) \cup ToSet(batch[l])
                                    \cup ToSet(todo[l])

\* A call of another thread on a connection it keeps begins with a look at state_.
\* send() goes on with the queueinLoop, ...
userCalls(p, c, op) ==
    /\ c \in held[p]
    /\ doing[p] = Idle
    /\ state[c] = "kConnected"
    /\ \/ /\ op = "send"
          /\ ~Queued(Call("sendinLoop", c))
          /\ doing' = [doing EXCEPT ![p] = Call("sendinLoop", c)]
       \/ /\ op = "shutdown"
          /\ doing' = [doing EXCEPT ![p] = Call("setDisconnecting", c)]
    /\ UNCHANGED <<loopVars, serverVars, connVars, regVars, sockVars, held, history>>

\* ... shutdown() with the assignment, and then the queueinLoop.
userSetDisconnecting(p, c) ==
    /\ doing[p] = Call("setDisconnecting", c)
    /\ state' = [state EXCEPT ![c] = "kDisconnecting"]
    /\ doing' = [doing EXCEPT ![p] = Call("shutdownInLoop", c)]
    /\ UNCHANGED <<loopVars, serverVars, loopOf, fdOf, outbuf, regVars, sockVars, held,
                   history>>

userQueues(p, c) ==
    /\ \E o \in Raw :
          /\ doing[p] = Call(o, c)
          /\ queueinLoop(loopOf[c], Call(o, c))
    /\ doing' = [doing EXCEPT ![p] = Idle]
    /\ UNCHANGED <<turnVars, todo, serverVars, connVars, regVars, sockVars, held, history>>

userDrops(p, c) ==
    /\ c \in held[p]
    /\ doing[p] = Idle
    /\ Careful => \/ phase[loopOf[c]] = "exited"
                  \/ \A o \in Raw : ~Queued(Call(o, c))
    /\ held' = [held EXCEPT ![p] = @ \ {c}]
    /\ UNCHANGED <<loopVars, serverVars, connVars, regVars, sockVars, doing, history>>

-----------------------------------------------------------------------------
\* What the thread of l does by itself.
LoopStep(l) ==
    \/ epoll(l) \/ swapPendFuncs(l) \/ runFunctor(l) \/ doPendFuncDone(l)
    \/ l = base /\ (acceptFails \/ newConnection)
    \/ \E c \in Conns :
          \/ handleEvent(l, c)
          \/ connectEstablished(l, c) \/ connectDestroyed(l, c) \/ remove(l, c)
          \/ handleRead(l, c) \/ handleWriteAll(l, c) \/ handleWritePart(l, c)
          \/ handleClose(l, c) \/ handleError(l, c)
          \/ removeConnection(l, c) \/ removeConnectionInLoop(l, c)
          \/ connectionCallback(l, c) \/ messageCallback(l, c)
          \/ writeCompleteCallback(l, c)
          \/ send(l, c) \/ sendAtOnce(l, c) \/ sendBuffered(l, c)
          \/ shutdown(l, c) \/ shutdownInLoop(l, c)
          \/ l = base /\ destroyServer(c)
    \/ l = base /\ quitLoop
    \/ leaveLoop(l) \/ destroyLoop(l)

UserGoesOn(p) == \E c \in Conns : userSetDisconnecting(p, c) \/ userQueues(p, c)

Next ==
    \/ PeerConnects
    \/ \E c \in Conns : PeerStep(c)
    \/ \E l \in Loops : LoopStep(l)
    \/ quitBase
    \/ \E p \in Users, c \in Conns :
          userDrops(p, c) \/ \E op \in UserOps : userCalls(p, c, op)
    \/ \E p \in Users : UserGoesOn(p)

Spec == Init /\ [][Next]_vars

\* Every loop keeps running, a call of a user thread goes on, and a user thread
\* eventually drops the pointers it keeps.
Fairness ==
    /\ \A l \in Loops : WF_vars(LoopStep(l))
    /\ \A p \in Users : WF_vars(UserGoesOn(p))
    /\ \A p \in Users, c \in Conns : SF_vars(userDrops(p, c))

FairSpec == Spec /\ Fairness

\* The peers read: room in a send buffer is reported again and again, and again
\* and again what is left fits.
epollWritable(l, c) == epoll(l) /\ c \in active'[l] /\ "out" \in revents'[c]
PeersRead ==
    \A c \in Conns :
        /\ SF_vars(\E l \in Loops : epollWritable(l, c))
        /\ SF_vars(\E l \in Loops : handleWriteAll(l, c))

ReadSpec == FairSpec /\ PeersRead

-----------------------------------------------------------------------------
(* Properties *)

\* No loop is about to call into, or to handle an event of, a freed connection.
CallsAlive ==
    \A l \in Loops :
        /\ \A f \in ToSet(todo[l]) : Alive(f.conn)
        /\ \A c \in active[l] \ {Acceptor} : Alive(c)

\* A freed connection has left its Epoller: what is found in fileds_ is alive,
\* and nothing was destroyed while registered, so that its descriptor may be
\* given to the next connection.
DeadForgotten ==
    \A c \in Conns :
        (Born(c) /\ ~Alive(c)) =>
            /\ index[c] = "kNew" \/ phase[loopOf[c]] = "destroyed"
            /\ \A l \in Loops, fd \in Fds : fileds[l][fd] # c

\* fileds_ and index_ agree, across the reuse of descriptors: the assertions of
\* Epoller::update hold, and remove() erases no other connection's entry.
FiledsAgree ==
    \A c \in Conns : (Alive(c) /\ phase[loopOf[c]] # "destroyed") =>
        ((index[c] # "kNew") <=> (fileds[loopOf[c]][fdOf[c]] = c))

\* A connection that has been announced ends unannounced in two cases only: the
\* Server is destroyed while a shutdown() of it is under way, or its loop was gone
\* before the loop ran what ~Server had queued for it.
UntoldEnds ==
    \A c \in Conns :
        (Born(c) /\ ~Alive(c) /\ told[c] # <<TRUE, FALSE>>) =>
            /\ Stopped
            /\ \/ told[c] = <<TRUE>> /\ state[c] = "kDisconnecting"
               \/ loopOf[c] # base /\ phase[loopOf[c]] = "destroyed"

\* ~Server leaks nothing: a connection that outlives its loop waits for the base loop
\* only, whose end frees it with all that is left.
NothingLeaked ==
    \A c \in Conns : Alive(c) =>
        /\ phase[base] # "destroyed"
        /\ phase[loopOf[c]] = "destroyed" =>
              Call("removeConnectionInLoop", c) \in ToSet(pend[base])

\* The promise made to the user: connected, messages, disconnected, freed.
life == [c \in Conns |->
            IF ~Born(c) THEN "new"
            ELSE IF ~Alive(c) THEN "gone"
            ELSE IF told[c] = <<>> THEN "new"
            ELSE IF told[c] = <<TRUE>> THEN "up"
            ELSE IF told[c] = <<TRUE, FALSE>> THEN "down" ELSE "wrong"]
Promise == INSTANCE ConnectionLife WITH stopped <- Stopped
ImplementsLife == Promise!Spec

\* A connection whose peer is gone is freed, whether or not the program stops.
GoneIsFreed ==
    \A c \in Conns : (Alive(c) /\ peer[c] # "open") ~> ~Alive(c)

\* After shutdown() the sending side is closed, once what was sent before has
\* left outputBuffer_, unless the peer or the connection is gone first.
ShutdownCompletes ==
    \A c \in Conns : (Alive(c) /\ state[c] = "kDisconnecting") ~>
                        (wrShut[c] \/ peer[c] # "open" \/ ~Alive(c))

\* When the base loop has returned, everything goes: no connection is leaked in a
\* queue nobody runs, and the threads of the pool can be joined.
StopFrees ==
    Stopped ~> (phase[base] = "destroyed" /\ \A c \in Conns : ~Alive(c))

\* What the comments of the source say and the code does not always do.

\* "disconnected, give up writing": a connection whose user has been told of its
\* end is not made to wait for EPOLLOUT again.
ClosedGivesUpWriting ==
    \A c \in Conns : told[c] = <<TRUE, FALSE>> => ~isWriting(c)
=============================================================================
