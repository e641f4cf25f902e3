----------------------------- MODULE ServerLife -----------------------------
(*****************************************************************************)
(* What the user of a Server is told of a connection, for every number of    *)
(* loops, connections, descriptors and threads, for every script the         *)
(* callbacks run: Server.tla implements ConnectionLife.                      *)
(*                                                                           *)
(* Story is the invariant.  The connections are looked at one by one: most   *)
(* steps spare the tale of a connection (Spares), those that turn it are     *)
(* the accept, connectEstablished, handleClose, connectDestroyed and the     *)
(* connection callback itself.                                               *)
(*****************************************************************************)
EXTENDS ServerProofs

-----------------------------------------------------------------------------
(* The invariant. *)

\* The loop of the connection is in the middle of the call o on it.
Doing(o, c) == Call(o, c) \in Todo(loopOf[c])

\* The connection callback that announces the connection, or its end, is due.
Tells(c) == Doing("connectionCallback", c)

\* The user has been told of the connection, and of nothing more ...
Live(c) == told[c] = <<TRUE>> /\ ~Tells(c)

\* ... or of its end, or is just being told.
Over(c) == told[c] = <<TRUE, FALSE>> \/ (told[c] = <<TRUE>> /\ Tells(c))

\* The loop of the connection was destroyed with the pool.
Gone(c) == loopOf[c] # base /\ phase[loopOf[c]] = "destroyed"

\* Only what is at the top of the stack can be one of these: each is made by the call
\* it replaces, or is where doPendFunc or handleEvent starts.
Topmost == Once \cup {"connectionCallback", "messageCallback", "handleClose", "sendinLoop"}

\* The calls s can be a stack: handleEvent calls handleError before handleRead, and
\* handleClose only where it does not call handleRead.
Stack(s) == \A i \in DOMAIN s :
    /\ s[i].op \in Topmost => i = 1
    /\ s[i].op = "handleRead" => i = 1 \/ (i = 2 /\ s[1].op = "handleError")
Stacks == \A l \in Loops : Stack(todo[l])

\* A loop is destroyed by ~Server, or after it.
Stops == \A l \in Loops : phase[l] = "destroyed" => Stopped

\* What the user has not been told of, it does not have, and it will be told of it
\* unless the loop is gone.
Announcing(c) == told[c] = <<>> =>
    /\ ~IsHeld(c)
    /\ Born(c) => Awaited(c) \/ Tells(c) \/ Gone(c)
    /\ Tells(c) => state[c] = "kConnected"

\* What the user believes connected has an owner, until the program stops: then
\* connectDestroyed may find it in kDisconnecting, or never be run.
Lasting(c) == Live(c) =>
    /\ state[c] \in {"kConnected", "kDisconnecting"}
    /\ Kept(c) \/ (Stopped /\ (state[c] = "kDisconnecting" \/ Gone(c)))

\* Where the end has been told, or is being told, nothing is asked of Epoller any
\* more, and `remove` or removeConnection follows the callback.
Ending(c) == Over(c) =>
    /\ state[c] # "kConnected"
    /\ Sends => state[c] = "kDisconnected"
    /\ events[c] = {}
    /\ index[c] # "kAdded" \/ Doing("remove", c)
    /\ Doing("sendinLoop", c) => Sends
    /\ IF told[c] = <<TRUE>> THEN Doing("closeCallback", c) \/ Doing("remove", c) ELSE ~Tells(c)

\* The callbacks run in order, and the Server takes leave of a connection after the
\* user, or because it stops.
Heard(c) ==
    /\ told[c] \in {<<>>, <<TRUE>>, <<TRUE, FALSE>>}
    /\ ~Born(c) \/ Awaited(c) => told[c] = <<>>
    /\ Doing("closeCallback", c) => Over(c)
    /\ Removal(c) \in Waiting(base) \cup Todo(base) => told[c] = <<TRUE, FALSE>>
    /\ CD(c) \in Waiting(loopOf[c]) \cup Todo(loopOf[c]) =>
          told[c] = <<TRUE, FALSE>> \/ Stopped
    /\ CD(c) \in Waiting(base) => told[c] = <<TRUE, FALSE>>

\* An event of the connection is about to be handled.
Near(c) == c \in active[loopOf[c]] \/ Doing("handleRead", c) \/ Doing("handleClose", c)

\* Events are handled of connections the user believes connected, one event after the
\* other, and not in doPendFunc or ~Server, where `remove` runs.
Watched(c) ==
    /\ Near(c) => Live(c) /\ index[c] = "kAdded" /\ phase[loopOf[c]] = "events"
    /\ c \in active[loopOf[c]] => \A f \in Todo(loopOf[c]) : f.conn # c
    /\ Doing("remove", c) => phase[loopOf[c]] # "events"

\* The message callback has something to deliver.
Fed(c) ==
    /\ Doing("messageCallback", c) => Live(c) /\ Kept(c) /\ delivered[c] < read[c]
    /\ delivered[c] <= read[c]

Tale(c) == Announcing(c) /\ Lasting(c) /\ Ending(c) /\ Heard(c) /\ Watched(c) /\ Fed(c)
Story == Stacks /\ Stops /\ \A c \in Conns : Tale(c)

-----------------------------------------------------------------------------
(* A step that spares the tale of a connection. *)

\* The step frees the connection at most, and changes nothing its tale turns on.
Spares(d) ==
    /\ told'[d] = told[d] /\ loopOf'[d] = loopOf[d] /\ (Born(d)' <=> Born(d))
    /\ Alive(d)' => Alive(d)
    /\ Tells(d)' <=> Tells(d)
    /\ \/ state'[d] = state[d]
       \/ told[d] # <<>> /\ state'[d] = "kDisconnecting" /\ (Sends => Live(d))
    /\ events'[d] = events[d] \/ Live(d)
    /\ Live(d) \/ index'[d] = "kNew" \/
          (index'[d] = index[d] /\ (Doing("remove", d) => Doing("remove", d)'))
    /\ Near(d)' => \/ Near(d) /\ index'[d] = index[d] /\ phase'[loopOf[d]] = phase[loopOf[d]]
                   \/ Live(d) /\ index'[d] = "kAdded" /\ phase'[loopOf[d]] = "events"
    /\ d \in active'[loopOf[d]] => \A f \in Todo(loopOf[d])' : f.conn # d
    /\ Doing("remove", d)' => phase'[loopOf[d]] # "events"
    /\ Doing("messageCallback", d)' => Live(d) /\ Kept(d)' /\ delivered'[d] < read'[d]
    /\ delivered'[d] <= read'[d]
    /\ Doing("closeCallback", d)' => Doing("closeCallback", d)
    /\ Tells(d) => \A q \in {"closeCallback", "remove"} : Doing(q, d) => Doing(q, d)'
    /\ Doing("sendinLoop", d)' => Doing("sendinLoop", d) \/ Sends \/ ~Over(d)
    /\ Awaited(d) => Awaited(d)' \/ Gone(d)'
    /\ Awaited(d)' => Awaited(d)
    /\ Removal(d) \in (Waiting(base) \cup Todo(base))' =>
          Removal(d) \in Waiting(base) \cup Todo(base) \/ told[d] = <<TRUE, FALSE>>
    /\ CD(d) \in (Waiting(loopOf[d]) \cup Todo(loopOf[d]))' =>
          CD(d) \in Waiting(loopOf[d]) \cup Todo(loopOf[d]) \/ told[d] = <<TRUE, FALSE>> \/ Stopped'
    /\ CD(d) \in Waiting(base)' => CD(d) \in Waiting(base) \/ told[d] = <<TRUE, FALSE>>
    /\ Live(d) /\ Kept(d) =>
          Kept(d)' \/ (Stopped' /\ (state[d] = "kDisconnecting" \/ Gone(d)'))
    /\ IsHeld(d)' => IsHeld(d) \/ told[d] # <<>>
    /\ Stopped => Stopped'
    /\ Gone(d) => Gone(d)'

\* The three things the user may have been told are three.
LEMMA ThreeTales ==
  <<>> # <<TRUE>> /\ <<>> # <<TRUE, FALSE>> /\ <<TRUE>> # <<TRUE, FALSE>>
<1>1. Len(<<>>) = 0 /\ Len(<<TRUE>>) = 1 /\ Len(<<TRUE, FALSE>>) = 2
  OBVIOUS
<1> QED BY <1>1

\* Such a step keeps the tale.
LEMMA TaleSpared == ASSUME NEW d, Tale(d), Spares(d) PROVE Tale(d)'
<1> USE DEF Tale
<1>0. /\ \A o : Doing(o, d)' <=> Call(o, d) \in Todo(loopOf[d])'
      /\ told'[d] = told[d] /\ loopOf'[d] = loopOf[d] /\ (Tells(d)' <=> Tells(d))
  BY DEF Spares, Doing, Call
<1>1. (Live(d)' <=> Live(d)) /\ (Over(d)' <=> Over(d)) /\ (Over(d) => ~Live(d))
  BY <1>0, ThreeTales DEF Live, Over
<1>2. Announcing(d)'
  BY <1>0 DEF Spares, Announcing
<1>3. Lasting(d)'
  BY <1>0, <1>1 DEF Spares, Lasting
<1>4. Ending(d)'
  <2> SUFFICES ASSUME Over(d)
      PROVE  /\ state'[d] # "kConnected"
             /\ Sends => state'[d] = "kDisconnected"
             /\ events'[d] = {}
             /\ index'[d] # "kAdded" \/ Doing("remove", d)'
             /\ Doing("sendinLoop", d)' => Sends
             /\ IF told[d] = <<TRUE>> THEN Doing("closeCallback", d)' \/ Doing("remove", d)'
                                      ELSE ~Tells(d)
    BY <1>0, <1>1 DEF Ending, Sends
  <2>1. ~Live(d) /\ Ending(d)
    BY <1>1
  <2>2. told[d] = <<TRUE>> => Tells(d)
    BY ThreeTales DEF Over
  <2> QED BY <2>1, <2>2 DEF Spares, Ending
<1>5. Heard(d)'
  BY <1>0, <1>1 DEF Spares, Heard, CD, Removal
<1>6. Watched(d)'
  BY <1>0, <1>1 DEF Spares, Watched
<1>7. Fed(d)'
  BY <1>0, <1>1 DEF Spares, Fed
<1> QED BY <1>2, <1>3, <1>4, <1>5, <1>6, <1>7

-----------------------------------------------------------------------------
(* The stacks. *)

\* What is under the innermost call.
LEMMA Beneath ==
  ASSUME Parts, Stacks, NEW l \in Loops, NEW o, NEW c, Now(l, o, c)
  PROVE  /\ \A f \in Rest(l) : f.op \notin Topmost /\ (f.op = "handleRead" => o = "handleError")
         /\ \A f \in Todo(l) : f.op \in Topmost => f = Call(o, c)
<1> DEFINE t == Tail(todo[l])
<1>1. todo[l] \in Seq(Calls) /\ todo[l] # <<>> /\ todo[l][1] = Call(o, c)
  BY DEF Parts, TodoTypes, Now
<1>2. \A i \in DOMAIN t : t[i] = todo[l][i + 1] /\ i + 1 \in DOMAIN todo[l] /\ i + 1 # 1
  BY <1>1
<1>3. Stack(todo[l])
  BY DEF Stacks
<1> HIDE DEF t
<1>4. \A i \in DOMAIN t : t[i].op \notin Topmost /\ (t[i].op = "handleRead" => o = "handleError")
  BY <1>1, <1>2, <1>3, CallEq DEF Stack
<1>5. Todo(l) = {Call(o, c)} \cup Rest(l)
  BY <1>1, SetOfTail DEF Todo, Rest
<1> QED BY <1>4, <1>5 DEF Rest, ToSet, t

\* A call that makes the calls s.
LEMMA StacksCalled ==
  ASSUME Parts, Stacks, NEW l \in Loops, NEW o, NEW c, NEW s \in Seq(Calls), Now(l, o, c),
         become(l, s), Stack(s), \A i \in DOMAIN s : s[i].op # "handleRead",
         s # <<>> => o # "handleError"
  PROVE  Stacks'
<1> DEFINE t == Tail(todo[l])
<1>1. todo \in [Loops -> Seq(Calls)] /\ todo[l] # <<>> /\ todo[l][1] = Call(o, c)
  BY DEF Parts, TodoTypes, Now
<1>2. /\ t \in Seq(Calls) /\ todo'[l] = s \o t /\ \A m \in Loops \ {l} : todo'[m] = todo[m]
      /\ \A i \in DOMAIN t : /\ t[i] = todo[l][i + 1] /\ i \in Nat \ {0}
                             /\ i + 1 \in DOMAIN todo[l] /\ i + 1 # 1 /\ (i + 1 = 2 => i = 1)
  BY <1>1 DEF become
<1>3. \A m \in Loops : Stack(todo[m])
  BY DEF Stacks
<1> HIDE DEF t
<1>4. \A i \in DOMAIN t : t[i].op \notin Topmost /\
                          (t[i].op = "handleRead" => i = 1 /\ o = "handleError")
  BY <1>1, <1>2, <1>3, CallEq DEF Stack
<1>5. Stack(s \o t)
  <2> SUFFICES ASSUME NEW i \in DOMAIN (s \o t)
      PROVE  /\ (s \o t)[i].op \in Topmost => i = 1
             /\ (s \o t)[i].op = "handleRead" => i = 1
    BY DEF Stack
  <2>1. CASE i \in DOMAIN s
    <3>1. (s \o t)[i] = s[i]
      BY <1>2, <2>1
    <3> QED BY <2>1, <3>1 DEF Stack
  <2>2. CASE i \notin DOMAIN s
    <3>1. /\ i - Len(s) \in DOMAIN t /\ (s \o t)[i] = t[i - Len(s)]
          /\ s = <<>> => i = i - Len(s)
      BY <1>2, <2>2
    <3> QED BY <1>4, <3>1
  <2> QED BY <2>1, <2>2
<1> QED BY <1>2, <1>3, <1>5 DEF Stacks

\* A loop that starts on the calls s.
LEMMA StacksStarted ==
  ASSUME Parts, Stacks, NEW l \in Loops, NEW s, todo' = [todo EXCEPT ![l] = s], Stack(s)
  PROVE  Stacks'
BY DEF Stacks, Parts, TodoTypes

-----------------------------------------------------------------------------
(* The calls. *)

\* The user has been told of both, and of nothing.
Left(c) == told[c] = <<TRUE, FALSE>>
Unaware(c) == told[c] = <<>>

\* What is known while a call runs.
LEMMA Running ==
  ASSUME Parts, IInv, Story, NEW l \in Loops, NEW o, NEW c \in Conns, Now(l, o, c), NEW S, NEW Q,
         Calling(l, o, c, S, Q)
  PROVE  /\ InCall(l, o, c) /\ loopOf[c] \in Loops /\ phase[l] # "destroyed" /\ Tale(c)
         /\ o # "removeConnectionInLoop" => loopOf[c] = l
         /\ c \notin active[loopOf[c]]
         /\ o \notin {"connectEstablished", "connectionCallback"} =>
               ~Unaware(c) /\ ~Tells(c) /\ (Live(c) \/ Left(c))
         /\ o \in {"closeCallback", "removeConnectionInLoop"} => Left(c)
<1>1. InCall(l, o, c) /\ Tale(c)
  BY Called DEF Story
<1>2. loopOf[c] \in Loops /\ phase[l] # "destroyed" /\ Call(o, c) \in Todo(l)
  BY <1>1 DEF InCall
<1>3. o # "removeConnectionInLoop" => loopOf[c] = l
  BY <1>1 DEF InCall
<1>4. o = "removeConnectionInLoop" => told[c] = <<TRUE, FALSE>>
  <2>1. o = "removeConnectionInLoop" => l = base
    BY <1>2, CallEq DEF IInv, Known, Place
  <2> QED BY <1>1, <1>2, <2>1 DEF Tale, Heard, Removal
<1>5. c \notin active[loopOf[c]]
  <2>1. CASE loopOf[c] = l
    BY <1>1, <1>2, <2>1, CallEq DEF Tale, Watched
  <2>2. CASE o = "removeConnectionInLoop"
    BY <1>1, <1>4, <2>2, ThreeTales DEF Tale, Watched, Near, Live
  <2> QED BY <1>3, <2>1, <2>2
<1>6. ASSUME o \notin {"connectEstablished", "connectionCallback"} PROVE told[c] # <<>> /\ ~Tells(c)
  <2>1. CASE o = "removeConnectionInLoop"
    BY <1>1, <1>4, <2>1, ThreeTales DEF Tale, Ending, Over
  <2>2. CASE loopOf[c] = l
    <3>1. ~Tells(c)
      BY <1>6, <2>2, Beneath, CallEq DEF Story, Tells, Doing, Topmost
    <3>2. ~Awaited(c) /\ ~Gone(c) /\ Born(c)
      BY <1>1, <1>2, <1>6, <2>2 DEF InCall, Gone
    <3> QED BY <1>1, <3>1, <3>2 DEF Tale, Announcing
  <2> QED BY <1>3, <2>1, <2>2
<1>7. told[c] \in {<<>>, <<TRUE>>, <<TRUE, FALSE>>}
  BY <1>1 DEF Tale, Heard
<1>8. o = "closeCallback" => told[c] = <<TRUE, FALSE>>
  BY <1>1, <1>2, <1>3, <1>6 DEF Tale, Heard, Doing, Over
<1> QED BY <1>1, <1>2, <1>3, <1>4, <1>5, <1>6, <1>7, <1>8 DEF Live, Left, Unaware

\* A call spares the tale of every other connection.
LEMMA OthersSpared ==
  ASSUME Parts, IInv, Story, NEW l \in Loops, NEW o, NEW c \in Conns, NEW S, NEW Q,
         Calling(l, o, c, S, Q), NEW d \in Conns, d # c,
         told'[d] = told[d], state'[d] = state[d], events'[d] = events[d], index'[d] = index[d],
         read'[d] = read[d], delivered'[d] = delivered[d]
  PROVE  Spares(d)
<1>1. /\ phase' = phase /\ active' = active /\ loopOf' = loopOf /\ (Born(d)' <=> Born(d))
      /\ loopOf[d] \in Loops /\ base \in Loops /\ Tale(d)
  BY DEF Calling, Born, Parts, ConnTypes, Loops, Story
<1>2. \A m \in Loops : \A q : Call(q, d) \in Todo(m)' <=> Call(q, d) \in Todo(m)
  BY CallEq DEF Calling
<1>3. \A m \in Loops : \A q : Call(q, d) \in Waiting(m)' <=> Call(q, d) \in Waiting(m)
  BY CallEq DEF Calling, Waiting, Batch
<1>4. \A q : Doing(q, d)' <=> Doing(q, d)
  BY <1>1, <1>2 DEF Doing, Call
<1>5. /\ (Tells(d)' <=> Tells(d)) /\ (Gone(d)' <=> Gone(d)) /\ (Stopped' <=> Stopped)
      /\ (Awaited(d)' <=> Awaited(d)) /\ (Near(d)' <=> Near(d))
  BY <1>1, <1>2, <1>3, <1>4 DEF Tells, Gone, Stopped, Awaited, Near, CE
<1>6. Kept(d) => Kept(d)'
  BY KeptCarried
<1>7. Alive(d)' => Alive(d)
  BY CallAlive
<1>8. IsHeld(d)' => IsHeld(d)
  BY DEF IsHeld, Calling
<1>9. d \in active[loopOf[d]] => \A f \in Todo(loopOf[d])' : f.conn # d
  <2>1. \A f \in Todo(loopOf[d])' : f \in Todo(loopOf[d]) \/ f.conn = c
    BY <1>1 DEF Calling
  <2> QED BY <1>1, <2>1 DEF Tale, Watched
<1>10. Doing("messageCallback", d)' => Live(d) /\ Kept(d)' /\ delivered'[d] < read'[d]
  BY <1>1, <1>4, <1>6 DEF Tale, Fed
<1>11. delivered'[d] <= read'[d] /\ (Doing("remove", d)' => phase'[loopOf[d]] # "events")
  BY <1>1, <1>4 DEF Tale, Fed, Watched
<1> HIDE DEF Tale
<1> QED BY <1>1, <1>2, <1>3, <1>4, <1>5, <1>6, <1>7, <1>8, <1>9, <1>10, <1>11
      DEF Spares, CD, Removal

\* What a call on which the tale does not turn makes, queues and changes.
Quiet(l, o, c, s, Q) ==
    /\ o \notin {"connectEstablished", "connectDestroyed", "connectionCallback", "handleClose"}
    /\ told' = told
    /\ \A d \in Conns \ {c} : /\ state'[d] = state[d] /\ events'[d] = events[d]
                              /\ index'[d] = index[d] /\ read'[d] = read[d]
                              /\ delivered'[d] = delivered[d]
    /\ \/ state'[c] = state[c]
       \/ state[c] = "kConnected" /\ state'[c] = "kDisconnecting"
    /\ \/ events'[c] = events[c] /\ index'[c] = index[c] /\ o # "remove"
       \/ events'[c] = events[c] /\ index'[c] = "kNew" /\ o = "remove"
       \/ ~Over(c) /\ o \notin {"handleRead", "handleError"}
    /\ delivered'[c] <= read'[c]
    /\ s # <<>> => o # "handleError"
    /\ \A i \in DOMAIN s :
          \/ s[i].op \in {"handleError", "shutdownInLoop", "send", "shutdown"}
          \/ s[i].op = "removeConnectionInLoop" /\ o = "closeCallback"
          \/ s[i].op = "sendinLoop" /\ state[c] = "kConnected" /\ i = 1
          \/ s[i].op = "handleClose" /\ o = "handleRead" /\ i = 1
          \/ s[i].op = "messageCallback" /\ o = "handleRead" /\ delivered'[c] < read'[c] /\ i = 1
    /\ \A f \in Q : \/ f.op = "writeCompleteCallback"
                    \/ f.op = "removeConnectionInLoop" /\ o = "closeCallback"
                    \/ f.op = "connectDestroyed" /\ o = "removeConnectionInLoop"
    /\ o # "messageCallback" => held' = held

\* Such a call spares the tale of its own connection, too.
LEMMA OwnSpared ==
  ASSUME Parts, IInv, Story, NEW l \in Loops, NEW o, NEW c \in Conns, NEW s \in Seq(Calls), NEW Q,
         Now(l, o, c), Calling(l, o, c, ToSet(s), Q), Quiet(l, o, c, s, Q)
  PROVE  Spares(c)
<1> DEFINE S == ToSet(s)
<1>0. PICK L : L = loopOf[c]
  OBVIOUS
<1>1. /\ InCall(l, o, c) /\ L \in Loops /\ phase[l] # "destroyed" /\ Tale(c)
      /\ o # "removeConnectionInLoop" => L = l
      /\ c \notin active[L] /\ told[c] # <<>> /\ ~Tells(c)
      /\ Live(c) \/ told[c] = <<TRUE, FALSE>>
      /\ o \in {"closeCallback", "removeConnectionInLoop"} => told[c] = <<TRUE, FALSE>>
  <2>1. o \notin {"connectEstablished", "connectionCallback"} /\ Calling(l, o, c, S, Q)
    BY DEF Quiet
  <2> HIDE DEF S
  <2>2. /\ InCall(l, o, c) /\ loopOf[c] \in Loops /\ phase[l] # "destroyed" /\ Tale(c)
        /\ o # "removeConnectionInLoop" => loopOf[c] = l
        /\ c \notin active[loopOf[c]]
    BY <2>1, Running
  <2>3. o \notin {"connectEstablished", "connectionCallback"} =>
           ~Unaware(c) /\ ~Tells(c) /\ (Live(c) \/ Left(c))
    BY <2>1, Running
  <2>4. o \in {"closeCallback", "removeConnectionInLoop"} => Left(c)
    BY <2>1, Running
  <2> QED BY <1>0, <2>1, <2>2, <2>3, <2>4 DEF Left, Unaware
<1>2. /\ phase' = phase /\ active' = active /\ loopOf' = loopOf /\ (Born(c)' <=> Born(c))
      /\ base \in Loops /\ Call(o, c) \in Todo(l)
  BY DEF Calling, Born, Loops
<1>3. \A f \in S : \/ f.op \in {"handleError", "shutdownInLoop", "send", "shutdown"}
                   \/ f.op = "removeConnectionInLoop" /\ o = "closeCallback"
                   \/ f.op = "sendinLoop" /\ state[c] = "kConnected"
                   \/ f.op = "handleClose" /\ o = "handleRead"
                   \/ f.op = "messageCallback" /\ o = "handleRead" /\ delivered'[c] < read'[c]
  BY DEF Quiet, ToSet
<1>4. /\ \A f \in Rest(l) : f.op \notin Topmost /\ (f.op = "handleRead" => o = "handleError")
      /\ Todo(l)' = S \cup Rest(l) /\ Rest(l) \subseteq Todo(l)
      /\ \A m \in Loops \ {l} : Todo(m)' = Todo(m)
  BY Beneath DEF Story, Calling
<1> HIDE DEF S
<1>5. ASSUME NEW q, Doing(q, c)'
      PROVE  \/ Doing(q, c) /\ (L = l => q \notin Topmost /\ (q = "handleRead" => o = "handleError"))
             \/ q \in {"handleError", "shutdownInLoop", "send", "shutdown", "removeConnectionInLoop"}
             \/ q = "sendinLoop" /\ state[c] = "kConnected"
             \/ q = "handleClose" /\ o = "handleRead"
             \/ q = "messageCallback" /\ o = "handleRead" /\ delivered'[c] < read'[c]
  <2>1. Call(q, c) \in Todo(L)'
    BY <1>0, <1>2, <1>5 DEF Doing, Call
  <2>2. CASE Call(q, c) \in S
    BY <1>0, <1>3, <2>2, CallEq
  <2>3. CASE Call(q, c) \in Rest(l) /\ L = l
    <3>1. q \notin Topmost /\ (q = "handleRead" => o = "handleError")
      BY <1>0, <1>4, <2>3, CallEq
    <3> QED BY <1>0, <1>4, <2>3, <3>1 DEF Doing
  <2>4. CASE Call(q, c) \in Todo(L) /\ L # l
    BY <1>0, <2>4 DEF Doing
  <2>5. L = l => Call(q, c) \in S \cup Rest(l)
    BY <1>0, <1>4, <2>1
  <2>6. L # l => Call(q, c) \in Todo(L)
    BY <1>0, <1>1, <1>4, <2>1
  <2> QED BY <2>2, <2>3, <2>4, <2>5, <2>6
<1>6. /\ ~Tells(c)' /\ (Gone(c)' <=> Gone(c)) /\ (Stopped' <=> Stopped)
  BY <1>0, <1>1, <1>2, <1>5 DEF Tells, Gone, Stopped, Topmost
<1>7. Kept(c) => Kept(c)'
  BY KeptCarried DEF Quiet
<1>8. Alive(c)' => Alive(c)
  BY CallAlive
<1>9. told'[c] = told[c] /\ o # "connectEstablished" /\ (Over(c) => ~Live(c))
  BY <1>0, <1>1, ThreeTales DEF Quiet, Over, Live
<1>10. /\ ~Awaited(c)
       /\ Awaited(c)' => Awaited(c)
  <2>1. ~Awaited(c)
    BY <1>0, <1>1, <1>9 DEF InCall
  <2>2. CE(c) \notin S \cup Q
    BY CallEq DEF Calling, CE, Once, S
  <2> QED BY <1>0, <1>1, <1>2, <1>4, <2>1, <2>2 DEF Awaited, Calling, Waiting, Batch, CE
<1>11. Near(c)' => Near(c) /\ index'[c] = index[c]
  <2>1. CASE L = l
    <3>1. Near(c)' => \/ Doing("handleRead", c) /\ o = "handleError"
                      \/ o = "handleRead"
      BY <1>0, <1>1, <1>2, <1>5, <2>1 DEF Near, Topmost
    <3>2. o = "handleRead" => Near(c)
      BY <1>0, <1>2, <2>1 DEF Near, Doing
    <3> QED BY <3>1, <3>2 DEF Quiet, Near
  <2>2. CASE o = "removeConnectionInLoop"
    <3>1. ~Near(c)
      BY <1>0, <1>1, <2>2, ThreeTales DEF Tale, Watched, Live
    <3> QED BY <1>0, <1>1, <1>2, <1>5, <2>2, <3>1 DEF Near
  <2> QED BY <1>0, <1>1, <2>1, <2>2
<1>12. Doing("remove", c)' => Doing("remove", c) /\ phase'[L] # "events"
  BY <1>0, <1>1, <1>2, <1>5 DEF Tale, Watched
<1>13. Doing("remove", c) /\ o # "remove" => Doing("remove", c)'
  BY <1>0, <1>1, <1>2, <1>4, CallEq DEF Doing, Calling, Call
<1>14. Doing("messageCallback", c)' => Live(c) /\ Kept(c)' /\ delivered'[c] < read'[c]
  <2>1. CASE L = l /\ o = "handleRead"
    <3>1. Live(c) /\ Kept(c)
      BY <1>0, <1>1, <1>2, <2>1, CallEq DEF Tale, Watched, Near, Doing, IInv, InUse, Touching
    <3> QED BY <1>0, <1>5, <1>7, <2>1, <3>1 DEF Topmost
  <2>2. CASE L = l /\ o # "handleRead"
    BY <1>0, <1>5, <2>2 DEF Topmost
  <2>3. CASE L # l
    <3>1. told[c] = <<TRUE, FALSE>> /\ o # "handleRead"
      BY <1>0, <1>1, <2>3
    <3> QED BY <1>0, <1>1, <1>5, <3>1, ThreeTales DEF Tale, Fed, Live
  <2> QED BY <2>1, <2>2, <2>3
<1>15. Doing("sendinLoop", c)' => Doing("sendinLoop", c) \/ ~Over(c)
  <2>1. Doing("sendinLoop", c)' => Doing("sendinLoop", c) \/ state[c] = "kConnected"
    BY <1>0, <1>5
  <2> QED BY <1>0, <1>1, <2>1 DEF Tale, Ending
<1>16. /\ Removal(c) \in (Waiting(base) \cup Todo(base))' =>
             Removal(c) \in Waiting(base) \cup Todo(base) \/ told[c] = <<TRUE, FALSE>>
       /\ CD(c) \in (Waiting(L) \cup Todo(L))' =>
             CD(c) \in Waiting(L) \cup Todo(L) \/ told[c] = <<TRUE, FALSE>>
       /\ CD(c) \in Waiting(base)' => CD(c) \in Waiting(base) \/ told[c] = <<TRUE, FALSE>>
  <2>1. \A f \in S \cup Q : f = Removal(c) \/ f = CD(c) => told[c] = <<TRUE, FALSE>>
    <3>1. \A f \in S \cup Q : f.op \in {"removeConnectionInLoop", "connectDestroyed"} =>
             told[c] = <<TRUE, FALSE>>
      BY <1>0, <1>1, <1>3 DEF Quiet
    <3>2. Removal(c).op = "removeConnectionInLoop" /\ CD(c).op = "connectDestroyed"
      BY CallEq DEF Removal, CD
    <3> QED BY <3>1, <3>2
  <2>2. \A m \in Loops : Todo(m)' \subseteq Todo(m) \cup S /\ Waiting(m)' \subseteq Waiting(m) \cup Q
    BY <1>0, <1>4 DEF Calling, Waiting, Batch
  <2> QED BY <1>0, <1>1, <1>2, <2>1, <2>2 DEF CD, Removal
<1>17. /\ state'[c] = state[c] \/ (state'[c] = "kDisconnecting" /\ Live(c))
       /\ events'[c] = events[c] \/ Live(c)
       /\ Live(c) \/ index'[c] = "kNew" \/ (index'[c] = index[c] /\ o # "remove")
  <2>1. Over(c) \/ Live(c)
    BY <1>0, <1>1 DEF Over
  <2>2. Over(c) => state[c] # "kConnected"
    BY <1>0, <1>1 DEF Tale, Ending
  <2> QED BY <2>1, <2>2 DEF Quiet
<1>18. Doing("closeCallback", c)' => Doing("closeCallback", c)
  BY <1>0, <1>5
<1>19. delivered'[c] <= read'[c]
  BY DEF Quiet
<1> HIDE DEF Tale
<1>20. loopOf'[c] = loopOf[c] /\ phase'[loopOf[c]] = phase[loopOf[c]] /\ active'[loopOf[c]] = active[loopOf[c]]
  BY <1>0, <1>2
<1> QED BY <1>0, <1>1, <1>2, <1>6, <1>7, <1>8, <1>9, <1>10, <1>11, <1>12, <1>13, <1>14, <1>15, <1>16,
      <1>17, <1>18, <1>19, <1>20 DEF Spares

\* It is a stack that such a call leaves.
LEMMA QuietStacks ==
  ASSUME Parts, Story, NEW l \in Loops, NEW o, NEW c \in Conns, NEW s \in Seq(Calls), NEW Q,
         Now(l, o, c), become(l, s), Quiet(l, o, c, s, Q)
  PROVE  Stacks'
<1>1. Stack(s) /\ \A i \in DOMAIN s : s[i].op # "handleRead"
  BY DEF Quiet, Stack, Topmost, Once
<1>2. s # <<>> => o # "handleError"
  BY DEF Quiet
<1> QED BY <1>1, <1>2, StacksCalled DEF Story

-----------------------------------------------------------------------------
(* The calls that turn no tale. *)

\* A step after which every tale is what it was.
Sparing == Stacks' /\ \A d \in Conns : Spares(d)

\* Each quiet call is one.
LEMMA Quietly ==
  ASSUME Parts, IInv, Story, NEW l \in Loops, NEW o, NEW c \in Conns, NEW s \in Seq(Calls), NEW Q,
         Now(l, o, c), become(l, s), Calling(l, o, c, ToSet(s), Q), Quiet(l, o, c, s, Q)
  PROVE  Sparing
<1>1. Stacks'
  BY QuietStacks
<1>2. Spares(c)
  BY OwnSpared
<1>3. ASSUME NEW d \in Conns, d # c PROVE Spares(d)
  <2>1. /\ told'[d] = told[d] /\ state'[d] = state[d] /\ events'[d] = events[d]
        /\ index'[d] = index[d] /\ read'[d] = read[d] /\ delivered'[d] = delivered[d]
    BY <1>3 DEF Quiet
  <2> QED BY <1>3, <2>1, OthersSpared
<1> QED BY <1>1, <1>2, <1>3 DEF Sparing

\* What is left alone by most calls.
Rests == UNCHANGED <<connections, told, delivered, state, events, index, read, held>>

\* The calls the tale does not turn on and that do not change the registration.
Plain == (Deferred \cup Nested) \ {"connectEstablished", "connectDestroyed",
             "connectionCallback", "handleClose", "remove"}

\* A call that returns.
LEMMA Returns ==
  ASSUME Parts, IInv, Story, NEW l \in Loops, NEW o \in Plain, NEW c \in Conns, Now(l, o, c),
         become(l, <<>>), UNCHANGED pend, Rests, Frame(c)
  PROVE  Sparing
<1>1. ToSet(<<>>) = {} /\ <<>> \in Seq(Calls) /\ DOMAIN <<>> = {}
  BY SetOfOne
<1>2. Calling(l, o, c, {}, {})
  BY <1>1, Silent DEF Rests
<1>3. delivered[c] <= read[c]
  BY DEF Story, Tale, Fed
<1>4. Quiet(l, o, c, <<>>, {})
  BY <1>1, <1>3 DEF Quiet, Rests, Plain
<1> QED BY <1>1, <1>2, <1>4, Quietly

\* A call that returns, with the writeCompleteCallback queued.
LEMMA Completes ==
  ASSUME Parts, IInv, Story, NEW l \in Loops, NEW o \in Plain \ {"removeConnectionInLoop"},
         NEW c \in Conns, Now(l, o, c), become(l, <<>>),
         queueinLoop(l, Call("writeCompleteCallback", c)), Rests, Frame(c)
  PROVE  Sparing
<1> DEFINE Q == {Call("writeCompleteCallback", c)}
<1>1. ToSet(<<>>) = {} /\ <<>> \in Seq(Calls) /\ DOMAIN <<>> = {}
  BY SetOfOne
<1>2. Place(Call("writeCompleteCallback", c)) = l
  <2>1. Call(o, c) \in Todo(l)
    BY Innermost
  <2> QED BY <2>1, CallEq DEF IInv, Known, Place
<1>3. Calling(l, o, c, {}, Q)
  BY <1>1, <1>2, Telling DEF Rests
<1>4. delivered[c] <= read[c]
  BY DEF Story, Tale, Fed
<1>5. \A f \in Q : f.op = "writeCompleteCallback"
  BY CallEq
<1> HIDE DEF Q
<1>6. Quiet(l, o, c, <<>>, Q)
  BY <1>1, <1>4, <1>5 DEF Quiet, Rests, Plain
<1> QED BY <1>1, <1>3, <1>6, Quietly

\* handleError, a handleWrite that leaves something, writeCompleteCallback,
\* shutdownInLoop and a sendinLoop that buffers nothing.
LEMMA QuietCalls ==
  ASSUME Parts, IInv, Story, NEW l \in Loops, NEW c \in Conns,
         \/ handleError(l, c) \/ handleWritePart(l, c) \/ writeCompleteCallback(l, c)
         \/ shutdownInLoop(l, c) \/ sendAtOnce(l, c)
  PROVE  Sparing
<1> USE DEF Frame, Rests, turnVars, outside, serverVars, connVars, regVars, userVars, history,
            sockVars
<1>1. {"handleError", "handleWrite", "writeCompleteCallback", "shutdownInLoop", "sendinLoop"}
         \subseteq Plain \ {"removeConnectionInLoop"}
  BY DEF Plain, Deferred, Nested
<1>2. CASE handleError(l, c)
  BY <1>1, <1>2, Returns DEF handleError
<1>3. CASE handleWritePart(l, c)
  BY <1>1, <1>3, Returns DEF handleWritePart
<1>4. CASE writeCompleteCallback(l, c)
  BY <1>1, <1>4, Returns DEF writeCompleteCallback
<1>5. CASE shutdownInLoop(l, c)
  BY <1>1, <1>5, Returns DEF shutdownInLoop
<1>6. CASE sendAtOnce(l, c)
  <2>1. CASE UNCHANGED pend
    BY <1>1, <1>6, <2>1, Returns DEF sendAtOnce
  <2>2. CASE queueinLoop(l, Call("writeCompleteCallback", c))
    BY <1>1, <1>6, <2>2, Completes DEF sendAtOnce
  <2> QED BY <1>6, <2>1, <2>2 DEF sendAtOnce
<1> QED BY <1>2, <1>3, <1>4, <1>5, <1>6

\* A call that makes one other, q, and leaves the rest alone.
LEMMA GoesOn ==
  ASSUME Parts, IInv, Story, NEW l \in Loops, NEW o \in Plain \ ({"removeConnectionInLoop"} \cup Raw),
         NEW c \in Conns, Now(l, o, c), o # "handleError",
         NEW q \in {"handleError", "sendinLoop", "handleClose", "messageCallback", "shutdownInLoop"},
         become(l, <<Call(q, c)>>), UNCHANGED <<pend, connections, told, delivered, held>>, Frame(c),
         UNCHANGED <<events, index>>,
         \A d \in Conns \ {c} : state'[d] = state[d] /\ read'[d] = read[d],
         state'[c] = state[c] \/ (state[c] = "kConnected" /\ state'[c] = "kDisconnecting"),
         delivered[c] <= read'[c],
         q = "sendinLoop" => state[c] = "kConnected",
         q = "handleClose" => o = "handleRead",
         q = "messageCallback" => o = "handleRead" /\ delivered[c] < read'[c]
  PROVE  Sparing
<1> DEFINE s == <<Call(q, c)>>
<1>1. ToSet(s) = {Call(q, c)} /\ s \in Seq(Calls) /\ DOMAIN s = {1} /\ s[1] = Call(q, c)
  BY SetOfOne, NextCalls DEF Deferred, Nested
<1>2. (\A f \in ToSet(s) : f.conn = c /\ f.op = q) /\ \A i \in DOMAIN s : s[i].op = q /\ i = 1
  BY <1>1, CallEq
<1>3. become(l, s)
  OBVIOUS
<1> HIDE DEF s
<1>4. Calling(l, o, c, ToSet(s), {})
  BY <1>1, <1>2, <1>3, Silent DEF Once
<1>5. Quiet(l, o, c, s, {})
  BY <1>2 DEF Quiet, Plain
<1> QED BY <1>1, <1>3, <1>4, <1>5, Quietly

\* handleRead, which has something to deliver, or an error, or the end.
LEMMA ReadSpares ==
  ASSUME Parts, IInv, Story, NEW l \in Loops, NEW c \in Conns, handleRead(l, c) PROVE Sparing
<1> USE DEF Frame, turnVars, outside, serverVars, connVars, regVars, userVars, history
<1>1. /\ Now(l, "handleRead", c) /\ Frame(c)
      /\ UNCHANGED <<pend, connections, told, delivered, held, events, index, state>>
  BY DEF handleRead
<1>2. /\ \A d \in Conns \ {c} : read'[d] = read[d]
      /\ delivered[c] <= read[c] /\ delivered[c] \in Nat /\ read[c] \in Nat /\ sent[c] \in Nat
      /\ \/ read'[c] = read[c]
         \/ read[c] < read'[c] /\ read'[c] \in Nat /\ become(l, <<Call("messageCallback", c)>>)
  BY DEF handleRead, Parts, SockTypes, HistoryTypes, Story, Tale, Fed
<1>3. PICK q \in {"messageCallback", "handleError", "handleClose"} :
         /\ become(l, <<Call(q, c)>>)
         /\ q = "messageCallback" => read[c] < read'[c]
         /\ q # "messageCallback" => read'[c] = read[c]
  BY DEF handleRead, Parts, SockTypes
<1>4. "handleRead" \in Plain \ ({"removeConnectionInLoop"} \cup Raw)
  BY DEF Plain, Deferred, Nested, Raw
<1>5. delivered[c] <= read'[c] /\ (q = "messageCallback" => delivered[c] < read'[c])
  BY <1>2, <1>3
<1> QED BY <1>1, <1>2, <1>3, <1>4, <1>5, GoesOn

\* send and shutdown on the loop's own thread.
LEMMA SendSpares ==
  ASSUME Parts, IInv, Story, NEW l \in Loops, NEW c \in Conns, send(l, c) \/ shutdown(l, c)
  PROVE  Sparing
<1> USE DEF Frame, Rests, turnVars, outside, serverVars, connVars, regVars, userVars, history,
            sockVars
<1>1. {"send", "shutdown"} \subseteq Plain \ ({"removeConnectionInLoop"} \cup Raw)
  BY DEF Plain, Deferred, Nested, Raw
<1>2. delivered[c] <= read[c]
  BY DEF Story, Tale, Fed
<1>3. CASE send(l, c)
  <2>1. CASE state[c] = "kConnected"
    BY <1>1, <1>2, <1>3, <2>1, GoesOn DEF send
  <2>2. CASE state[c] # "kConnected"
    BY <1>1, <1>3, <2>2, Returns DEF send
  <2> QED BY <2>1, <2>2
<1>4. CASE shutdown(l, c)
  <2>1. CASE state[c] = "kConnected"
    <3>1. state'[c] = "kDisconnecting" /\ \A d \in Conns \ {c} : state'[d] = state[d]
      BY <1>4, <2>1 DEF shutdown, Parts, ConnTypes
    <3> QED BY <1>1, <1>2, <1>4, <2>1, <3>1, GoesOn DEF shutdown
  <2>2. CASE state[c] # "kConnected"
    BY <1>1, <1>4, <2>2, Returns DEF shutdown
  <2> QED BY <2>1, <2>2
<1> QED BY <1>3, <1>4

\* Filed::update changes one registration.
LEMMA Updates ==
  ASSUME Parts, NEW c \in Conns, NEW e, setEvents(c, e)
  PROVE  \A d \in Conns \ {c} : events'[d] = events[d] /\ index'[d] = index[d]
BY DEF setEvents, Parts, RegTypes

\* A sendinLoop that asks for EPOLLOUT is on a connection whose end was not told: a
\* late one, of a thread of the user, has found kDisconnected and given up.
LEMMA BufferedSpares ==
  ASSUME Parts, IInv, Story, NEW l \in Loops, NEW c \in Conns, sendBuffered(l, c) PROVE Sparing
<1>1. /\ Now(l, "sendinLoop", c) /\ become(l, <<>>) /\ Frame(c)
      /\ UNCHANGED <<pend, connections, told, delivered, held, state, read>>
  BY DEF sendBuffered, Frame, turnVars, serverVars, outside, userVars, history
<1>2. ToSet(<<>>) = {} /\ <<>> \in Seq(Calls) /\ DOMAIN <<>> = {}
  BY SetOfOne
<1>3. Calling(l, "sendinLoop", c, {}, {})
  BY <1>1, <1>2, Silent
<1>4. ~Over(c) /\ delivered[c] <= read[c]
  <2>1. InCall(l, "sendinLoop", c) /\ Tale(c)
    BY <1>3, Called DEF Story
  <2>2. Doing("sendinLoop", c) /\ state[c] # "kDisconnected"
    BY <2>1 DEF InCall, Doing, sendBuffered, GivesUp
  <2> QED BY <2>1, <2>2 DEF Tale, Ending, Fed
<1>5. \A d \in Conns \ {c} : events'[d] = events[d] /\ index'[d] = index[d]
  BY Updates DEF sendBuffered, enableWriting, regVars
<1>6. Quiet(l, "sendinLoop", c, <<>>, {})
  BY <1>1, <1>2, <1>4, <1>5 DEF Quiet
<1> QED BY <1>1, <1>2, <1>3, <1>6, Quietly

\* A handleWrite that empties outputBuffer_, too: EPOLLOUT was still asked for.
LEMMA WriteSpares ==
  ASSUME Parts, IInv, Story, NEW l \in Loops, NEW c \in Conns, handleWriteAll(l, c) PROVE Sparing
<1> DEFINE s == allWritten(c)
           g == Call("writeCompleteCallback", c)
<1>1. /\ s \in Seq(Calls)
      /\ \A f \in ToSet(s) : f.conn = c /\ f.op = "shutdownInLoop"
      /\ \A i \in DOMAIN s : s[i] \in ToSet(s)
  BY SetOfOne, NextCalls, CallEq DEF Deferred, allWritten, ToSet
<1>2. /\ Now(l, "handleWrite", c) /\ become(l, s) /\ Frame(c)
      /\ queueinLoop(l, g) \/ UNCHANGED pend
      /\ UNCHANGED <<connections, told, delivered, held, state, read>>
  BY DEF handleWriteAll, Frame, turnVars, serverVars, outside, userVars, history, sockVars
<1> HIDE DEF s
<1>3. Place(g) = l
  <2>1. Call("handleWrite", c) \in Todo(l)
    BY <1>2, Innermost
  <2> QED BY <2>1, CallEq DEF IInv, Known, Place
<1>4. PICK Q \in {{g}, {}} : Calling(l, "handleWrite", c, ToSet(s), Q)
  <2>1. CASE queueinLoop(l, g)
    BY <1>1, <1>2, <1>3, <2>1, Telling DEF Once, Raw
  <2>2. CASE UNCHANGED pend
    BY <1>1, <1>2, <2>2, Silent DEF Once, Raw
  <2> QED BY <1>2, <2>1, <2>2
<1>5. \A f \in Q : f.op = "writeCompleteCallback"
  BY CallEq
<1>6. ~Over(c) /\ delivered[c] <= read[c]
  BY DEF handleWriteAll, isWriting, Story, Tale, Ending, Fed
<1>7. \A d \in Conns \ {c} : events'[d] = events[d] /\ index'[d] = index[d]
  BY Updates DEF handleWriteAll, disableWriting
<1>8. Quiet(l, "handleWrite", c, s, Q)
  BY <1>1, <1>2, <1>5, <1>6, <1>7 DEF Quiet
<1> QED BY <1>1, <1>2, <1>4, <1>8, Quietly

\* Epoller::remove.
LEMMA RemoveSpares ==
  ASSUME Parts, IInv, Story, NEW l \in Loops, NEW c \in Conns, remove(l, c) PROVE Sparing
<1>1. /\ Now(l, "remove", c) /\ become(l, <<>>) /\ Frame(c)
      /\ UNCHANGED <<pend, connections, told, delivered, held, state, read, events>>
  BY DEF remove, Frame, turnVars, serverVars, connVars, outside, userVars, history, sockVars
<1>2. ToSet(<<>>) = {} /\ <<>> \in Seq(Calls) /\ DOMAIN <<>> = {}
  BY SetOfOne
<1>3. Calling(l, "remove", c, {}, {})
  BY <1>1, <1>2, Silent DEF Raw
<1>4. index'[c] = "kNew" /\ \A d \in Conns \ {c} : index'[d] = index[d]
  BY DEF remove, unregistered, Parts, RegTypes
<1>5. delivered[c] <= read[c]
  BY DEF Story, Tale, Fed
<1>6. Quiet(l, "remove", c, <<>>, {})
  BY <1>1, <1>2, <1>4, <1>5 DEF Quiet
<1> QED BY <1>1, <1>2, <1>3, <1>6, Quietly

\* What a callback calls.
LEMMA ScriptTyped ==
  ASSUME NEW c \in Conns, NEW r \in Scripts
  PROVE  LET s == [i \in DOMAIN r |-> Call(r[i], c)]
         IN  /\ s \in Seq(Calls)
             /\ \A i \in DOMAIN s : s[i].op \in {"send", "shutdown"} /\ s[i].conn = c
<1>1. r \in Seq({"send", "shutdown"})
  BY ServerAssumption
<1>2. \A q \in {"send", "shutdown"} : Call(q, c) \in Calls
  BY CallTyped DEF Nested
<1> QED BY <1>1, <1>2, CallEq

\* The message callback: the script it runs, the threads it passes the pointer to.
LEMMA MessageSpares ==
  ASSUME Parts, IInv, Story, NEW l \in Loops, NEW c \in Conns, messageCallback(l, c) PROVE Sparing
<1>1. PICK r \in Scripts : become(l, [i \in DOMAIN r |-> Call(r[i], c)])
  BY DEF messageCallback, userCode
<1> DEFINE s == [i \in DOMAIN r |-> Call(r[i], c)]
<1>2. s \in Seq(Calls) /\ \A i \in DOMAIN s : s[i].op \in {"send", "shutdown"} /\ s[i].conn = c
  BY ScriptTyped
<1>3. become(l, s)
  BY <1>1
<1> HIDE DEF s
<1>4. \A f \in ToSet(s) : f.op \in {"send", "shutdown"} /\ f.conn = c
  BY <1>2 DEF ToSet
<1>5. /\ Now(l, "messageCallback", c) /\ Frame(c)
      /\ UNCHANGED <<pend, connections, told, state, events, index, read>>
  BY DEF messageCallback, userCode, Frame, turnVars, serverVars, connVars, regVars, sockVars
<1>6. Calling(l, "messageCallback", c, ToSet(s), {})
  BY <1>2, <1>3, <1>4, <1>5, Silent DEF Once, Raw
<1>7. delivered'[c] = read[c] /\ \A d \in Conns \ {c} : delivered'[d] = delivered[d]
  BY DEF messageCallback, Parts, HistoryTypes
<1>8. read[c] \in Nat
  BY DEF Parts, SockTypes
<1>9. Quiet(l, "messageCallback", c, s, {})
  BY <1>2, <1>5, <1>7, <1>8 DEF Quiet
<1> QED BY <1>2, <1>3, <1>5, <1>6, <1>9, Quietly

\* Server::removeConnection and removeConnectionInLoop, after the end was told.
LEMMA RemovalSpares ==
  ASSUME Parts, IInv, Story, NEW l \in Loops, NEW c \in Conns,
         removeConnection(l, c) \/ removeConnectionInLoop(l, c)
  PROVE  Sparing
<1>0. ToSet(<<>>) = {} /\ <<>> \in Seq(Calls) /\ DOMAIN <<>> = {}
  BY SetOfOne
<1>1. delivered[c] <= read[c]
  BY DEF Story, Tale, Fed
<1>2. CASE removeConnection(l, c)
  <2>1. /\ Now(l, "closeCallback", c) /\ runinLoop(l, base, Removal(c)) /\ Frame(c)
        /\ UNCHANGED <<connections, told, delivered, held, state, read, events, index>>
    BY <1>2 DEF removeConnection, Removal, Frame, turnVars, serverVars, connVars, regVars,
       outside, userVars, history, sockVars
  <2>2. CASE l = base
    <3> DEFINE s == <<Removal(c)>>
    <3>1. /\ ToSet(s) = {Removal(c)} /\ s \in Seq(Calls) /\ DOMAIN s = {1} /\ s[1] = Removal(c)
          /\ Removal(c).conn = c /\ Removal(c).op = "removeConnectionInLoop"
      BY SetOfOne, NextCalls, CallEq DEF Deferred, Removal
    <3>2. become(l, s) /\ UNCHANGED pend
      BY <2>1, <2>2 DEF runinLoop
    <3> HIDE DEF s
    <3>3. Calling(l, "closeCallback", c, ToSet(s), {})
      BY <2>1, <2>2, <3>1, <3>2, Silent DEF Once, Raw
    <3>4. Quiet(l, "closeCallback", c, s, {})
      BY <1>1, <2>1, <3>1 DEF Quiet
    <3> QED BY <2>1, <3>1, <3>2, <3>3, <3>4, Quietly
  <2>3. CASE l # base
    <3>1. become(l, <<>>) /\ queueinLoop(base, Removal(c))
      BY <2>1, <2>3 DEF runinLoop
    <3>2. Place(Removal(c)) = base /\ Removal(c).op = "removeConnectionInLoop"
      BY CallEq DEF Place, Removal
    <3>3. Calling(l, "closeCallback", c, {}, {Removal(c)})
      BY <1>0, <2>1, <3>1, <3>2, Telling DEF Once, Raw, Removal
    <3>4. Quiet(l, "closeCallback", c, <<>>, {Removal(c)})
      BY <1>0, <1>1, <2>1, <3>2 DEF Quiet
    <3> QED BY <1>0, <2>1, <3>1, <3>3, <3>4, Quietly
  <2> QED BY <2>2, <2>3
<1>3. CASE removeConnectionInLoop(l, c)
  <2>1. /\ Now(l, "removeConnectionInLoop", c) /\ become(l, <<>>) /\ Frame(c)
        /\ queueinLoop(loopOf[c], CD(c)) /\ connections' = connections \ {c}
        /\ UNCHANGED <<told, delivered, held, state, read, events, index>>
    BY <1>3 DEF removeConnectionInLoop, CD, Frame, turnVars, connVars, regVars, outside,
       userVars, history, sockVars
  <2>2. Place(CD(c)) = loopOf[c] /\ CD(c).op = "connectDestroyed"
    BY CallEq DEF Place, CD
  <2>3. Calling(l, "removeConnectionInLoop", c, {}, {CD(c)})
    BY <1>0, <2>1, <2>2, Telling DEF CD
  <2>4. Quiet(l, "removeConnectionInLoop", c, <<>>, {CD(c)})
    BY <1>0, <1>1, <2>1, <2>2 DEF Quiet
  <2> QED BY <1>0, <2>1, <2>3, <2>4, Quietly
<1> QED BY <1>2, <1>3

-----------------------------------------------------------------------------
(* The calls that turn the tale of their connection. *)

\* A step after which the tale of c is another one.
Turned(c) == Stacks' /\ Tale(c)' /\ \A d \in Conns \ {c} : Spares(d)

\* What such a call makes of the stack.
LEMMA Onwards ==
  ASSUME Parts, IInv, Story, NEW l \in Loops, NEW o, NEW c \in Conns, NEW S, Now(l, o, c),
         Calling(l, o, c, S, {}), o \notin {"removeConnectionInLoop", "handleError"}
  PROVE  /\ \A q : Doing(q, c)' <=> Call(q, c) \in S \/ Call(q, c) \in Rest(l)
         /\ \A q : Doing(q, c) <=> q = o \/ Call(q, c) \in Rest(l)
         /\ \A q : Call(q, c) \in Rest(l) => q \notin Topmost /\ q # "handleRead"
         /\ loopOf[c] = l /\ loopOf' = loopOf /\ phase' = phase /\ active' = active
         /\ c \notin active[l] /\ phase[l] # "destroyed"
         /\ (Born(c)' <=> Born(c)) /\ Born(c) /\ (Stopped' <=> Stopped)
         /\ (Removal(c) \notin S => (Removal(c) \in (Waiting(base) \cup Todo(base))' =>
                                        Removal(c) \in Waiting(base) \cup Todo(base)))
         /\ \A q : Call(q, c) \notin S =>
                (Call(q, c) \in (Waiting(l) \cup Todo(l))' => Call(q, c) \in Waiting(l) \cup Todo(l))
         /\ CD(c) \in Waiting(base)' => CD(c) \in Waiting(base)
<1>1. /\ InCall(l, o, c) /\ loopOf[c] \in Loops /\ phase[l] # "destroyed" /\ loopOf[c] = l
      /\ c \notin active[loopOf[c]]
  BY Running
<1>2. /\ loopOf' = loopOf /\ phase' = phase /\ active' = active /\ (Born(c)' <=> Born(c))
      /\ base \in Loops
  BY DEF Calling, Born, Loops
<1>3. \A m \in Loops : Waiting(m)' = Waiting(m)
  BY DEF Calling, Waiting, Batch
<1>4. /\ Todo(l)' = S \cup Rest(l) /\ Todo(l) = {Call(o, c)} \cup Rest(l)
      /\ \A m \in Loops \ {l} : Todo(m)' = Todo(m)
  BY DEF Calling
<1>5. \A q : /\ Doing(q, c)' <=> Call(q, c) \in S \/ Call(q, c) \in Rest(l)
             /\ Doing(q, c) <=> q = o \/ Call(q, c) \in Rest(l)
  <2>1. \A q : Doing(q, c)' <=> Call(q, c) \in Todo(l)'
    BY <1>1, <1>2 DEF Doing, Call
  <2>2. \A q : Doing(q, c) <=> Call(q, c) \in Todo(l)
    BY <1>1 DEF Doing
  <2> QED BY <1>4, <2>1, <2>2, CallEq
<1>6. \A q : Call(q, c) \in Rest(l) => q \notin Topmost /\ q # "handleRead"
  BY Beneath, CallEq DEF Story
<1>7. Removal(c) \notin S => (Removal(c) \in (Waiting(base) \cup Todo(base))' =>
                                        Removal(c) \in Waiting(base) \cup Todo(base))
  BY <1>2, <1>3, <1>4 DEF Removal, Call
<1>8. \A q : Call(q, c) \notin S =>
         (Call(q, c) \in (Waiting(l) \cup Todo(l))' => Call(q, c) \in Waiting(l) \cup Todo(l))
  BY <1>3, <1>4 DEF Call
<1>9. CD(c) \in Waiting(base)' => CD(c) \in Waiting(base)
  BY <1>2, <1>3 DEF CD, Call
<1>10. Born(c) /\ (Stopped' <=> Stopped)
  BY <1>1, <1>2 DEF InCall, Stopped
<1> QED BY <1>1, <1>2, <1>5, <1>6, <1>7, <1>8, <1>9, <1>10

\* connectEstablished: the connection is about to be announced.
LEMMA EstablishedTurns ==
  ASSUME Parts, IInv, Story, NEW l \in Loops, NEW c \in Conns, connectEstablished(l, c)
  PROVE  Turned(c)
<1> DEFINE s == <<Call("connectionCallback", c)>>
           S == {Call("connectionCallback", c)}
           o == "connectEstablished"
<1>1. /\ ToSet(s) = S /\ s \in Seq(Calls) /\ DOMAIN s = {1} /\ s[1] = Call("connectionCallback", c)
      /\ s[1].op = "connectionCallback"
  BY SetOfOne, NextCalls, CallEq DEF Nested
<1>2. /\ Now(l, o, c) /\ become(l, s) /\ Frame(c)
      /\ UNCHANGED <<pend, connections, told, delivered, held, read>>
      /\ state' = [state EXCEPT ![c] = "kConnected"] /\ enableReading(c)
  BY DEF connectEstablished, Frame, turnVars, serverVars, outside, userVars, history, sockVars
<1>3. \A f \in S : f.conn = c /\ f.op = "connectionCallback"
  BY CallEq
<1>4. Stack(s) /\ s[1].op # "handleRead"
  BY <1>1 DEF Stack, Topmost
<1>5. Stacks'
  BY <1>1, <1>2, <1>4, StacksCalled DEF Story
<1>6. Calling(l, o, c, S, {})
  BY <1>1, <1>2, <1>3, Silent DEF Once, Raw
<1>7. \A d \in Conns \ {c} : Spares(d)
  <2>1. \A d \in Conns \ {c} : /\ events'[d] = events[d] /\ index'[d] = index[d]
                               /\ state'[d] = state[d]
    BY <1>2, Updates DEF enableReading, Parts, ConnTypes
  <2> QED BY <1>2, <1>6, <2>1, OthersSpared
<1> HIDE DEF s
<1>8. Tale(c)'
  <2>1. Tale(c) /\ Awaited(c) /\ InCall(l, o, c) /\ Rest(l) = {}
    <3>1. InCall(l, o, c) /\ loopOf[c] = l
      BY <1>6, Called DEF InCall
    <3>2. Rest(l) = {}
      BY <3>1, CallEq DEF InCall, IInv, Order, OrderAt, Once
    <3> QED BY <3>1, <3>2 DEF InCall, Awaited, CE, Story
  <2>2. told[c] = <<>> /\ ~IsHeld(c) /\ Removal(c) \notin Waiting(base) \cup Todo(base)
    BY <2>1 DEF Tale, Heard, IInv, Fresh, IsHeld
  <2>3. /\ \A q : Doing(q, c)' <=> q = "connectionCallback"
        /\ Born(c) /\ loopOf[c] = l /\ loopOf' = loopOf /\ phase' = phase /\ active' = active
        /\ c \notin active[l] /\ (Born(c)' <=> Born(c)) /\ (Stopped' <=> Stopped)
    BY <1>2, <1>6, <2>1, Onwards, CallEq
  <2>4. Removal(c) \notin S /\ CD(c) \notin S
    BY CallEq DEF Removal, CD
  <2>5. /\ Removal(c) \notin (Waiting(base) \cup Todo(base))'
        /\ CD(c) \in (Waiting(l) \cup Todo(l))' => CD(c) \in Waiting(l) \cup Todo(l)
        /\ CD(c) \in Waiting(base)' => CD(c) \in Waiting(base)
    BY <1>2, <1>6, <2>2, <2>4, Onwards DEF CD
  <2>6. told'[c] = <<>> /\ Tells(c)' /\ state'[c] = "kConnected" /\ ~IsHeld(c)'
    BY <1>2, <2>2, <2>3 DEF Tells, IsHeld, Parts, ConnTypes
  <2>7. ~Live(c)' /\ ~Over(c)'
    BY <2>6, ThreeTales DEF Live, Over
  <2>8. Announcing(c)'
    BY <2>6 DEF Announcing
  <2>9. Heard(c)'
    BY <2>1, <2>2, <2>3, <2>5, <2>6, ThreeTales DEF Heard, Tale, Removal, CD, Call
  <2>10. Watched(c)' /\ Fed(c)'
    BY <1>2, <2>1, <2>3 DEF Watched, Near, Fed, Tale
  <2> QED BY <2>7, <2>8, <2>9, <2>10 DEF Tale, Lasting, Ending
<1> QED BY <1>5, <1>7, <1>8 DEF Turned

\* handleClose: the connection callback is about to tell of the end.
LEMMA CloseTurns ==
  ASSUME Parts, IInv, Story, NEW l \in Loops, NEW c \in Conns, handleClose(l, c) PROVE Turned(c)
<1> DEFINE s == closing(c)
           o == "handleClose"
<1>1. /\ s \in Seq(Calls) /\ ToSet(s) = {Call("connectionCallback", c), Call("closeCallback", c)}
      /\ DOMAIN s = {1, 2} /\ s[1].op = "connectionCallback" /\ s[2].op = "closeCallback"
  BY SetOfTwo, NextCalls, CallEq DEF Nested, closing
<1>2. /\ Now(l, o, c) /\ become(l, s) /\ Frame(c)
      /\ UNCHANGED <<pend, connections, told, delivered, held, read>>
      /\ state' = [state EXCEPT ![c] = "kDisconnected"] /\ disableAll(c)
  BY DEF handleClose, Frame, turnVars, serverVars, outside, userVars, history, sockVars
<1> HIDE DEF s
<1>3. /\ \A f \in ToSet(s) : f.conn = c /\ f.op \in {"connectionCallback", "closeCallback"}
      /\ \A q : Call(q, c) \in ToSet(s) <=> q \in {"connectionCallback", "closeCallback"}
  BY <1>1, CallEq
<1>4. Stack(s) /\ \A i \in DOMAIN s : s[i].op # "handleRead"
  BY <1>1 DEF Stack, Topmost, Once
<1>5. Stacks'
  BY <1>1, <1>2, <1>4, StacksCalled DEF Story
<1>6. Calling(l, o, c, ToSet(s), {})
  BY <1>1, <1>2, <1>3, Silent DEF Once, Raw
<1>7. \A d \in Conns \ {c} : Spares(d)
  <2>1. \A d \in Conns \ {c} : /\ events'[d] = events[d] /\ index'[d] = index[d]
                               /\ state'[d] = state[d]
    BY <1>2, Updates DEF disableAll, Parts, ConnTypes
  <2> QED BY <1>2, <1>6, <2>1, OthersSpared
<1>8. Tale(c)'
  <2>1. /\ \A q : Doing(q, c)' => q \in {"connectionCallback", "closeCallback"} \/
                    (Doing(q, c) /\ q \notin Topmost /\ q # "handleRead")
        /\ Doing("connectionCallback", c)' /\ Doing("closeCallback", c)' /\ Doing(o, c)
        /\ Born(c) /\ loopOf[c] = l /\ loopOf' = loopOf /\ phase' = phase /\ active' = active
        /\ c \notin active[l] /\ (Born(c)' <=> Born(c)) /\ (Stopped' <=> Stopped)
    BY <1>2, <1>3, <1>6, Onwards
  <2>2. Tale(c) /\ Live(c) /\ index[c] = "kAdded" /\ phase[l] = "events"
    BY <2>1 DEF Story, Tale, Watched, Near
  <2>3. /\ Removal(c) \in (Waiting(base) \cup Todo(base))' =>
               Removal(c) \in Waiting(base) \cup Todo(base)
        /\ \A q \in Once : Call(q, c) \in (Waiting(l) \cup Todo(l))' =>
               Call(q, c) \in Waiting(l) \cup Todo(l)
        /\ CD(c) \in Waiting(base)' => CD(c) \in Waiting(base)
    <3>1. Removal(c) \notin ToSet(s) /\ \A q \in Once : Call(q, c) \notin ToSet(s)
      BY <1>3 DEF Removal, Once
    <3> QED BY <1>2, <1>6, <3>1, Onwards
  <2>4. events'[c] = {} /\ index'[c] = "kDeleted" /\ state'[c] = "kDisconnected"
    BY <1>2, <2>2 DEF disableAll, setEvents, Parts, RegTypes, ConnTypes
  <2>5. told'[c] = <<TRUE>> /\ told[c] = <<TRUE>> /\ Tells(c)'
    BY <1>2, <2>1, <2>2 DEF Live, Tells
  <2>6. ~Live(c)' /\ Over(c)'
    BY <2>5 DEF Live, Over
  <2>7. Announcing(c)' /\ Lasting(c)'
    BY <2>5, <2>6, ThreeTales DEF Announcing, Lasting
  <2>8. Ending(c)'
    BY <2>1, <2>4, <2>5, ThreeTales DEF Ending, Sends, Topmost
  <2>9. Heard(c)'
    <3>1. ~Awaited(c) /\ (Awaited(c)' => Awaited(c))
      BY <2>1, <2>2, <2>3, <2>5, ThreeTales DEF Tale, Heard, Awaited, Once, CE, Call
    <3>2. CD(c) \in (Waiting(l) \cup Todo(l))' => CD(c) \in Waiting(l) \cup Todo(l)
      BY <2>3 DEF CD, Once
    <3> QED BY <2>1, <2>2, <2>3, <2>5, <2>6, <3>1, <3>2, ThreeTales DEF Tale, Heard, Removal, CD, Call
  <2>10. Watched(c)' /\ Fed(c)'
    BY <1>2, <2>1, <2>2 DEF Watched, Near, Fed, Tale, Topmost
  <2> QED BY <2>7, <2>8, <2>9, <2>10 DEF Tale
<1> QED BY <1>5, <1>7, <1>8 DEF Turned

\* connectDestroyed: of a connection the user still believes connected, in ~Server, or
\* of one it has been told the end of.
LEMMA DestroyedTurns ==
  ASSUME Parts, IInv, Story, NEW l \in Loops, NEW c \in Conns, connectDestroyed(l, c)
  PROVE  Turned(c)
<1> DEFINE s == IF state[c] = "kConnected"
                THEN <<Call("connectionCallback", c), Call("remove", c)>>
                ELSE <<Call("remove", c)>>
           o == "connectDestroyed"
<1>1. /\ s \in Seq(Calls) /\ \A i \in DOMAIN s : s[i].op # "handleRead"
      /\ \A i \in DOMAIN s : s[i].op \in Topmost => i = 1
      /\ \A f \in ToSet(s) : f.conn = c /\ f.op \in {"connectionCallback", "remove"}
      /\ Call("remove", c) \in ToSet(s)
      /\ Call("connectionCallback", c) \in ToSet(s) <=> state[c] = "kConnected"
  BY SetOfOne, SetOfTwo, NextCalls, CallEq DEF Nested, Topmost, Once
<1>2. /\ Now(l, o, c) /\ become(l, s) /\ Frame(c)
      /\ UNCHANGED <<pend, connections, told, delivered, held, read>>
      /\ \/ state[c] = "kConnected" /\ state' = [state EXCEPT ![c] = "kDisconnected"] /\ disableAll(c)
         \/ state[c] # "kConnected" /\ UNCHANGED <<state, events, index>>
  BY DEF connectDestroyed, Frame, turnVars, serverVars, outside, userVars, history, sockVars, regVars
<1> HIDE DEF s
<1>3. \A q : Call(q, c) \in ToSet(s) => q \in {"connectionCallback", "remove"}
  BY <1>1, CallEq
<1>4. Stacks'
  BY <1>1, <1>2, StacksCalled DEF Story, Stack
<1>5. Calling(l, o, c, ToSet(s), {})
  BY <1>1, <1>2, Silent DEF Once, Raw
<1>6. \A d \in Conns \ {c} : Spares(d)
  <2>1. \A d \in Conns \ {c} : /\ events'[d] = events[d] /\ index'[d] = index[d]
                               /\ state'[d] = state[d]
    BY <1>2, Updates DEF disableAll, Parts, ConnTypes
  <2> QED BY <1>2, <1>5, <2>1, OthersSpared
<1>7. Tale(c)'
  <2>1. InCall(l, o, c) /\ Tale(c) /\ Rest(l) = {} /\ phase[l] # "events"
    BY <1>5, Called DEF InCall, Story
  <2>2. /\ \A q : Doing(q, c)' <=> q = "remove" \/ (q = "connectionCallback" /\ state[c] = "kConnected")
        /\ \A q : Doing(q, c) <=> q = o
        /\ Born(c) /\ loopOf[c] = l /\ loopOf' = loopOf /\ phase' = phase /\ active' = active
        /\ c \notin active[l] /\ (Born(c)' <=> Born(c)) /\ (Stopped' <=> Stopped)
    <3>1. \A q : Call(q, c) \in ToSet(s) <=>
                    q = "remove" \/ (q = "connectionCallback" /\ state[c] = "kConnected")
      BY <1>1, <1>3
    <3> QED BY <1>2, <1>5, <2>1, <3>1, Onwards
  <2>3. /\ Removal(c) \in (Waiting(base) \cup Todo(base))' =>
               Removal(c) \in Waiting(base) \cup Todo(base)
        /\ \A q \in Once : Call(q, c) \in (Waiting(l) \cup Todo(l))' =>
               Call(q, c) \in Waiting(l) \cup Todo(l)
        /\ CD(c) \in Waiting(base)' => CD(c) \in Waiting(base)
    <3>1. Removal(c) \notin ToSet(s) /\ \A q \in Once : Call(q, c) \notin ToSet(s)
      BY <1>3 DEF Removal, Once
    <3> QED BY <1>2, <1>5, <3>1, Onwards
  <2>4. ~Awaited(c) /\ ~Awaited(c)'
    <3>1. ~Awaited(c)
      BY <2>1 DEF InCall
    <3> QED BY <2>2, <2>3, <3>1 DEF Awaited, Once, CE, Call
  <2>5. /\ told'[c] = told[c] /\ told[c] # <<>> /\ ~Tells(c)
        /\ told[c] = <<TRUE, FALSE>> \/ (Live(c) /\ Stopped)
    <3>1. ~Tells(c) /\ ~Gone(c) /\ told'[c] = told[c]
      BY <1>2, <2>1, <2>2 DEF Tells, Gone, InCall
    <3>2. told[c] # <<>>
      BY <2>1, <2>2, <2>4, <3>1 DEF Tale, Announcing
    <3>3. told[c] = <<TRUE, FALSE>> \/ Stopped
      BY <2>1, <2>2 DEF Tale, Heard, InCall, CD
    <3> QED BY <2>1, <3>1, <3>2, <3>3 DEF Tale, Heard, Live
  <2>6. CD(c) \in (Waiting(l) \cup Todo(l))' => CD(c) \in Waiting(l) \cup Todo(l)
    BY <2>3 DEF CD, Once
  <2>7. Announcing(c)'
    BY <2>5 DEF Announcing
  <2>8. Watched(c)' /\ Fed(c)'
    BY <1>2, <2>1, <2>2 DEF Watched, Near, Fed, Tale
  <2>9. CASE told[c] = <<TRUE, FALSE>>
    <3>1. Over(c) /\ Over(c)' /\ ~Live(c)' /\ state[c] # "kConnected"
      BY <2>1, <2>5, <2>9, ThreeTales DEF Over, Live, Tale, Ending
    <3>2. UNCHANGED <<state, events, index>> /\ ~Tells(c)' /\ ~Doing("sendinLoop", c)'
      BY <1>2, <2>2, <3>1 DEF Tells
    <3>3. Lasting(c)' /\ Ending(c)'
      BY <2>1, <2>2, <2>5, <2>9, <3>1, <3>2, ThreeTales DEF Lasting, Ending, Tale, Sends
    <3>4. Heard(c)'
      BY <2>1, <2>2, <2>4, <2>5, <2>9, <3>1 DEF Heard, Tale
    <3> QED BY <2>7, <2>8, <3>3, <3>4 DEF Tale
  <2>10. CASE Live(c) /\ Stopped
    <3>1. told[c] = <<TRUE>> /\ told'[c] = <<TRUE>>
      BY <2>5, <2>10 DEF Live
    <3>2. Heard(c)'
      BY <2>1, <2>2, <2>3, <2>4, <2>6, <2>10, <3>1, ThreeTales DEF Heard, Tale, Removal, CD, Call
    <3>3. CASE state[c] = "kConnected"
      <4>1. Tells(c)' /\ ~Live(c)' /\ state'[c] = "kDisconnected" /\ events'[c] = {}
        BY <1>2, <2>2, <3>3 DEF disableAll, setEvents, Parts, RegTypes, ConnTypes, Tells, Live
      <4>2. Lasting(c)' /\ Ending(c)'
        BY <2>2, <3>1, <4>1 DEF Lasting, Ending, Sends
      <4> QED BY <2>7, <2>8, <3>2, <4>2 DEF Tale
    <3>4. CASE state[c] # "kConnected"
      <4>1. state' = state /\ ~Tells(c)' /\ state[c] = "kDisconnecting"
        BY <1>2, <2>1, <2>2, <2>10, <3>4 DEF Tells, Tale, Lasting
      <4>2. ~Over(c)'
        BY <3>1, <4>1, ThreeTales DEF Over
      <4>3. Lasting(c)' /\ Ending(c)'
        BY <2>2, <2>10, <4>1, <4>2 DEF Lasting, Ending
      <4> QED BY <2>7, <2>8, <3>2, <4>3 DEF Tale
    <3> QED BY <3>3, <3>4
  <2> QED BY <2>5, <2>9, <2>10
<1> QED BY <1>4, <1>6, <1>7 DEF Turned

\* The second thing the user is told comes after the first.
LEMMA AppendToOne == \A x, y : Append(<<x>>, y) = <<x, y>>
<1> TAKE x, y
<1> DEFINE s == Append(<<x>>, y)
           t == <<x, y>>
<1>1. s \in Seq({x, y}) /\ t \in Seq({x, y}) /\ Len(s) = 2 /\ Len(t) = 2
  OBVIOUS
<1>2. s[1] = t[1] /\ s[2] = t[2]
  OBVIOUS
<1> HIDE DEF s, t
<1>3. \A i \in 1 .. 2 : s[i] = t[i]
  BY <1>2
<1>4. s = t
  BY <1>1, <1>3
<1> QED BY <1>4 DEF s, t

\* The connection callback.
LEMMA CallbackTurns ==
  ASSUME Parts, IInv, Story, NEW l \in Loops, NEW c \in Conns, connectionCallback(l, c)
  PROVE  /\ Turned(c) /\ ~Tells(c)'
         /\ \/ told[c] = <<>> /\ told'[c] = <<TRUE>> /\ Kept(c)'
            \/ /\ told[c] = <<TRUE>> /\ told'[c] = <<TRUE, FALSE>>
               /\ \E q \in {"closeCallback", "remove"} : Doing(q, c)'
<1>1. PICK r \in Scripts : become(l, [i \in DOMAIN r |-> Call(r[i], c)])
  BY DEF connectionCallback, userCode
<1> DEFINE s == [i \in DOMAIN r |-> Call(r[i], c)]
           o == "connectionCallback"
<1>2. s \in Seq(Calls) /\ \A i \in DOMAIN s : s[i].op \in {"send", "shutdown"} /\ s[i].conn = c
  BY ScriptTyped
<1>3. become(l, s)
  BY <1>1
<1> HIDE DEF s
<1>4. /\ \A f \in ToSet(s) : f.op \in {"send", "shutdown"} /\ f.conn = c
      /\ \A q : Call(q, c) \in ToSet(s) => q \in {"send", "shutdown"}
  <2>1. \A f \in ToSet(s) : f.op \in {"send", "shutdown"} /\ f.conn = c
    BY <1>2 DEF ToSet
  <2> QED BY <2>1, CallEq
<1>5. /\ Now(l, o, c) /\ Frame(c)
      /\ UNCHANGED <<pend, connections, delivered, state, events, index, read>>
      /\ told' = [told EXCEPT ![c] = Append(@, state[c] = "kConnected")]
  BY DEF connectionCallback, userCode, Frame, turnVars, serverVars, connVars, regVars, sockVars
<1>6. Stacks'
  BY <1>2, <1>3, <1>5, StacksCalled DEF Story, Stack, Topmost, Once
<1>7. Calling(l, o, c, ToSet(s), {})
  BY <1>2, <1>3, <1>4, <1>5, Silent DEF Once, Raw
<1>8. \A d \in Conns \ {c} : Spares(d)
  <2>1. \A d \in Conns \ {c} : told'[d] = told[d]
    BY <1>5 DEF Parts, HistoryTypes
  <2> QED BY <1>5, <1>7, <2>1, OthersSpared
<1>9. /\ \A q : Doing(q, c)' => q \in {"send", "shutdown"} \/
                    (Doing(q, c) /\ q \notin Topmost /\ q # "handleRead")
      /\ \A q : Doing(q, c) /\ q # o => Doing(q, c)'
      /\ Doing(o, c) /\ ~Doing(o, c)'
      /\ Born(c) /\ loopOf[c] = l /\ loopOf' = loopOf /\ phase' = phase /\ active' = active
      /\ c \notin active[l] /\ (Born(c)' <=> Born(c)) /\ (Stopped' <=> Stopped)
      /\ phase[l] # "destroyed"
  BY <1>4, <1>5, <1>7, Onwards DEF Topmost
<1>10. /\ Removal(c) \in (Waiting(base) \cup Todo(base))' =>
              Removal(c) \in Waiting(base) \cup Todo(base)
       /\ \A q \in Once : Call(q, c) \in (Waiting(l) \cup Todo(l))' =>
              Call(q, c) \in Waiting(l) \cup Todo(l)
       /\ CD(c) \in Waiting(base)' => CD(c) \in Waiting(base)
  <2>1. Removal(c) \notin ToSet(s) /\ \A q \in Once : Call(q, c) \notin ToSet(s)
    BY <1>4 DEF Removal, Once
  <2> QED BY <1>5, <1>7, <2>1, Onwards
<1>11. Tale(c) /\ Tells(c) /\ ~Tells(c)' /\ ~Awaited(c) /\ ~Awaited(c)'
  <2>1. InCall(l, o, c)
    BY <1>7, Called
  <2>2. ~Awaited(c)
    BY <2>1 DEF InCall
  <2> QED BY <1>9, <1>10, <2>2 DEF Story, Tells, Awaited, Once, CE, Call
<1>12. CD(c) \in (Waiting(l) \cup Todo(l))' => CD(c) \in Waiting(l) \cup Todo(l)
  BY <1>10 DEF CD, Once
<1>13. ~Live(c) /\ ~Near(c) /\ ~Near(c)'
  <2>1. ~Live(c)
    BY <1>11 DEF Live
  <2>2. ~Near(c)
    BY <1>11, <2>1 DEF Tale, Watched
  <2> QED BY <1>9, <2>1, <2>2 DEF Near, Topmost
<1>14. Watched(c)' /\ Fed(c)'
  BY <1>5, <1>9, <1>11, <1>13 DEF Watched, Near, Fed, Tale, Topmost
<1>15. CASE told[c] = <<>>
  <2>1. state[c] = "kConnected" /\ ~Over(c)
    BY <1>11, <1>15, ThreeTales DEF Tale, Announcing, Over
  <2>2. told'[c] = <<TRUE>>
    <3>1. told'[c] = Append(<<>>, TRUE)
      BY <1>5, <1>15, <2>1 DEF Parts, HistoryTypes
    <3> QED BY <3>1
  <2>3. Live(c)' /\ ~Over(c)'
    BY <1>11, <2>2, ThreeTales DEF Live, Over
  <2>4. Kept(c)'
    <3>1. Kept(c)
      BY <1>9, <2>1 DEF IInv, Registry
    <3> QED BY <1>7, <3>1, KeptCarried
  <2>5. Announcing(c)' /\ Lasting(c)' /\ Ending(c)'
    BY <1>5, <2>1, <2>2, <2>3, <2>4, ThreeTales DEF Announcing, Lasting, Ending
  <2>6. Heard(c)'
    BY <1>9, <1>10, <1>11, <1>12, <1>15, <2>1, <2>2, <2>3, ThreeTales
       DEF Heard, Tale, Removal, CD, Call
  <2> QED BY <1>6, <1>8, <1>11, <1>14, <1>15, <2>2, <2>4, <2>5, <2>6 DEF Turned, Tale
<1>16. CASE told[c] = <<TRUE>>
  <2>1. Over(c) /\ state[c] # "kConnected"
    BY <1>11, <1>16 DEF Tale, Ending, Over
  <2>2. told'[c] = <<TRUE, FALSE>>
    <3>1. told'[c] = Append(<<TRUE>>, FALSE)
      BY <1>5, <1>16, <2>1 DEF Parts, HistoryTypes
    <3> QED BY <3>1, AppendToOne
  <2>3. ~Live(c)' /\ Over(c)'
    BY <1>11, <2>2, ThreeTales DEF Live, Over
  <2>4. \E q \in {"closeCallback", "remove"} : Doing(q, c)'
    BY <1>9, <1>11, <1>16, <2>1 DEF Tale, Ending
  <2>5. Announcing(c)' /\ Lasting(c)'
    BY <2>2, <2>3, ThreeTales DEF Announcing, Lasting
  <2>6. Ending(c)'
    BY <1>5, <1>9, <1>11, <2>1, <2>2, <2>3, ThreeTales DEF Ending, Tale, Sends, Topmost
  <2>7. Heard(c)'
    BY <1>9, <1>11, <2>2, <2>3 DEF Heard
  <2> QED BY <1>6, <1>8, <1>11, <1>14, <1>16, <2>2, <2>4, <2>5, <2>6, <2>7 DEF Turned, Tale
<1>17. told[c] # <<TRUE, FALSE>>
  BY <1>11, ThreeTales DEF Tale, Ending, Over
<1> QED BY <1>11, <1>15, <1>16, <1>17 DEF Tale, Heard

-----------------------------------------------------------------------------
(* The turns of a loop. *)

\* A move spares every tale: epoll reports only what the user believes connected, and
\* while a loop has something left to do it stays where it is.
LEMMA MoveSpares ==
  ASSUME Parts, IInv, Story, Shuts \/ Sends, NEW l \in Loops, NEW p, NEW t, NEW a, NEW w, NEW b,
         NEW k, Move(l, p, t, a, w, b, k), Fits(l, p, t, a, w, b, k), Stack(t),
         UNCHANGED <<told, delivered, events, read>>,
         \A d \in a \ {Acceptor} : d \in active[l] \/
            (index[d] = "kAdded" /\ phase[l] = "poll" /\ p = "events"),
         \A d \in a \ {Acceptor} : \A f \in ToSet(t) : f.conn # d,
         p # phase[l] => todo[l] = <<>> /\ active[l] = {}
  PROVE  Stops' /\ Sparing
<1>1. /\ \A m \in Loops \ {l} : /\ phase'[m] = phase[m] /\ active'[m] = active[m]
                                /\ Todo(m)' = Todo(m) /\ Waiting(m)' = Waiting(m)
      /\ phase'[l] = p /\ active'[l] = a
      /\ Todo(l)' = ToSet(t) /\ Waiting(l)' = ToSet(w) \cup ToSet(b)
  BY LoopAlone
<1>2. /\ UNCHANGED <<nextConnId, connections, loopOf, state, index, held>>
      /\ base \in Loops /\ \A d : Born(d)' <=> Born(d)
  BY DEF Move, Loops, Born
<1>3. /\ \A m \in Loops : /\ Todo(m) \subseteq Todo(m)' /\ Waiting(m)' \subseteq Waiting(m)
                          /\ Todo(m) \cup Waiting(m) \subseteq Todo(m)' \cup Waiting(m)'
      /\ \A m \in Loops : \A f \in Todo(m)' :
            \/ f \in Todo(m) \/ f \in Waiting(m)
            \/ m = l /\ f.op \in Touching /\ f.conn \in active[l] \ {Acceptor}
  BY <1>1 DEF Fits
<1>4. \A m \in Loops : phase'[m] = "destroyed" <=> phase[m] = "destroyed"
  BY <1>1 DEF Fits
<1>5. Stopped => Stopped'
  BY <1>1, <1>2 DEF Stopped, Fits
<1>6. Stops'
  BY <1>4, <1>5 DEF Story, Stops
<1>7. Stacks'
  BY StacksStarted DEF Move, Story
<1>8. ASSUME NEW d \in Conns PROVE Spares(d)
  <2>0. PICK L \in Loops : L = loopOf[d]
    BY DEF Parts, ConnTypes
  <2>1. Tale(d) /\ d # Acceptor /\ loopOf'[d] = L
    BY <1>2, <2>0 DEF Story, Conns, Acceptor
  <2>2. \A q : Doing(q, d)' <=> Call(q, d) \in Todo(L)'
    BY <2>0, <2>1 DEF Doing, Call
  <2>3. \A q : /\ Doing(q, d) => Doing(q, d)'
               /\ Doing(q, d)' => \/ Doing(q, d)
                                  \/ Call(q, d) \in Waiting(L)
                                  \/ L = l /\ q \in Touching /\ d \in active[l]
    BY <1>3, <2>0, <2>2, CallEq DEF Doing
  <2>4. \A q : Call(q, d) \in Waiting(L) => q \in Deferred
    <3>1. Waiting(L) \subseteq Functors
      BY Typing
    <3> QED BY <3>1, CallEq DEF Functors
  <2>5. /\ Tells(d)' <=> Tells(d)
        /\ \A q \in {"remove", "closeCallback", "messageCallback"} : Doing(q, d)' => Doing(q, d)
        /\ \A q \in {"handleRead", "handleClose"} :
              Doing(q, d)' => Doing(q, d) \/ (L = l /\ d \in active[l])
    BY <2>3, <2>4 DEF Tells, Touching, Deferred
  <2>6. /\ \A q : Doing(q, d) => phase'[L] = phase[L]
        /\ L = l /\ d \in active[l] => phase'[L] = phase[L]
    <3>1. todo[L] = <<>> => Todo(L) = {}
      BY SetOfOne DEF Todo
    <3> QED BY <1>1, <2>0, <3>1 DEF Doing
  <2>7. ASSUME L = l, d \in a, d \notin active[l]
        PROVE  Live(d) /\ index'[d] = "kAdded" /\ phase'[L] = "events"
    <3>1. index[d] = "kAdded" /\ phase[l] = "poll" /\ p = "events"
      BY <2>1, <2>7
    <3>2. Todo(l) = {}
      BY <3>1, SetOfOne DEF Todo, IInv, Turns, TurnsAt
    <3>3. ~Tells(d) /\ ~Doing("remove", d) /\ ~Gone(d) /\ ~Awaited(d) /\ Born(d)
      BY <2>0, <2>7, <3>1, <3>2 DEF Tells, Doing, Gone, IInv, Fresh, Known
    <3>4. told[d] # <<>> /\ ~Over(d)
      BY <2>1, <3>1, <3>3 DEF Tale, Announcing, Ending
    <3> QED BY <1>1, <1>2, <2>1, <2>7, <3>1, <3>3, <3>4 DEF Tale, Heard, Live, Over
  <2>8. Near(d)' => \/ Near(d) /\ index'[d] = index[d] /\ phase'[L] = phase[L]
                    \/ Live(d) /\ index'[d] = "kAdded" /\ phase'[L] = "events"
    <3>1. ASSUME d \in active'[L] PROVE d \in active[L] \/ (L = l /\ d \in a)
      BY <1>1, <3>1
    <3>2. d \in active[L] => phase'[L] = phase[L]
      BY <1>1, <2>6
    <3>3. d \in active'[L] => \/ Near(d) /\ phase'[L] = phase[L]
                              \/ Live(d) /\ index'[d] = "kAdded" /\ phase'[L] = "events"
      BY <2>0, <2>7, <3>1, <3>2 DEF Near
    <3>4. \A q \in {"handleRead", "handleClose"} : Doing(q, d)' => Near(d) /\ phase'[L] = phase[L]
      BY <2>0, <2>5, <2>6 DEF Near
    <3> QED BY <1>2, <2>0, <3>3, <3>4 DEF Near
  <2>9. d \in active'[L] => \A f \in Todo(L)' : f.conn # d
    BY <1>1, <2>0, <2>1 DEF Tale, Watched
  <2>10. Kept(d) => Kept(d)'
    BY <1>2, <1>3, <2>0 DEF Kept, CD
  <2>11. Awaited(d)' <=> Awaited(d)
    BY <1>3, <2>0, <2>1, CallEq DEF Awaited, CE, Touching
  <2>12. /\ Removal(d) \in (Waiting(base) \cup Todo(base))' => Removal(d) \in Waiting(base) \cup Todo(base)
         /\ CD(d) \in (Waiting(L) \cup Todo(L))' => CD(d) \in Waiting(L) \cup Todo(L)
         /\ CD(d) \in Waiting(base)' => CD(d) \in Waiting(base)
    BY <1>2, <1>3, CallEq DEF Removal, CD, Touching
  <2>13. Doing("sendinLoop", d)' => Doing("sendinLoop", d) \/ Sends
    <3>1. Call("sendinLoop", d) \in Waiting(L) => "send" \in UserOps
      BY CallEq DEF IInv, Owned, OwnedAt
    <3> QED BY <2>3, <3>1 DEF Shuts, Touching
  <2>14. Alive(d)' => Alive(d)
    BY MoveFrees DEF Freeing
  <2>15. /\ Gone(d)' <=> Gone(d)
         /\ IsHeld(d)' <=> IsHeld(d)
    BY <1>2, <1>4, <2>0, <2>1 DEF Gone, IsHeld
  <2>16. /\ Doing("messageCallback", d)' => Live(d) /\ Kept(d)' /\ delivered'[d] < read'[d]
         /\ delivered'[d] <= read'[d]
         /\ Doing("remove", d)' => phase'[L] # "events"
    BY <2>0, <2>1, <2>5, <2>6, <2>10 DEF Tale, Fed, Watched
  <2>17. told' = told /\ state' = state /\ events' = events /\ index' = index
    BY <1>2
  <2>18. /\ \A q \in {"closeCallback", "remove"} : Doing(q, d) => Doing(q, d)'
         /\ Doing("closeCallback", d)' => Doing("closeCallback", d)
         /\ Doing("remove", d)' => Doing("remove", d)
    BY <2>3, <2>5
  <2>19. Removal(d)' = Removal(d) /\ CD(d)' = CD(d)
    BY DEF Removal, CD, Call
  <2> HIDE DEF Tale
  <2>20. /\ Near(d)' =>
               \/ Near(d) /\ index'[d] = index[d] /\ phase'[loopOf[d]] = phase[loopOf[d]]
               \/ Live(d) /\ index'[d] = "kAdded" /\ phase'[loopOf[d]] = "events"
         /\ d \in active'[loopOf[d]] => \A f \in Todo(loopOf[d])' : f.conn # d
         /\ Doing("remove", d)' => phase'[loopOf[d]] # "events"
    BY <2>0, <2>1, <2>8, <2>9, <2>16
  <2>21. /\ Removal(d) \in (Waiting(base) \cup Todo(base))' =>
               Removal(d) \in Waiting(base) \cup Todo(base)
         /\ CD(d) \in (Waiting(loopOf[d]) \cup Todo(loopOf[d]))' =>
               CD(d) \in Waiting(loopOf[d]) \cup Todo(loopOf[d])
         /\ CD(d) \in Waiting(base)' => CD(d) \in Waiting(base)
    BY <2>0, <2>1, <2>12, <2>19
  <2>22. told'[d] = told[d] /\ state'[d] = state[d] /\ events'[d] = events[d] /\ index'[d] = index[d]
         /\ loopOf'[d] = loopOf[d]
    BY <2>0, <2>1, <2>17
  <2> QED BY <1>2, <1>5, <2>5, <2>10, <2>11, <2>13, <2>14, <2>15, <2>16, <2>18, <2>20, <2>21, <2>22
      DEF Spares
<1> QED BY <1>6, <1>7, <1>8 DEF Sparing

\* The same, without the words of Move.
LEMMA TurnSpares ==
  ASSUME Parts, IInv, Story, Shuts \/ Sends, NEW l \in Loops, Moves(l), Stack(todo'[l]),
         UNCHANGED <<told, delivered, events, read>>,
         \A d \in active'[l] \ {Acceptor} : d \in active[l] \/
            (index[d] = "kAdded" /\ phase[l] = "poll" /\ phase'[l] = "events"),
         \A d \in active'[l] \ {Acceptor} : \A f \in Todo(l)' : f.conn # d,
         phase'[l] # phase[l] => todo[l] = <<>> /\ active[l] = {}
  PROVE  Stops' /\ Sparing
<1>1. PICK p, t, a, w, b, k : Move(l, p, t, a, w, b, k) /\ Fits(l, p, t, a, w, b, k)
  BY DEF Moves
<1>2. phase'[l] = p /\ todo'[l] = t /\ active'[l] = a /\ Todo(l)' = ToSet(t)
  BY <1>1, LoopAlone
<1> QED BY <1>1, <1>2, MoveSpares

\* What handleEvent calls is a stack: handleClose comes first and only without EPOLLIN,
\* and before handleRead there is handleError at most.
LEMMA EventStack ==
  ASSUME NEW l \in Loops, NEW c \in Conns, Parts, handleEvent(l, c) PROVE Stack(todo'[l])
<1> DEFINE one(b, o) == IF b THEN <<Call(o, c)>> ELSE <<>>
           r == revents[c]
           A == one("hup" \in r /\ "in" \notin r, "handleClose")
           B == one("err" \in r, "handleError")
           C == one("in" \in r, "handleRead")
           D == one("out" \in r, "handleWrite")
           u == A \o B
           v == u \o C
           t == v \o D
<1>1. todo'[l] = t
  BY DEF handleEvent, Parts, TodoTypes
<1>2. ASSUME NEW o, NEW b
      PROVE  /\ one(b, o) \in Seq({Call(o, c)})
             /\ Len(one(b, o)) \in {0, 1} /\ (~b => Len(one(b, o)) = 0)
             /\ \A i \in DOMAIN one(b, o) : one(b, o)[i].op = o /\ i = 1
  <2>1. CASE b
    <3>1. one(b, o) = <<Call(o, c)>>
      BY <2>1
    <3>2. PICK x : x = Call(o, c) /\ x.op = o
      BY CallEq
    <3>3. PICK z : z = one(b, o)
      OBVIOUS
    <3>4. z = <<x>>
      BY <3>1, <3>2, <3>3
    <3>5. z \in Seq({x}) /\ Len(z) = 1 /\ DOMAIN z = {1} /\ z[1] = x
      BY <3>4
    <3> HIDE DEF one
    <3> QED BY <2>1, <3>2, <3>3, <3>5
  <2>2. CASE ~b
    <3>1. one(b, o) = <<>>
      BY <2>2
    <3> HIDE DEF one
    <3> QED BY <3>1
  <2> QED BY <2>1, <2>2
<1> HIDE DEF one
<1>3. /\ A \in Seq({Call("handleClose", c)}) /\ B \in Seq({Call("handleError", c)})
      /\ C \in Seq({Call("handleRead", c)}) /\ D \in Seq({Call("handleWrite", c)})
      /\ Len(A) \in {0, 1} /\ Len(B) \in {0, 1} /\ Len(C) \in {0, 1} /\ Len(D) \in {0, 1}
      /\ Len(C) = 0 \/ Len(A) = 0
      /\ \A i \in DOMAIN A : A[i].op = "handleClose" /\ i = 1
      /\ \A i \in DOMAIN B : B[i].op = "handleError" /\ i = 1
      /\ \A i \in DOMAIN C : C[i].op = "handleRead" /\ i = 1
      /\ \A i \in DOMAIN D : D[i].op = "handleWrite" /\ i = 1
  <2>1. /\ A \in Seq({Call("handleClose", c)}) /\ Len(A) \in {0, 1}
        /\ ~("hup" \in r /\ "in" \notin r) => Len(A) = 0
        /\ \A i \in DOMAIN A : A[i].op = "handleClose" /\ i = 1
    BY <1>2
  <2>2. /\ B \in Seq({Call("handleError", c)}) /\ Len(B) \in {0, 1}
        /\ \A i \in DOMAIN B : B[i].op = "handleError" /\ i = 1
    BY <1>2
  <2>3. /\ C \in Seq({Call("handleRead", c)}) /\ Len(C) \in {0, 1}
        /\ "in" \notin r => Len(C) = 0
        /\ \A i \in DOMAIN C : C[i].op = "handleRead" /\ i = 1
    BY <1>2
  <2>4. /\ D \in Seq({Call("handleWrite", c)}) /\ Len(D) \in {0, 1}
        /\ \A i \in DOMAIN D : D[i].op = "handleWrite" /\ i = 1
    BY <1>2
  <2> HIDE DEF A, B, C, D
  <2> QED BY <2>1, <2>2, <2>3, <2>4
<1> HIDE DEF A, B, C, D
<1>4. /\ Len(u) = Len(A) + Len(B) /\ DOMAIN u = 1 .. Len(u)
      /\ \A i \in DOMAIN u : u[i].op \in {"handleClose", "handleError"} /\
                             (u[i].op = "handleClose" => i = 1) /\ (i = 1 /\ Len(A) = 0 => u[i].op = "handleError")
  <2>1. \A i \in DOMAIN u : \/ i \in DOMAIN A /\ u[i] = A[i]
                            \/ i - Len(A) \in DOMAIN B /\ u[i] = B[i - Len(A)] /\ i > Len(A)
    BY <1>3
  <2> QED BY <1>3, <2>1
<1>5. u \in Seq({Call("handleClose", c), Call("handleError", c)})
  BY <1>3
<1> HIDE DEF u
<1>6. /\ Len(v) = Len(u) + Len(C) /\ DOMAIN v = 1 .. Len(v)
      /\ \A i \in DOMAIN v : /\ v[i].op \in {"handleClose", "handleError", "handleRead"}
                             /\ v[i].op = "handleClose" => i = 1
                             /\ v[i].op = "handleRead" =>
                                   i = 1 \/ (i = 2 /\ 1 \in DOMAIN v /\ v[1].op = "handleError")
  <2>1. \A i \in DOMAIN v : \/ i \in DOMAIN u /\ v[i] = u[i]
                            \/ i - Len(u) \in DOMAIN C /\ v[i] = C[i - Len(u)] /\ i > Len(u)
    BY <1>3, <1>5
  <2>2. ASSUME NEW i \in DOMAIN v, i - Len(u) \in DOMAIN C
        PROVE  i = 1 \/ (i = 2 /\ 1 \in DOMAIN v /\ v[1].op = "handleError")
    <3>1. Len(A) = 0 /\ i = Len(u) + 1 /\ Len(u) \in {0, 1}
      BY <1>3, <1>4, <1>5, <2>2
    <3>2. Len(u) = 1 => 1 \in DOMAIN u /\ v[1] = u[1] /\ 1 \in DOMAIN v
      BY <1>3, <1>5
    <3> QED BY <1>4, <3>1, <3>2
  <2> QED BY <1>3, <1>4, <1>5, <2>1, <2>2
<1>7. v \in Seq(Calls)
  <2>1. \A o \in {"handleClose", "handleError", "handleRead"} : Call(o, c) \in Calls
    BY CallTyped DEF Nested
  <2>2. u \in Seq(Calls) /\ C \in Seq(Calls)
    BY <1>3, <1>5, <2>1
  <2> QED BY <2>2
<1> HIDE DEF v
<1>8. \A i \in DOMAIN t : \/ i \in DOMAIN v /\ t[i] = v[i]
                          \/ i - Len(v) \in DOMAIN D /\ t[i] = D[i - Len(v)]
  BY <1>3, <1>7
<1>9. 1 \in DOMAIN v => t[1] = v[1]
  BY <1>3, <1>7
<1> HIDE DEF t
<1> QED BY <1>1, <1>3, <1>6, <1>8, <1>9 DEF Stack, Topmost, Once

\* What is left alone by the turns of a loop.
LEMMA NoNews ==
  ASSUME NEW l, \/ epoll(l) \/ swapPendFuncs(l) \/ runFunctor(l) \/ doPendFuncDone(l) \/ acceptFails
                \/ (\E c \in Conns : handleEvent(l, c)) \/ (\E p : enter(l, p))
  PROVE  UNCHANGED <<told, delivered, events, read>>
BY DEF epoll, swapPendFuncs, runFunctor, doPendFuncDone, acceptFails, accepting, handleEvent,
  enter, regVars, outside, sockVars, history

\* A turn with nothing on the stack and no new event, as the swap of doPendFunc, its
\* end, the accept that fails, and what the end of a loop begins with.
LEMMA StillSpares ==
  ASSUME Parts, IInv, Story, Shuts \/ Sends, NEW l \in Loops, Moves(l),
         UNCHANGED <<told, delivered, events, read>>,
         todo[l] = <<>>, todo' = todo, active'[l] \subseteq active[l],
         phase'[l] # phase[l] => active[l] = {}
  PROVE  Stops' /\ Sparing
<1>1. Todo(l)' = {} /\ todo'[l] = <<>>
  BY SetOfOne DEF Todo
<1>2. Stack(<<>>)
  BY DEF Stack
<1> QED BY <1>1, <1>2, TurnSpares

\* epoll reports what is registered and not forgotten.
LEMMA EpollSpares ==
  ASSUME Parts, IInv, Story, Shuts \/ Sends, NEW l \in Loops, epoll(l) PROVE Stops' /\ Sparing
<1>1. Moves(l) /\ UNCHANGED <<told, delivered, events, read>>
  BY EpollKeeps, NoNews
<1>2. /\ phase[l] = "poll" /\ todo[l] = <<>> /\ active[l] = {} /\ todo' = todo
      /\ phase'[l] = "events"
  BY DEF epoll, IInv, Turns, TurnsAt, Parts, LoopTypes
<1>3. \A d \in active'[l] \ {Acceptor} : index[d] = "kAdded"
  <2>1. PICK W \in SUBSET {c \in Registered(l) : isWriting(c)} :
           active' = [active EXCEPT ![l] = {c \in Registered(l) : Revents(c, W) # {}} \cup
                         {x \in {Acceptor} : l = base /\ backlog > 0}]
    BY DEF epoll
  <2> QED BY <2>1 DEF Registered, Parts, LoopTypes
<1>4. Todo(l)' = {} /\ Stack(todo'[l])
  BY <1>2, SetOfOne DEF Todo, Stack
<1> QED BY <1>1, <1>2, <1>3, <1>4, TurnSpares

\* handleEvent handles one of them at a time.
LEMMA EventSpares ==
  ASSUME Parts, IInv, Story, Shuts \/ Sends, NEW l \in Loops, NEW c \in Conns, handleEvent(l, c)
  PROVE  Stops' /\ Sparing
<1>1. /\ Moves(l) /\ UNCHANGED <<told, delivered, events, read>>
      /\ Stack(todo'[l]) /\ \A f \in Todo(l)' : f.conn = c
  BY HandleEventKeeps, NoNews, EventStack
<1>2. phase' = phase /\ active'[l] = active[l] \ {c} /\ todo[l] = <<>> /\ Todo(l) = {}
  BY SetOfOne DEF handleEvent, Parts, LoopTypes, Todo
<1> QED BY <1>1, <1>2, TurnSpares

\* doPendFunc runs a functor.
LEMMA RunSpares ==
  ASSUME Parts, IInv, Story, Shuts \/ Sends, NEW l \in Loops, runFunctor(l)
  PROVE  Stops' /\ Sparing
<1>1. Moves(l) /\ UNCHANGED <<told, delivered, events, read>>
  BY RunKeeps, NoNews
<1>2. /\ phase[l] = "functors" /\ phase' = phase /\ active' = active /\ batch[l] # <<>>
      /\ todo'[l] = <<Head(batch[l])>>
  BY DEF runFunctor, Parts, TodoTypes
<1>3. active[l] = {}
  BY <1>2 DEF IInv, Turns, TurnsAt
<1>4. Stack(todo'[l])
  <2>1. Head(batch[l]) \in Functors
    BY <1>2 DEF Parts, LoopTypes
  <2>2. Head(batch[l]).op # "handleRead"
    BY <2>1 DEF Functors, Deferred
  <2> QED BY <1>2, <2>2 DEF Stack
<1> QED BY <1>1, <1>2, <1>3, <1>4, TurnSpares

\* Every turn spares every tale.
LEMMA TurnsSpare ==
  ASSUME Parts, IInv, Story, Shuts \/ Sends, NEW l \in Loops,
         \/ epoll(l) \/ swapPendFuncs(l) \/ runFunctor(l) \/ doPendFuncDone(l)
         \/ (l = base /\ (acceptFails \/ quitLoop \/ quitBase)) \/ leaveLoop(l)
         \/ \E c \in Conns : handleEvent(l, c)
  PROVE  Stops' /\ Sparing
<1>1. CASE swapPendFuncs(l)
  BY <1>1, SwapKeeps, NoNews, StillSpares DEF swapPendFuncs
<1>2. CASE doPendFuncDone(l)
  <2>1. todo[l] = <<>> /\ todo' = todo /\ active' = active /\ active[l] = {}
    BY <1>2 DEF doPendFuncDone, IInv, Turns, TurnsAt
  <2> QED BY <1>2, <2>1, DoneKeeps, NoNews, StillSpares
<1>3. CASE l = base /\ acceptFails
  <2>1. todo[l] = <<>> /\ todo' = todo /\ active'[l] \subseteq active[l] /\ phase' = phase
    BY <1>3 DEF acceptFails, accepting, Parts, LoopTypes
  <2> QED BY <1>3, <2>1, AcceptFailsKeeps, NoNews, StillSpares
<1>4. CASE (l = base /\ (quitLoop \/ quitBase)) \/ leaveLoop(l)
  <2>1. PICK p \in {"exited", "joining"} :
           /\ enter(l, p)
           /\ \/ l = base /\ p = "exited" /\ MayStop /\ phase[l] = "poll"
              \/ l = base /\ p = "joining" /\ phase[l] = "exited" /\ todo[l] = <<>>
              \/ l # base /\ p = "exited" /\ phase[l] = "poll" /\ Told(l)
    BY <1>4 DEF quitLoop, quitBase, ServerGone, leaveLoop, Told
  <2>2. Moves(l)
    BY <2>1, EnterKeeps
  <2>3. UNCHANGED <<told, delivered, events, read>>
    BY <2>1, NoNews
  <2>4. todo[l] = <<>> /\ active[l] = {} /\ todo' = todo /\ active' = active
    BY <2>1 DEF enter, IInv, Turns, TurnsAt
  <2> QED BY <2>2, <2>3, <2>4, StillSpares
<1> QED BY <1>1, <1>2, <1>3, <1>4, EpollSpares, EventSpares, RunSpares

-----------------------------------------------------------------------------
(* The peers, the threads of the user, and the end. *)

\* What is done outside the loops spares every tale: a functor is queued, a pointer
\* dropped, kDisconnecting assigned by a thread that has the pointer.
LEMMA AsideSpares ==
  ASSUME Parts, IInv, Story, Freeing,
         UNCHANGED <<phase, todo, active, connections, nextConnId, loopOf, events, index, told,
                     delivered, read>>,
         \A d \in Conns : \/ state'[d] = state[d]
                          \/ told[d] # <<>> /\ state'[d] = "kDisconnecting" /\ ~Sends,
         \A m \in Loops : Waiting(m) \subseteq Waiting(m)',
         \A m \in Loops : \A f \in Waiting(m)' : f \in Waiting(m) \/ f.op \in Raw,
         \A d \in Conns : IsHeld(d)' => IsHeld(d)
  PROVE  Stops' /\ Sparing
<1>1. Stops' /\ Stacks'
  BY DEF Story, Stops, Stopped, Stacks
<1>2. ASSUME NEW d \in Conns PROVE Spares(d)
  <2>0. PICK L \in Loops : L = loopOf[d]
    BY DEF Parts, ConnTypes
  <2>1. Tale(d) /\ loopOf'[d] = L /\ base \in Loops
    BY <2>0 DEF Story, Loops
  <2>2. \A m \in Loops : Todo(m)' = Todo(m)
    BY DEF Todo
  <2>3. \A q : Doing(q, d)' <=> Doing(q, d)
    BY <2>0, <2>1, <2>2 DEF Doing, Call
  <2>4. /\ (Tells(d)' <=> Tells(d)) /\ (Near(d)' <=> Near(d)) /\ (Gone(d)' <=> Gone(d))
        /\ (Stopped' <=> Stopped) /\ (Born(d)' <=> Born(d))
    BY <2>3 DEF Tells, Near, Gone, Stopped, Born
  <2>5. \A q \in {"connectEstablished", "connectDestroyed", "removeConnectionInLoop"} :
           \A m \in Loops : Call(q, d) \in Waiting(m)' <=> Call(q, d) \in Waiting(m)
    BY CallEq DEF Raw
  <2>6. /\ Kept(d)' <=> Kept(d)
        /\ Awaited(d)' <=> Awaited(d)
    BY <2>0, <2>1, <2>2, <2>5 DEF Kept, Awaited, CD, CE, Call
  <2>7. /\ Removal(d) \in (Waiting(base) \cup Todo(base))' =>
              Removal(d) \in Waiting(base) \cup Todo(base)
        /\ CD(d) \in (Waiting(loopOf[d]) \cup Todo(loopOf[d]))' =>
              CD(d) \in Waiting(loopOf[d]) \cup Todo(loopOf[d])
        /\ CD(d) \in Waiting(base)' => CD(d) \in Waiting(base)
    BY <2>0, <2>1, <2>2, <2>5 DEF Removal, CD, Call
  <2>8. /\ Doing("messageCallback", d)' => Live(d) /\ Kept(d)' /\ delivered'[d] < read'[d]
        /\ delivered'[d] <= read'[d]
        /\ Doing("remove", d)' => phase'[loopOf[d]] # "events"
        /\ d \in active'[loopOf[d]] => \A f \in Todo(loopOf[d])' : f.conn # d
    BY <2>0, <2>1, <2>2, <2>3, <2>6 DEF Tale, Fed, Watched
  <2>9. Alive(d)' => Alive(d)
    BY DEF Freeing
  <2> QED BY <2>0, <2>1, <2>3, <2>4, <2>6, <2>7, <2>8, <2>9 DEF Spares
<1> QED BY <1>1, <1>2 DEF Sparing

\* The peers, and the steps that change nothing.
LEMMA PeersSpare ==
  ASSUME Parts, IInv, Story, \/ PeerConnects \/ (\E c \in Conns : PeerStep(c)) \/ UNCHANGED vars
  PROVE  Stops' /\ Sparing
<1>1. /\ UNCHANGED <<phase, todo, active, connections, nextConnId, loopOf, events, index, told,
                     delivered, read, state, pend, batch, kept, held>>
  BY DEF PeerConnects, PeerStep, PeerSends, PeerCloses, PeerResets, vars, loopVars, turnVars,
     connVars, regVars, outside, serverVars, sockVars, userVars, history
<1>2. Freeing
  BY <1>1 DEF Freeing, Alive, Born
<1>3. (\A m \in Loops : Waiting(m)' = Waiting(m)) /\ \A d \in Conns : IsHeld(d)' => IsHeld(d)
  BY <1>1 DEF Waiting, Pend, Batch, IsHeld
<1> QED BY <1>1, <1>2, <1>3, AsideSpares

\* The threads of the user: who keeps a pointer has been told of the connection.
LEMMA UserSpares ==
  ASSUME Parts, IInv, Story, Careful, NEW p \in Users, NEW c \in Conns,
         \/ userDrops(p, c) \/ userSetDisconnecting(p, c) \/ userQueues(p, c)
         \/ \E op \in UserOps : userCalls(p, c, op)
  PROVE  Stops' /\ Sparing
<1>1. /\ UNCHANGED <<phase, todo, active, connections, nextConnId, loopOf, events, index, told,
                     delivered, read, batch, kept>>
  BY DEF userDrops, userSetDisconnecting, userQueues, userCalls, loopVars, turnVars, connVars,
     regVars, serverVars, sockVars, history
<1>2. Freeing
  BY UserCallsKeeps, UserDropsKeeps, UserGoesOnKeeps
<1>3. \A d \in Conns : IsHeld(d)' => IsHeld(d)
  BY DEF userDrops, userSetDisconnecting, userQueues, userCalls, Parts, UserTypes, IsHeld
<1>4. CASE userDrops(p, c) \/ \E op \in UserOps : userCalls(p, c, op)
  <2>1. state' = state /\ \A m \in Loops : Waiting(m)' = Waiting(m)
    BY <1>1, <1>4 DEF userDrops, userCalls, loopVars, connVars, Waiting, Pend, Batch
  <2> QED BY <1>1, <1>2, <1>3, <2>1, AsideSpares
<1>5. CASE userSetDisconnecting(p, c)
  <2>1. c \in held[p] /\ "shutdown" \in UserOps
    BY <1>5, CallEq DEF userSetDisconnecting, IInv, Asked, Idle, Conns, Call
  <2>2. told[c] # <<>> /\ ~Sends
    BY <2>1 DEF Story, Tale, Announcing, IsHeld, Sends
  <2>3. /\ state'[c] = "kDisconnecting" /\ \A d \in Conns \ {c} : state'[d] = state[d]
        /\ \A m \in Loops : Waiting(m)' = Waiting(m)
    BY <1>1, <1>5 DEF userSetDisconnecting, loopVars, Parts, ConnTypes, Waiting, Pend, Batch
  <2>4. \A d \in Conns : \/ state'[d] = state[d]
                         \/ told[d] # <<>> /\ state'[d] = "kDisconnecting" /\ ~Sends
    BY <2>2, <2>3
  <2> QED BY <1>1, <1>2, <1>3, <2>3, <2>4, AsideSpares
<1>6. CASE userQueues(p, c)
  <2>1. PICK o \in Raw : queueinLoop(loopOf[c], Call(o, c))
    BY <1>6 DEF userQueues
  <2>2. PICK m \in Loops : m = loopOf[c]
    BY DEF Parts, ConnTypes
  <2>3. Call(o, c) \in Functors /\ Call(o, c).op \in Raw
    BY CallEq, CallTyped DEF Raw, Deferred
  <2>4. \A n \in Loops : Pend(n)' = Pend(n) \cup {f \in {Call(o, c)} : n = m}
    BY <2>1, <2>2, <2>3, Queueing DEF Raw
  <2>5. \A n \in Loops : Waiting(n)' = Waiting(n) \cup {f \in {Call(o, c)} : n = m}
    BY <1>1, <2>4 DEF Waiting, Batch
  <2>6. state' = state
    BY <1>6 DEF userQueues, connVars
  <2> QED BY <1>1, <1>2, <1>3, <2>3, <2>5, <2>6, AsideSpares
<1> QED BY <1>4, <1>5, <1>6

\* One turn of the loop of ~Server spares every tale: it keeps the connection no less
\* than the map did.
LEMMA DestroyServerSpares ==
  ASSUME Parts, IInv, Story, NEW c \in Conns, destroyServer(c) PROVE Stops' /\ Sparing
<1>1. /\ UNCHANGED <<phase, active, nextConnId, loopOf, state, events, index, held, told,
                     delivered, read>>
      /\ connections' = connections \ {c} /\ phase[base] = "exited" /\ todo[base] = <<>>
      /\ \/ todo' = todo
         \/ todo' = [todo EXCEPT ![base] = <<CD(c)>>]
  BY DEF destroyServer, turnVars, connVars, regVars, outside, userVars, sockVars, history, CD
<1>2. /\ base \in Loops /\ Stopped /\ Stopped' /\ active[base] = {} /\ Todo(base) = {}
  BY <1>1, SetOfOne DEF Loops, Stopped, IInv, Turns, TurnsAt, Todo
<1>3. /\ Freeing /\ Destroying(c)
  BY DestroyServerKeeps
<1>4. Stops' /\ Stacks'
  <2>1. Stack(<<CD(c)>>)
    BY CallEq DEF Stack, CD
  <2>2. todo' = todo => Stacks'
    BY DEF Story, Stacks
  <2> QED BY <1>1, <1>2, <2>1, <2>2, StacksStarted DEF Story, Stops
<1>5. ASSUME NEW d \in Conns PROVE Spares(d)
  <2>0. PICK L \in Loops : L = loopOf[d]
    BY DEF Parts, ConnTypes
  <2>1. Tale(d) /\ loopOf'[d] = L
    BY <1>1, <2>0 DEF Story
  <2>2. \A q : /\ Call(q, d) # CD(c) <=> (q # "connectDestroyed" \/ d # c)
               /\ \A m \in Loops : Call(q, d) # CD(c) =>
                     /\ Call(q, d) \in Todo(m)' <=> Call(q, d) \in Todo(m)
                     /\ Call(q, d) \in Waiting(m)' <=> Call(q, d) \in Waiting(m)
    BY <1>3, CallEq DEF Destroying, CD
  <2>3. \A q : q # "connectDestroyed" => (Doing(q, d)' <=> Doing(q, d))
    BY <2>0, <2>1, <2>2 DEF Doing, Call
  <2>4. /\ (Tells(d)' <=> Tells(d)) /\ (Near(d)' <=> Near(d)) /\ (Gone(d)' <=> Gone(d))
        /\ (Born(d)' <=> Born(d)) /\ (IsHeld(d)' <=> IsHeld(d))
    BY <1>1, <2>3 DEF Tells, Near, Gone, Born, IsHeld
  <2>5. Awaited(d)' <=> Awaited(d)
    BY <2>0, <2>1, <2>2 DEF Awaited, CE, Call
  <2>6. Kept(d) => Kept(d)'
    <3>1. CD(d)' = CD(d) /\ \A m \in Loops : Todo(m) \subseteq Todo(m)' /\ Waiting(m) \subseteq Waiting(m)'
      BY <1>3 DEF CD, Call, Destroying
    <3>2. CASE d = c
      <4>1. CD(c) \in Waiting(L)' \cup Todo(L)'
        BY <1>2, <1>3, <2>0, <3>2 DEF Destroying
      <4> QED BY <2>0, <2>1, <3>1, <3>2, <4>1 DEF Kept
    <3>3. CASE d # c
      BY <1>1, <2>0, <2>1, <3>1, <3>3 DEF Kept
    <3> QED BY <3>2, <3>3
  <2>7. /\ Removal(d) \in (Waiting(base) \cup Todo(base))' =>
              Removal(d) \in Waiting(base) \cup Todo(base)
        /\ CD(d) \in Waiting(base)' => CD(d) \in Waiting(base)
    <3>1. \A f \in Waiting(base)' : f \in Waiting(base)
      BY <1>2, <1>3 DEF Destroying
    <3> QED BY <1>2, <2>2, <3>1 DEF Removal, CD, Call
  <2>8. d \in active'[loopOf[d]] => \A f \in Todo(loopOf[d])' : f.conn # d
    <3>1. L # base => Todo(L)' = Todo(L)
      BY <1>3 DEF Destroying
    <3> QED BY <1>1, <1>2, <2>0, <2>1, <3>1 DEF Tale, Watched
  <2>9. /\ Doing("messageCallback", d)' => Live(d) /\ Kept(d)' /\ delivered'[d] < read'[d]
        /\ delivered'[d] <= read'[d]
        /\ Doing("remove", d)' => phase'[loopOf[d]] # "events"
    BY <1>1, <2>1, <2>3, <2>6 DEF Tale, Fed, Watched
  <2>10. Alive(d)' => Alive(d)
    BY <1>3 DEF Freeing
  <2> QED BY <1>1, <1>2, <2>0, <2>1, <2>3, <2>4, <2>5, <2>6, <2>7, <2>8, <2>9, <2>10 DEF Spares
<1> QED BY <1>4, <1>5 DEF Sparing

\* ~EventLoop spares every tale: where it drops what kept a connection the loop is gone,
\* and the base loop drops no connectDestroyed but of connections whose end was told.
LEMMA DestroyLoopSpares ==
  ASSUME Parts, IInv, Story, NEW l \in Loops, destroyLoop(l) PROVE Stops' /\ Sparing
<1>1. /\ UNCHANGED <<todo, active, batch, connections, nextConnId, loopOf, state, events, index,
                     held, told, delivered, read>>
      /\ phase' = [phase EXCEPT ![base] = "exited", ![l] = "destroyed"]
      /\ pend' = [pend EXCEPT ![l] = <<>>]
      /\ phase[l] = "exited" /\ (l = base => connections = {} /\ todo[l] = <<>>)
  BY DEF destroyLoop, dropped, serverVars, connVars, outside, userVars, sockVars, history, ServerGone
<1>2. /\ base \in Loops /\ phase[base] \in {"exited", "joining"} /\ Stopped
      /\ todo[l] = <<>> /\ Todo(l) = {}
  BY <1>1, SetOfOne DEF Loops, Stopped, IInv, Turns, TurnsAt, Todo
<1>3. /\ phase'[l] = "destroyed" /\ (l # base => phase'[base] = "exited")
      /\ \A m \in Loops \ {l, base} : phase'[m] = phase[m]
      /\ \A m \in Loops : Todo(m)' = Todo(m)
      /\ \A m \in Loops : Waiting(m)' \subseteq Waiting(m) /\ (m # l => Waiting(m)' = Waiting(m))
  <2>1. \A m \in Loops : pend'[m] = IF m = l THEN <<>> ELSE pend[m]
    BY <1>1 DEF Parts, PendTypes
  <2> QED BY <1>1, <1>2, <2>1, SetOfOne DEF Parts, LoopTypes, Todo, Waiting, Pend, Batch
<1>4. Stopped'
  BY <1>2, <1>3 DEF Stopped
<1>5. Stops' /\ Stacks'
  BY <1>1, <1>4 DEF Story, Stops, Stacks
<1>6. Freeing
  BY DestroyLoopKeeps
<1>7. ASSUME NEW d \in Conns PROVE Spares(d)
  <2>0. PICK L \in Loops : L = loopOf[d]
    BY DEF Parts, ConnTypes
  <2>1. Tale(d) /\ loopOf'[d] = L
    BY <1>1, <2>0 DEF Story
  <2>2. \A q : Doing(q, d)' <=> Doing(q, d)
    BY <1>3, <2>0, <2>1 DEF Doing, Call
  <2>3. (Tells(d)' <=> Tells(d)) /\ (Born(d)' <=> Born(d)) /\ (IsHeld(d)' <=> IsHeld(d))
    BY <1>1, <2>2 DEF Tells, Born, IsHeld
  <2>4. Gone(d) \/ (L = l /\ l # base) => Gone(d)'
    BY <1>1, <1>3, <2>0, <2>1 DEF Gone
  <2>5. Near(d)' => Near(d) /\ phase'[loopOf[d]] = phase[loopOf[d]]
    <3>1. Near(d)' => Near(d)
      BY <1>1, <2>2 DEF Near
    <3>2. Near(d) => phase[L] = "events"
      BY <2>0, <2>1 DEF Tale, Watched
    <3> QED BY <1>1, <1>2, <1>3, <2>0, <3>1, <3>2
  <2>6. /\ Awaited(d)' => Awaited(d)
        /\ Awaited(d) => Awaited(d)' \/ Gone(d)'
    <3>1. CE(d)' = CE(d)
      BY DEF CE, Call
    <3>2. L = l /\ l = base => ~Awaited(d)
      BY <1>2, <2>0, CallEq DEF Awaited, IInv, Order, OrderAt, CE
    <3> QED BY <1>3, <2>0, <2>1, <2>4, <3>1, <3>2 DEF Awaited
  <2>7. /\ L # l /\ Kept(d) => Kept(d)'
        /\ Live(d) /\ Kept(d) => Kept(d)' \/ Gone(d)'
    <3>1. CD(d)' = CD(d)
      BY DEF CD, Call
    <3>2. L # l /\ Kept(d) => Kept(d)'
      BY <1>1, <1>3, <2>0, <2>1, <3>1 DEF Kept
    <3>3. ASSUME L = l, l = base, Kept(d) PROVE ~Live(d)
      <4>1. CD(d) \in Waiting(base)
        BY <1>1, <1>2, <2>0, <3>3 DEF Kept
      <4> QED BY <2>1, <4>1, ThreeTales DEF Tale, Heard, Live
    <3> QED BY <2>4, <3>2, <3>3
  <2>8. /\ Removal(d) \in (Waiting(base) \cup Todo(base))' =>
              Removal(d) \in Waiting(base) \cup Todo(base)
        /\ CD(d) \in (Waiting(loopOf[d]) \cup Todo(loopOf[d]))' =>
              CD(d) \in Waiting(loopOf[d]) \cup Todo(loopOf[d])
        /\ CD(d) \in Waiting(base)' => CD(d) \in Waiting(base)
    BY <1>2, <1>3, <2>0, <2>1 DEF Removal, CD, Call
  <2>9. /\ Doing("messageCallback", d)' => Live(d) /\ Kept(d)' /\ delivered'[d] < read'[d]
        /\ delivered'[d] <= read'[d]
        /\ d \in active'[loopOf[d]] => \A f \in Todo(loopOf[d])' : f.conn # d
    <3>1. Doing("messageCallback", d) => L # l
      BY <1>2, <2>0 DEF Doing
    <3> QED BY <1>1, <1>3, <2>0, <2>1, <2>2, <2>7, <3>1 DEF Tale, Fed, Watched
  <2>10. Doing("remove", d)' => phase'[loopOf[d]] # "events"
    <3>1. Doing("remove", d) => phase[L] # "events"
      BY <2>0, <2>1 DEF Tale, Watched
    <3>2. phase'[L] = "events" => phase[L] = "events"
      BY <1>3
    <3> QED BY <2>0, <2>2, <3>1, <3>2
  <2>11. Alive(d)' => Alive(d)
    BY <1>6 DEF Freeing
  <2> QED BY <1>1, <1>4, <2>0, <2>1, <2>2, <2>3, <2>4, <2>5, <2>6, <2>7, <2>8, <2>9, <2>10, <2>11
      DEF Spares
<1> QED BY <1>5, <1>7 DEF Sparing

\* An accept starts a tale: nobody but the map knows of the connection, and its
\* connectEstablished is on the way.
LEMMA AcceptTurns ==
  ASSUME Parts, Counted, IInv, Story, newConnection
  PROVE  Stops' /\ \E c \in Conns : Turned(c) /\ ~Born(c) /\ told'[c] = <<>>
                      /\ \A d \in Conns \ {c} : (Alive(d)' => Alive(d))
<1>1. PICK c \in Conns, n \in Loops : c = nextConnId /\ Accepting(c, n)
  BY NewConnectionKeeps
<1>2. /\ UNCHANGED <<phase, state, events, index, held, told, delivered, read>>
      /\ connections \subseteq connections' /\ base \in Loops
      /\ todo[base] = <<>> /\ Todo(base) = {}
      /\ \/ todo' = todo \/ todo' = [todo EXCEPT ![base] = <<CE(c)>>]
  BY <1>1, SetOfOne DEF newConnection, accepting, regVars, outside, userVars, sockVars, history, CE,
     Loops, Todo
<1>3. Stops' /\ Stacks' /\ (Stopped' <=> Stopped)
  <2>1. Stack(<<CE(c)>>)
    BY CallEq DEF Stack, CE
  <2>2. todo' = todo => Stacks'
    BY DEF Story, Stacks
  <2> QED BY <1>2, <2>1, <2>2, StacksStarted DEF Story, Stops, Stopped
<1>4. ASSUME NEW d \in Conns, d # c PROVE Spares(d)
  <2>0. PICK L \in Loops : L = loopOf[d]
    BY DEF Parts, ConnTypes
  <2>1. Tale(d) /\ loopOf'[d] = L
    BY <1>1, <1>4, <2>0 DEF Story, Accepting
  <2>2. /\ \A q : \A m \in Loops : /\ Call(q, d) \in Todo(m)' <=> Call(q, d) \in Todo(m)
                                   /\ Call(q, d) \in Waiting(m)' <=> Call(q, d) \in Waiting(m)
    BY <1>1, <1>4, CallEq DEF Accepting, CE
  <2>3. \A q : Doing(q, d)' <=> Doing(q, d)
    BY <2>0, <2>1, <2>2 DEF Doing, Call
  <2>4. /\ (Tells(d)' <=> Tells(d)) /\ (Gone(d)' <=> Gone(d)) /\ (IsHeld(d)' <=> IsHeld(d))
        /\ Near(d)' => Near(d)
        /\ (Born(d)' <=> Born(d)) /\ (Kept(d)' <=> Kept(d)) /\ (Awaited(d)' <=> Awaited(d))
        /\ Alive(d)' => Alive(d)
    BY <1>1, <1>2, <1>4, <2>0, <2>1, <2>3 DEF Tells, Near, Gone, IsHeld, Accepting
  <2>5. /\ Removal(d) \in (Waiting(base) \cup Todo(base))' =>
              Removal(d) \in Waiting(base) \cup Todo(base)
        /\ CD(d) \in (Waiting(loopOf[d]) \cup Todo(loopOf[d]))' =>
              CD(d) \in Waiting(loopOf[d]) \cup Todo(loopOf[d])
        /\ CD(d) \in Waiting(base)' => CD(d) \in Waiting(base)
    BY <1>2, <2>0, <2>1, <2>2 DEF Removal, CD, Call
  <2>6. d \in active'[loopOf[d]] => \A f \in Todo(loopOf[d])' : f.conn # d
    <3>1. \A f \in Todo(L)' : f \in Todo(L) \/ f = CE(c)
      BY <1>1 DEF Accepting
    <3>2. CE(c).conn # d
      BY <1>4, CallEq DEF CE
    <3>3. d \in active'[L] => d \in active[L]
      BY <1>1 DEF Accepting
    <3> QED BY <2>0, <2>1, <3>1, <3>2, <3>3 DEF Tale, Watched
  <2>7. /\ Doing("messageCallback", d)' => Live(d) /\ Kept(d)' /\ delivered'[d] < read'[d]
        /\ delivered'[d] <= read'[d]
        /\ Doing("remove", d)' => phase'[loopOf[d]] # "events"
    BY <1>2, <2>0, <2>1, <2>3, <2>4 DEF Tale, Fed, Watched
  <2> QED BY <1>2, <1>3, <2>0, <2>1, <2>3, <2>4, <2>5, <2>6, <2>7 DEF Spares
<1>5. ~Born(c) /\ told[c] = <<>> /\ told'[c] = <<>> /\ loopOf'[c] = n /\ delivered[c] <= read[c]
  BY <1>1, <1>2 DEF Story, Tale, Heard, Fed, Accepting
<1>6. \A q : \A m \in Loops : Call(q, c) \in Todo(m)' \cup Waiting(m)' => q = "connectEstablished"
  BY <1>1, CallEq DEF Accepting, CE
<1>7. /\ \A q : Doing(q, c)' => q = "connectEstablished"
      /\ Removal(c) \notin (Waiting(base) \cup Todo(base))'
      /\ CD(c) \notin (Waiting(loopOf[c]) \cup Todo(loopOf[c]))' /\ CD(c) \notin Waiting(base)'
  BY <1>2, <1>5, <1>6 DEF Doing, Call, Removal, CD
<1>8. Awaited(c)'
  <2>1. CE(c)' = CE(c) /\ CE(c) \in Waiting(n)' \cup Todo(n)'
    BY <1>1 DEF Accepting, CE, Call
  <2> QED BY <1>5, <2>1 DEF Awaited
<1>9. ~IsHeld(c)' /\ ~Near(c)'
  <2>1. c \notin active[n] /\ ~IsHeld(c)
    BY <1>1, <1>5 DEF IInv, Known, IsHeld, Conns, Acceptor
  <2> QED BY <1>1, <1>2, <1>5, <1>7, <2>1 DEF IsHeld, Near, Accepting
<1>10. ~Tells(c)' /\ ~Live(c)' /\ ~Over(c)'
  BY <1>5, <1>7, ThreeTales DEF Tells, Live, Over
<1>11. Tale(c)'
  <2>1. Announcing(c)' /\ Lasting(c)' /\ Ending(c)'
    BY <1>8, <1>9, <1>10 DEF Announcing, Lasting, Ending
  <2>2. Heard(c)'
    BY <1>5, <1>7 DEF Heard
  <2>3. Watched(c)' /\ Fed(c)'
    BY <1>2, <1>5, <1>7, <1>9 DEF Watched, Near, Fed
  <2> QED BY <2>1, <2>2, <2>3 DEF Tale
<1>12. \A d \in Conns \ {c} : Alive(d)' => Alive(d)
  BY <1>1 DEF Accepting
<1>13. Turned(c)
  BY <1>3, <1>4, <1>11 DEF Turned
<1> QED BY <1>3, <1>5, <1>12, <1>13

-----------------------------------------------------------------------------
(* Every step, and what the user is told. *)

\* What the steps have in common: the story goes on, and nothing freed comes back.
Goes == Story' /\ \A d \in Conns : Born(d) => Born(d)' /\ (Alive(d)' => Alive(d))

\* A step that spares every tale.
LEMMA SparingGoes == ASSUME Story, Stops', Sparing PROVE Goes
<1>1. \A d \in Conns : Tale(d)'
  BY TaleSpared DEF Story, Sparing
<1> QED BY <1>1 DEF Goes, Story, Sparing, Spares

\* The calls of a loop.
LEMMA CallGoes ==
  ASSUME Parts, IInv, Story, NEW l \in Loops, NEW c \in Conns, CallStep(l, c) PROVE Goes
<1>1. phase' = phase /\ nextConnId' = nextConnId /\ \E o : Now(l, o, c)
  BY DEF CallStep, removeConnection, removeConnectionInLoop, connectEstablished, connectDestroyed,
     remove, handleRead, handleWriteAll, handleWritePart, handleClose, handleError,
     connectionCallback, messageCallback, userCode, writeCompleteCallback, send, sendAtOnce,
     sendBuffered, shutdown, shutdownInLoop, turnVars, serverVars
<1>2. Stops'
  BY <1>1 DEF Story, Stops, Stopped
<1>3. Sparing \/ Turned(c)
  BY QuietCalls, ReadSpares, SendSpares, BufferedSpares, WriteSpares, RemoveSpares, MessageSpares,
     RemovalSpares, EstablishedTurns, CloseTurns, DestroyedTurns, CallbackTurns DEF CallStep
<1>4. ASSUME Turned(c) PROVE Goes
  <2>1. \A d \in Conns \ {c} : Tale(d)' /\ (Alive(d)' => Alive(d))
    BY <1>4, TaleSpared DEF Story, Turned, Spares
  <2>2. Alive(c)
    <3>1. PICK o : Call(o, c) \in Todo(l)
      BY <1>1, Innermost
    <3>2. CallsAlive
      BY Safe DEF IInv
    <3> QED BY <3>1, <3>2, CallEq DEF CallsAlive, Todo
  <2> QED BY <1>1, <1>2, <1>4, <2>1, <2>2 DEF Goes, Story, Turned, Born
<1> QED BY <1>2, <1>3, <1>4, SparingGoes

\* The program starts with nothing to tell.
LEMMA StoryInit == Init /\ Parts => Story
<1> SUFFICES ASSUME Init, Parts PROVE Story
  OBVIOUS
<1>1. /\ \A l \in Loops : /\ todo[l] = <<>> /\ phase[l] = "poll" /\ active[l] = {}
                          /\ Todo(l) = {} /\ Waiting(l) = {}
      /\ base \in Loops /\ \A c \in Conns : loopOf[c] \in Loops
  BY SetOfOne DEF Init, Todo, Waiting, Pend, Batch, Loops
<1>2. Stacks /\ Stops
  BY <1>1 DEF Stacks, Stack, Stops
<1>3. ASSUME NEW c \in Conns PROVE Tale(c)
  <2>1. told[c] = <<>> /\ delivered[c] = 0 /\ read[c] = 0 /\ ~IsHeld(c) /\ ~Born(c)
    BY DEF Init, IsHeld, Born, Conns
  <2>2. (\A q : ~Doing(q, c)) /\ ~Awaited(c) /\ ~Near(c)
    BY <1>1 DEF Doing, Awaited, Near
  <2>3. ~Live(c) /\ ~Over(c) /\ ~Tells(c)
    BY <2>1, <2>2, ThreeTales DEF Live, Over, Tells
  <2> QED BY <1>1, <2>1, <2>2, <2>3
        DEF Tale, Announcing, Lasting, Ending, Heard, Watched, Fed
<1> QED BY <1>2, <1>3 DEF Story

\* Every step of the program.
LEMMA StoryStep ==
  ASSUME Parts, Counted, IInv, Story, Careful, Shuts \/ Sends, [Next]_vars PROVE Goes
<1>0. base \in Loops
  BY DEF Loops
<1>1. CASE PeerConnects \/ (\E c \in Conns : PeerStep(c)) \/ UNCHANGED vars
  BY <1>1, PeersSpare, SparingGoes
<1>2. ASSUME NEW p \in Users, NEW c \in Conns,
             \/ userDrops(p, c) \/ userSetDisconnecting(p, c) \/ userQueues(p, c)
             \/ \E op \in UserOps : userCalls(p, c, op)
      PROVE  Goes
  BY <1>2, UserSpares, SparingGoes
<1>3. CASE quitBase
  BY <1>0, <1>3, TurnsSpare, SparingGoes
<1>4. ASSUME NEW l \in Loops, LoopStep(l) PROVE Goes
  <2>1. CASE \/ epoll(l) \/ swapPendFuncs(l) \/ runFunctor(l) \/ doPendFuncDone(l)
             \/ (l = base /\ (acceptFails \/ quitLoop)) \/ leaveLoop(l)
             \/ \E c \in Conns : handleEvent(l, c)
    BY <2>1, TurnsSpare, SparingGoes
  <2>2. CASE newConnection
    <3>1. PICK c \in Conns : /\ Stops' /\ Turned(c) /\ ~Born(c)
                             /\ \A d \in Conns \ {c} : (Alive(d)' => Alive(d))
      BY <2>2, AcceptTurns
    <3>2. \A d \in Conns \ {c} : Tale(d)' /\ (Born(d)' <=> Born(d))
      BY <3>1, TaleSpared DEF Story, Turned, Spares
    <3> QED BY <3>1, <3>2 DEF Goes, Story, Turned
  <2>3. CASE destroyLoop(l) \/ \E c \in Conns : destroyServer(c)
    BY <2>3, DestroyLoopSpares, DestroyServerSpares, SparingGoes
  <2>4. CASE \E c \in Conns : CallStep(l, c)
    BY <2>4, CallGoes
  <2> QED BY <1>4, <2>1, <2>2, <2>3, <2>4 DEF LoopStep, CallStep
<1> QED BY <1>1, <1>2, <1>3, <1>4 DEF Next, UserGoesOn

\* The story is true throughout.
LEMMA StoryAlways == ASSUME Careful, Shuts \/ Sends PROVE Spec => [](Inv /\ Story)
<1>1. Init => Inv /\ Story
  BY TypesInit, InvInit, StoryInit, TypeParts DEF Inv, Typed
<1>2. Inv /\ Story /\ [Next]_vars => Inv' /\ Story'
  BY TypesStep, InvParts, InvStep, StoryStep DEF Inv, Goes
<1> QED BY <1>1, <1>2, PTL DEF Spec

\* "disconnected, give up writing" (Connection::sendinLoop): a connection whose end has
\* been told waits for EPOLLOUT no more.
THEOREM EndedGivesUp == ASSUME Careful, Shuts \/ Sends PROVE Spec => []ClosedGivesUpWriting
<1>1. Inv /\ Story => ClosedGivesUpWriting
  BY DEF Story, Tale, Ending, Over, ClosedGivesUpWriting, isWriting
<1> QED BY <1>1, StoryAlways, PTL

\* Somebody owns a connection that is kept, or that its loop is about to leave.
Attended == \A c \in Conns :
    (Born(c) /\ Kept(c)) \/ (\E q \in {"closeCallback", "remove"} : Doing(q, c)) => Alive(c)

\* The story ends well: what is freed has been told of, but for the two cases of ~Server.
LEMMA StoryOwns == Inv /\ Story => Attended /\ UntoldEnds
<1> SUFFICES ASSUME Parts, IInv, Story, NEW c \in Conns
    PROVE  /\ Born(c) /\ Kept(c) => Alive(c)
           /\ \A q : Doing(q, c) => Alive(c)
           /\ Born(c) /\ ~Alive(c) /\ told[c] # <<TRUE, FALSE>> =>
                 /\ Stopped
                 /\ \/ told[c] = <<TRUE>> /\ state[c] = "kDisconnecting"
                    \/ loopOf[c] # base /\ phase[loopOf[c]] = "destroyed"
  BY InvParts DEF Attended, UntoldEnds
<1>0. loopOf[c] \in Loops /\ Tale(c)
  BY DEF Parts, ConnTypes, Story
<1>1. Born(c) /\ Kept(c) => Alive(c)
  BY <1>0, KeptAlive DEF IInv
<1>2. \A q : Doing(q, c) => Alive(c)
  <2>1. CallsAlive
    BY Safe DEF IInv
  <2> QED BY <1>0, <2>1, CallEq DEF CallsAlive, Doing, Todo
<1>3. ASSUME Born(c), ~Alive(c), told[c] # <<TRUE, FALSE>>
      PROVE  /\ Stopped
             /\ \/ told[c] = <<TRUE>> /\ state[c] = "kDisconnecting"
                \/ loopOf[c] # base /\ phase[loopOf[c]] = "destroyed"
  <2>1. ~Kept(c) /\ ~Tells(c) /\ ~Awaited(c)
    BY <1>1, <1>2, <1>3 DEF Tells, IInv, Fresh
  <2>2. Gone(c) => Stopped
    BY <1>0 DEF Gone, Story, Stops
  <2>3. CASE told[c] = <<>>
    BY <1>0, <1>3, <2>1, <2>2, <2>3 DEF Tale, Announcing, Gone
  <2>4. CASE told[c] = <<TRUE>>
    BY <1>0, <2>1, <2>2, <2>4 DEF Tale, Lasting, Live, Gone
  <2> QED BY <1>0, <1>3, <2>3, <2>4 DEF Tale, Heard
<1> QED BY <1>1, <1>2, <1>3

\* The user is told of the end of every connection it was told the start of, but in two
\* cases: shutdown() was under way, or the loop gone, when ~Server ran.
THEOREM EndsAreTold == ASSUME Careful, Shuts \/ Sends PROVE Spec => []UntoldEnds
<1>1. Inv /\ Story => UntoldEnds
  BY StoryOwns
<1> QED BY <1>1, StoryAlways, PTL

-----------------------------------------------------------------------------
(* What the user is promised. *)

\* The promise is kept by the state after a step, too.
LEMMA StoryOwnsNext == Inv' /\ Story' => Attended' /\ UntoldEnds'
BY StoryOwns, PTL

\* Only the two callbacks tell the user something, and only quitBase stops the program.
LEMMA OthersTellNothing ==
  ASSUME Parts, IInv, [Next]_vars, ~quitBase,
         \A l \in Loops, c \in Conns : ~connectionCallback(l, c) /\ ~messageCallback(l, c)
  PROVE  UNCHANGED <<told, delivered, Stopped>>
<1> USE DEF outside, userVars, history, loopVars, turnVars, Stopped
<1>0. base \in Loops /\ phase \in [Loops -> {"poll", "events", "functors", "exited", "joining", "destroyed"}]
  BY DEF Loops, Parts, LoopTypes
<1>1. CASE PeerConnects \/ (\E c \in Conns : PeerStep(c)) \/ UNCHANGED vars
  BY <1>1 DEF PeerConnects, PeerStep, vars
<1>2. ASSUME NEW p \in Users, NEW c \in Conns,
             \/ userDrops(p, c) \/ userSetDisconnecting(p, c) \/ userQueues(p, c)
             \/ \E op \in UserOps : userCalls(p, c, op)
      PROVE  UNCHANGED <<told, delivered, Stopped>>
  BY <1>2 DEF userDrops, userSetDisconnecting, userQueues, userCalls
<1>3. ASSUME NEW l \in Loops,
             \/ epoll(l) \/ swapPendFuncs(l) \/ doPendFuncDone(l) \/ runFunctor(l)
             \/ leaveLoop(l) \/ destroyLoop(l) \/ (l = base /\ (newConnection \/ acceptFails \/ quitLoop))
             \/ \E c \in Conns : handleEvent(l, c)
      PROVE  UNCHANGED <<told, delivered, Stopped>>
  <2>1. told' = told /\ delivered' = delivered
    BY <1>3 DEF epoll, swapPendFuncs, doPendFuncDone, runFunctor, leaveLoop, destroyLoop, enter,
       handleEvent, newConnection, acceptFails, accepting, quitLoop
  <2>2. CASE destroyLoop(l)
    <3>1. phase[base] \in {"exited", "joining"}
      BY <1>0, <2>2 DEF destroyLoop, IInv, Turns, TurnsAt
    <3>2. phase'[base] \in {"exited", "destroyed"}
      BY <1>0, <2>2 DEF destroyLoop
    <3> QED BY <2>1, <3>1, <3>2
  <2>3. CASE ~destroyLoop(l)
    <3>1. CASE (\E c \in Conns : handleEvent(l, c)) \/ runFunctor(l) \/ newConnection \/ acceptFails
      BY <2>1, <3>1 DEF handleEvent, runFunctor, newConnection, acceptFails, accepting
    <3>2. CASE epoll(l) \/ swapPendFuncs(l) \/ doPendFuncDone(l)
      <4>1. PICK p \in {"poll", "events", "functors"} : phase' = [phase EXCEPT ![l] = p]
        BY <3>2 DEF epoll, swapPendFuncs, doPendFuncDone
      <4>2. phase[l] \in {"poll", "events", "functors"} /\ phase'[l] = p
        BY <1>0, <3>2, <4>1 DEF epoll, swapPendFuncs, doPendFuncDone
      <4>3. l # base => phase'[base] = phase[base]
        BY <1>0, <4>1
      <4> QED BY <2>1, <4>2, <4>3
    <3>3. CASE leaveLoop(l) \/ (l = base /\ quitLoop)
      <4>1. l # base => phase'[base] = phase[base]
        BY <1>0, <3>3 DEF leaveLoop, enter
      <4>2. l = base => quitLoop
        BY <3>3 DEF leaveLoop, Told
      <4>3. quitLoop => phase[base] = "exited" /\ phase'[base] = "joining"
        BY <1>0 DEF quitLoop, ServerGone, enter
      <4> QED BY <2>1, <4>1, <4>2, <4>3
    <3> QED BY <1>3, <2>3, <3>1, <3>2, <3>3
  <2> QED BY <2>2, <2>3
<1>4. ASSUME NEW l \in Loops, NEW c \in Conns, CallStep(l, c) \/ (l = base /\ destroyServer(c))
      PROVE  UNCHANGED <<told, delivered, Stopped>>
  BY <1>4 DEF CallStep, removeConnection, removeConnectionInLoop, connectEstablished, connectDestroyed,
     remove, handleRead, handleWriteAll, handleWritePart, handleClose, handleError,
     writeCompleteCallback, send, sendAtOnce,
     sendBuffered, shutdown, shutdownInLoop, destroyServer
<1> QED BY <1>1, <1>2, <1>3, <1>4 DEF Next, LoopStep, CallStep, UserGoesOn

\* A step that tells the user nothing frees what the user has been told the end of, or,
\* when the program stops, anything.
LEMMA TellingNothingFrees ==
  ASSUME Parts, Story, Goes, UntoldEnds', UNCHANGED <<told, delivered, Stopped>>
  PROVE  Promise!FreeSome
<1> DEFINE G == {d \in Conns : life'[d] = "gone" /\ life[d] # "gone"}
<1>1. ASSUME NEW d \in Conns
      PROVE  /\ d \in G => Stopped \/ life[d] = "down"
             /\ life'[d] = IF d \in G THEN "gone" ELSE life[d]
  <2>1. /\ Born(d) => Born(d)' /\ (Alive(d)' => Alive(d))
        /\ ~Born(d) => told[d] = <<>>
        /\ told' = told
    BY DEF Goes, Story, Tale, Heard
  <2>2. ~Alive(d)' /\ Born(d)' => told[d] = <<TRUE, FALSE>> \/ Stopped
    BY <2>1 DEF UntoldEnds
  <2> QED BY <2>1, <2>2, ThreeTales DEF life
<1>2. G \in SUBSET {c \in Conns : Stopped \/ life[c] = "down"}
  BY <1>1
<1>3. life' = [c \in Conns |-> IF c \in G THEN "gone" ELSE life[c]]
  BY <1>1 DEF life
<1> HIDE DEF G
<1> QED BY <1>2, <1>3 DEF Promise!FreeSome

\* The user's code frees nothing, and stops nothing.
LEMMA UserCodeFrees ==
  ASSUME Parts, IInv, NEW l \in Loops, NEW o \in {"connectionCallback", "messageCallback"},
         NEW c \in Conns, Now(l, o, c), userCode(l, c)
  PROVE  /\ UNCHANGED <<nextConnId, Stopped>>
         /\ Born(c) /\ Alive(c) /\ Doing(o, c)
         /\ \A d \in Conns \ {c} : Alive(d) <=> Alive(d)'
         /\ Kept(c) => Kept(c)'
<1>1. PICK r \in Scripts : become(l, [i \in DOMAIN r |-> Call(r[i], c)])
  BY DEF userCode
<1> DEFINE s == [i \in DOMAIN r |-> Call(r[i], c)]
<1>2. s \in Seq(Calls) /\ \A i \in DOMAIN s : s[i].op \in {"send", "shutdown"} /\ s[i].conn = c
  BY ScriptTyped
<1>3. become(l, s)
  BY <1>1
<1> HIDE DEF s
<1>4. \A f \in ToSet(s) : f.op \in {"send", "shutdown"} /\ f.conn = c
  BY <1>2 DEF ToSet
<1>5. Frame(c) /\ UNCHANGED <<pend, batch, kept, connections, phase, nextConnId>>
  <2>1. \A p \in Users : held[p] \subseteq held'[p] /\ held'[p] \subseteq held[p] \cup {c}
    BY DEF userCode
  <2> QED BY <2>1 DEF userCode, Frame, turnVars, serverVars, connVars, regVars, sockVars
<1>6. Calling(l, o, c, ToSet(s), {})
  BY <1>2, <1>3, <1>4, <1>5, Silent DEF Once, Raw
<1>7. InCall(l, o, c)
  BY <1>6, Called
<1>8. ASSUME NEW d \in Conns \ {c}, Alive(d) PROVE Alive(d)'
  <2>1. \A m \in Loops : \A f \in Todo(m) : f.conn = d => f \in Todo(m)'
    BY <1>6, <1>8, CallEq DEF Calling
  <2>2. ASSUME NEW m \in Loops, phase[m] \in {"events", "exited"}, NEW f \in Todo(m), f.conn = d
        PROVE  phase'[m] \in {"events", "exited"} /\ \E g \in Todo(m)' : g.conn = d
    BY <1>5, <2>1, <2>2
  <2>3. \A p \in Users : held[p] \subseteq held'[p]
    BY <1>5 DEF Frame
  <2> QED BY <1>5, <1>8, <2>2, <2>3 DEF Alive, Born, Todo
<1> QED BY <1>5, <1>6, <1>7, <1>8, CallAlive, KeptCarried DEF InCall, Stopped, Doing

\* The connection callback announces the connection, or its end.
LEMMA CallbackMoves ==
  ASSUME Parts, IInv, Story, Attended', NEW l \in Loops, NEW c \in Conns, connectionCallback(l, c)
  PROVE  Promise!Up(c) \/ Promise!Down(c)
<1>1. Now(l, "connectionCallback", c) /\ userCode(l, c) /\ delivered' = delivered
      /\ \A d \in Conns \ {c} : told'[d] = told[d]
  BY DEF connectionCallback, Parts, HistoryTypes
<1>2. /\ UNCHANGED <<nextConnId, Stopped>> /\ Born(c) /\ Alive(c)
      /\ \A d \in Conns \ {c} : Alive(d) <=> Alive(d)'
  BY <1>1, UserCodeFrees
<1>3. /\ \/ told[c] = <<>> /\ told'[c] = <<TRUE>>
         \/ told[c] = <<TRUE>> /\ told'[c] = <<TRUE, FALSE>>
      /\ Alive(c)'
  BY <1>2, CallbackTurns DEF Attended, Born
<1>4. \A d \in Conns \ {c} : life'[d] = life[d]
  BY <1>1, <1>2 DEF life, Born
<1>5. \/ life[c] = "new" /\ life'[c] = "up"
      \/ life[c] = "up" /\ life'[c] = "down"
  BY <1>2, <1>3, ThreeTales DEF life, Born
<1>6. \A to : life'[c] = to => life' = [life EXCEPT ![c] = to]
  BY <1>4 DEF life
<1> QED BY <1>1, <1>2, <1>5, <1>6 DEF Promise!Up, Promise!Down, Promise!move

\* The message callback delivers something, and only what arrived.
LEMMA MessageDelivers ==
  ASSUME Parts, IInv, Story, Attended', NEW l \in Loops, NEW c \in Conns, messageCallback(l, c)
  PROVE  Promise!Message(c)
<1>1. Now(l, "messageCallback", c) /\ userCode(l, c) /\ told' = told
      /\ delivered' = [delivered EXCEPT ![c] = read[c]]
  BY DEF messageCallback
<1>2. /\ UNCHANGED <<nextConnId, Stopped>> /\ Born(c) /\ Alive(c) /\ Doing("messageCallback", c)
      /\ \A d \in Conns \ {c} : Alive(d) <=> Alive(d)'
      /\ Kept(c) => Kept(c)'
  BY <1>1, UserCodeFrees
<1>3. Live(c) /\ Kept(c) /\ delivered[c] < read[c]
  BY <1>2 DEF Story, Tale, Fed
<1>4. Alive(c)'
  BY <1>2, <1>3 DEF Attended, Born
<1>5. read[c] \in delivered[c] + 1 .. Messages
  BY <1>3, ServerAssumption DEF Parts, SockTypes, HistoryTypes
<1>6. life[c] = "up"
  BY <1>2, <1>3, ThreeTales DEF life, Live
<1>7. life' = life
  BY <1>1, <1>2, <1>4 DEF life, Born
<1> QED BY <1>1, <1>2, <1>5, <1>6, <1>7 DEF Promise!Message

\* The base loop returns between two turns: nothing is freed yet.
LEMMA QuitStops == ASSUME Parts, IInv, quitBase PROVE Promise!Stop
<1>1. /\ phase[base] = "poll" /\ phase' = [phase EXCEPT ![base] = "exited"] /\ base \in Loops
      /\ UNCHANGED <<todo, pend, batch, kept, connections, nextConnId, held, told, delivered>>
  BY DEF quitBase, enter, serverVars, outside, userVars, history, Loops
<1>2. Todo(base) = {} /\ phase'[base] = "exited" /\ \A m \in Loops \ {base} : phase'[m] = phase[m]
  BY <1>1, SetOfOne DEF IInv, Turns, TurnsAt, Todo, Parts, LoopTypes
<1>3. \A d \in Conns : Alive(d)' <=> Alive(d)
  BY <1>1, <1>2 DEF Alive, Born, Todo
<1> QED BY <1>1, <1>2, <1>3 DEF Promise!Stop, life, Born, Stopped

\* Every step of the Server is one of the promise, or none.
LEMMA PromiseStep ==
  ASSUME Careful, Shuts \/ Sends
  PROVE  Inv /\ Story /\ [Next]_vars /\ (Inv /\ Story)' => [Promise!Next]_(Promise!vars)
<1> SUFFICES ASSUME Inv, Story, [Next]_vars, Inv', Story' PROVE Promise!Next
  OBVIOUS
<1>1. Parts /\ Counted /\ IInv /\ Attended' /\ UntoldEnds'
  BY InvParts, StoryOwnsNext DEF Inv, Typed
<1>2. CASE quitBase
  BY <1>1, <1>2, QuitStops DEF Promise!Next
<1>3. ASSUME NEW l \in Loops, NEW c \in Conns, connectionCallback(l, c) PROVE Promise!Next
  BY <1>1, <1>3, CallbackMoves DEF Promise!Next
<1>4. ASSUME NEW l \in Loops, NEW c \in Conns, messageCallback(l, c) PROVE Promise!Next
  BY <1>1, <1>4, MessageDelivers DEF Promise!Next
<1>5. CASE /\ ~quitBase
           /\ \A l \in Loops, c \in Conns : ~connectionCallback(l, c) /\ ~messageCallback(l, c)
  BY <1>1, <1>5, StoryStep, OthersTellNothing, TellingNothingFrees DEF Promise!Next
<1> QED BY <1>2, <1>3, <1>4, <1>5

\* The promise is kept: connected, messages, disconnected, freed.
THEOREM ImplementsConnectionLife == ASSUME Careful, Shuts \/ Sends PROVE Spec => ImplementsLife
<1>1. Init => Promise!Init
  BY DEF Init, Promise!Init, life, Born, Stopped, Conns, Loops
<1> QED BY <1>1, PromiseStep, StoryAlways, PTL DEF Spec, ImplementsLife, Promise!Spec
=============================================================================
