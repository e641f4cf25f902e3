---------------------------- MODULE ServerProofs ----------------------------
(*****************************************************************************)
(* Server: what holds of every number of loops, connections, descriptors and *)
(* threads, for every script the callbacks run.                              *)
(*                                                                           *)
(* The theorems speak of programs whose own threads are careful (they keep a *)
(* pointer until no call of theirs on it is queued, for send() and shutdown()*)
(* bind the raw `this`) and either never send() (Shuts), or never shutdown() *)
(* and keep the base loop running (Sends).  A program that is not careful    *)
(* calls a freed connection: the run ServerRawThis.  Where one thread's      *)
(* shutdown() takes kDisconnected back, or ~Server destroys a connection in  *)
(* kDisconnecting, another thread's send() no longer gives up: it registers  *)
(* again what connectDestroyed has unregistered, and DeadForgotten fails.    *)
(*                                                                           *)
(* ServerCalls has the invariant and the calls; here are the turns of the    *)
(* loops, the Acceptor, the end, the threads of the user, and the theorems;  *)
(* last, what is left of the connections when the loops are gone.            *)
(*****************************************************************************)
EXTENDS ServerCalls

-----------------------------------------------------------------------------
(* The turns of a loop. *)

\* What a turn of a loop changes: calls move from activeFileds_ or doPendFunc's vector
\* to the stack, or what waits is dropped into the vector.
Turning(l) ==
    /\ UNCHANGED <<nextConnId, connections, loops, loopOf, fdOf, state, index, fileds, held,
                   doing>>
    /\ \A m \in Loops : phase'[m] = "destroyed" <=> phase[m] = "destroyed"
    /\ \A m \in Loops : Todo(m) \subseteq Todo(m)'
    /\ \A m \in Loops : Todo(m) \cup Waiting(m) \subseteq Todo(m)' \cup Waiting(m)'
    /\ \A m \in Loops : \A f \in Todo(m)' \cup Waiting(m)' :
          \/ f \in Todo(m) \cup Waiting(m)
          \/ m = l /\ f.op \in Touching /\ f.conn \in active[l] \ {Acceptor}
    /\ \A m \in Loops : \A f \in Todo(m)' :
          \/ f \in Todo(m)
          \/ m = l /\ f.op \in Touching /\ f.conn \in active[l] \ {Acceptor}
          \/ f \in Waiting(m) /\ phase[m] = "functors"
    /\ \A m \in Loops : \A d \in active'[m] \ {Acceptor} :
          \/ d \in active[m]
          \/ d \in Conns /\ index[d] # "kNew" /\ loopOf[d] = m /\ phase[m] = "poll"

\* A turn keeps all of the invariant but what is said of the loop itself.
LEMMA TurnKeeps ==
  ASSUME Parts, IInv, Shuts \/ Sends, NEW l \in Loops, Turning(l), Turns', Order', Owned',
         \A d \in Conns : Alive(d)' => Alive(d)
  PROVE  IInv'
<1>0. /\ UNCHANGED <<nextConnId, connections, loops, loopOf, fdOf, state, index, fileds, held,
                     doing>>
      /\ loopOf \in [Conns -> Loops]
  BY DEF Turning, Parts, ConnTypes
<1>a. \A m \in Loops : active[m] \subseteq Conns \cup {Acceptor}
  BY DEF Parts, LoopTypes
<1>1. \A d \in Conns : Kept(d) => Kept(d)'
  BY <1>0 DEF Turning, Kept, CD
<1>2. \A d : Born(d)' <=> Born(d)
  BY <1>0 DEF Born
<1>3. \A f : Place(f)' = Place(f)
  BY <1>0 DEF Place
<1>4. ASSUME NEW m \in Loops, NEW d \in active'[m] \ {Acceptor}
      PROVE  d \in Conns /\ Kept(d) /\ Born(d) /\ loopOf[d] = m /\ ~Awaited(d)
  <2>1. CASE d \in active[m]
    BY <1>4, <1>a, <2>1 DEF IInv, InUse, Known, Fresh
  <2>2. CASE d \in Conns /\ index[d] # "kNew" /\ loopOf[d] = m /\ phase[m] = "poll"
    <3>1. Todo(m) = {}
      BY <2>2, SetOfOne DEF IInv, Turns, TurnsAt, Todo
    <3> QED BY <2>2, <3>1 DEF IInv, Registry, Known, Fresh
  <2> QED BY <1>4, <2>1, <2>2 DEF Turning
<1>5. Known'
  <2>1. ASSUME NEW m \in Loops, NEW f \in Todo(m)' \cup Waiting(m)'
        PROVE  Born(f.conn) /\ Place(f) = m
    <3>1. CASE f \in Todo(m) \cup Waiting(m)
      BY <3>1 DEF IInv, Known
    <3>2. CASE m = l /\ f.op \in Touching /\ f.conn \in active[l] \ {Acceptor}
      BY <3>2 DEF IInv, Known, Place, Touching
    <3> QED BY <2>1, <3>1, <3>2 DEF Turning
  <2> QED BY <1>0, <1>2, <1>3, <1>4, <2>1 DEF IInv, Known
<1>6. Asked'
  BY <1>0 DEF IInv, Asked
<1>7. Fresh'
  <2> SUFFICES ASSUME NEW d \in Conns, Awaited(d)'
      PROVE  /\ Awaited(d)
             /\ d \notin active'[loopOf'[d]]
             /\ Removal(d) \notin Waiting(base)' \cup Todo(base)'
    BY <1>0, <1>1 DEF IInv, Fresh, Removal
  <2>1. Awaited(d)
    BY <1>0, CallEq DEF Awaited, Turning, Touching, CE
  <2>2. d \notin active'[loopOf'[d]]
    BY <1>0, <1>4, <2>1 DEF Acceptor, Conns
  <2>3. base \in Loops /\ Removal(d) \notin Waiting(base) \cup Todo(base)
    BY <2>1 DEF IInv, Fresh, Loops
  <2>4. Removal(d) \notin Waiting(base)' \cup Todo(base)'
    BY <2>3, CallEq DEF Turning, Touching, Removal
  <2> QED BY <2>1, <2>2, <2>4
<1>8. InUse'
  <2>1. ASSUME NEW m \in Loops, NEW f \in Todo(m)', f.op \in Touching PROVE Kept(f.conn)'
    <3>1. CASE f \in Todo(m)
      BY <1>1, <2>1, <3>1, Typing DEF IInv, InUse, Calls
    <3>2. CASE m = l /\ f.conn \in active[l] \ {Acceptor}
      BY <1>1, <1>a, <3>2 DEF IInv, InUse
    <3>3. f \notin Waiting(m)
      BY <2>1, Typing DEF Functors, Deferred, Touching
    <3> QED BY <2>1, <3>1, <3>2, <3>3 DEF Turning
  <2>2. ASSUME NEW m \in Loops, NEW f \in Todo(m)', f.op = "sendinLoop"
        PROVE  Kept(f.conn)' \/ (Sends /\ state'[f.conn] = "kDisconnected")
    <3>1. CASE f \in Todo(m)
      BY <1>0, <1>1, <2>2, <3>1, Typing DEF IInv, InUse, Calls
    <3>2. CASE f \in Waiting(m)
      <4>1. f.conn \in Conns /\ Born(f.conn) /\ Sends
        BY <2>2, <3>2, Typing DEF Functors, IInv, Known, Owned, OwnedAt, Shuts
      <4>2. f.conn \in connections \/ state[f.conn] = "kDisconnected"
        BY <4>1 DEF IInv, Closing
      <4> QED BY <1>0, <1>1, <4>1, <4>2 DEF Kept
    <3> QED BY <2>2, <3>1, <3>2 DEF Turning, Touching
  <2>3. \A m \in Loops : \A d \in active'[m] \ {Acceptor} : Kept(d)'
    BY <1>1, <1>4
  <2> QED BY <2>1, <2>2, <2>3 DEF InUse, Sends
<1>9. Registry'
  BY <1>0, <1>1 DEF IInv, Registry, Turning, Call
<1>10. Closing'
  BY <1>0, <1>2 DEF IInv, Closing, Turning, Touching, Sends
<1>11. Entries'
  BY <1>0, <1>2 DEF IInv, Entries, Turning
<1>12. Apart'
  BY <1>0 DEF IInv, Apart
<1> QED BY <1>5, <1>6, <1>7, <1>8, <1>9, <1>10, <1>11, <1>12 DEF IInv

\* Alive, in the words of the invariant.
Lives(d) ==
    /\ Born(d)
    /\ \/ d \in connections
       \/ \E m \in Loops : \E f \in Waiting(m) : f.op \in Owning /\ f.conn = d
       \/ \E m \in Loops : d \in kept[m]
       \/ \E m \in Loops : phase[m] \in {"events", "exited"} /\ \E f \in Todo(m) : f.conn = d
       \/ IsHeld(d)

\* The two are the same, before a step and after it.
LEMMA LivesIsAlive == \A d : (Alive(d) <=> Lives(d)) /\ (Alive(d)' <=> Lives(d)')
BY DEF Alive, Lives, Waiting, Pend, Batch, Todo, IsHeld

\* The thread of l moves: the new values of its turn, and nothing else.
Move(l, p, t, a, w, b, k) ==
    /\ phase' = [phase EXCEPT ![l] = p]
    /\ todo' = [todo EXCEPT ![l] = t]
    /\ active' = [active EXCEPT ![l] = a]
    /\ pend' = [pend EXCEPT ![l] = w]
    /\ batch' = [batch EXCEPT ![l] = b]
    /\ kept' = [kept EXCEPT ![l] = k]
    /\ UNCHANGED <<nextConnId, connections, loops, loopOf, fdOf, state, index, fileds, held,
                   doing>>

\* A move leaves the other loops as they are.
LEMMA LoopAlone ==
  ASSUME Parts, NEW l \in Loops, NEW p, NEW t, NEW a, NEW w, NEW b, NEW k,
         Move(l, p, t, a, w, b, k)
  PROVE  /\ \A m \in Loops \ {l} :
               /\ phase'[m] = phase[m] /\ todo'[m] = todo[m] /\ active'[m] = active[m]
               /\ pend'[m] = pend[m] /\ batch'[m] = batch[m] /\ kept'[m] = kept[m]
               /\ Todo(m)' = Todo(m) /\ Pend(m)' = Pend(m) /\ Batch(m)' = Batch(m)
               /\ Waiting(m)' = Waiting(m) /\ Rest(m)' = Rest(m)
         /\ phase'[l] = p /\ todo'[l] = t /\ active'[l] = a /\ pend'[l] = w /\ batch'[l] = b
         /\ kept'[l] = k
         /\ Todo(l)' = ToSet(t) /\ Pend(l)' = ToSet(w) /\ Batch(l)' = ToSet(b)
         /\ Waiting(l)' = ToSet(w) \cup ToSet(b) /\ Rest(l)' = ToSet(Tail(t))
BY DEF Move, Parts, LoopTypes, TodoTypes, PendTypes, Todo, Pend, Batch, Waiting, Rest

\* What a move must see to, of its own loop.
Fits(l, p, t, a, w, b, k) ==
    /\ phase[l] # "destroyed" /\ p # "destroyed"
    /\ l = base /\ phase[l] \in {"exited", "joining"} => p \in {"exited", "joining"}
    /\ Todo(l) \subseteq ToSet(t)
    /\ Todo(l) \cup Waiting(l) \subseteq ToSet(t) \cup ToSet(w) \cup ToSet(b)
    /\ ToSet(w) \cup ToSet(b) \subseteq Waiting(l)
    /\ \A f \in ToSet(t) : \/ f \in Todo(l)
                           \/ f.op \in Touching /\ f.conn \in active[l] \ {Acceptor}
                           \/ f \in Waiting(l) /\ phase[l] = "functors"
    /\ \A d \in a \ {Acceptor} :
          \/ d \in active[l]
          \/ d \in Conns /\ index[d] # "kNew" /\ loopOf[d] = l /\ phase[l] = "poll"
    /\ \A d \in k : d \in kept[l] \/ (Alive(d) /\ (l = base \/ loopOf[d] = l))
    /\ p \in {"events", "exited"} => phase[l] \in {"events", "exited"} \/ ToSet(t) = {}

\* The thread of l has moved in a way that fits.
Moves(l) == \E p, t, a, w, b, k : Move(l, p, t, a, w, b, k) /\ Fits(l, p, t, a, w, b, k)

\* No step but an accept brings a connection to life.
Freeing == \A d \in Conns : Alive(d)' => Alive(d)

\* Neither does a move.
LEMMA MoveFrees ==
  ASSUME Parts, IInv, NEW l \in Loops, NEW p, NEW t, NEW a, NEW w, NEW b, NEW k,
         Move(l, p, t, a, w, b, k), Fits(l, p, t, a, w, b, k)
  PROVE  Freeing
<1> SUFFICES ASSUME NEW d \in Conns, Alive(d)' PROVE Alive(d)
  BY DEF Freeing
<1>a. /\ \A m \in Loops \ {l} :
            /\ phase'[m] = phase[m] /\ kept'[m] = kept[m]
            /\ Todo(m)' = Todo(m) /\ Waiting(m)' = Waiting(m)
      /\ phase'[l] = p /\ kept'[l] = k
      /\ Todo(l)' = ToSet(t) /\ Waiting(l)' = ToSet(w) \cup ToSet(b)
  BY LoopAlone
<1>b. UNCHANGED <<nextConnId, connections, held>>
  BY DEF Move
<1>1. Lives(d)'
  BY LivesIsAlive
<1>2. Born(d)
  BY <1>b, <1>1 DEF Lives, Born
<1>3. CASE d \in connections' \/ IsHeld(d)'
  BY <1>b, <1>2, <1>3, LivesIsAlive DEF Lives, IsHeld
<1>4. ASSUME NEW m \in Loops, NEW f \in Waiting(m)', f.op \in Owning, f.conn = d
      PROVE  Alive(d)
  <2>1. f \in Waiting(m)
    BY <1>a, <1>4 DEF Fits
  <2> QED BY <1>2, <1>4, <2>1, LivesIsAlive DEF Lives
<1>5. ASSUME NEW m \in Loops, d \in kept'[m] PROVE Alive(d)
  <2>1. CASE m = l
    BY <1>a, <1>2, <1>5, <2>1, LivesIsAlive DEF Fits, Lives
  <2>2. CASE m # l
    BY <1>a, <1>2, <1>5, <2>2, LivesIsAlive DEF Lives
  <2> QED BY <2>1, <2>2
<1>6. ASSUME NEW m \in Loops, phase'[m] \in {"events", "exited"}, NEW f \in Todo(m)', f.conn = d
      PROVE  Alive(d)
  <2>1. CASE m # l
    BY <1>a, <1>2, <1>6, <2>1, LivesIsAlive DEF Lives
  <2>2. CASE m = l
    <3>1. phase[l] \in {"events", "exited"}
      BY <1>a, <1>6, <2>2 DEF Fits
    <3>2. CASE f \in Todo(l)
      BY <1>2, <1>6, <3>1, <3>2, LivesIsAlive DEF Lives
    <3>3. CASE d \in active[l] \ {Acceptor}
      BY <3>3, Safe DEF IInv, CallsAlive
    <3> QED BY <1>a, <1>6, <2>2, <3>1, <3>2, <3>3 DEF Fits
  <2> QED BY <2>1, <2>2
<1> QED BY <1>1, <1>3, <1>4, <1>5, <1>6 DEF Lives

\* A move that fits keeps the invariant, if it keeps what is said of its own loop.
LEMMA MoveKeeps ==
  ASSUME Parts, IInv, Shuts \/ Sends, NEW l \in Loops, NEW p, NEW t, NEW a, NEW w, NEW b, NEW k,
         Move(l, p, t, a, w, b, k), Fits(l, p, t, a, w, b, k),
         TurnsAt(l)', OrderAt(l)', OwnedAt(l)'
  PROVE  IInv' /\ Moves(l)
<1>1. /\ \A m \in Loops \ {l} :
            /\ phase'[m] = phase[m] /\ todo'[m] = todo[m] /\ active'[m] = active[m]
            /\ pend'[m] = pend[m] /\ batch'[m] = batch[m] /\ kept'[m] = kept[m]
            /\ Todo(m)' = Todo(m) /\ Pend(m)' = Pend(m) /\ Batch(m)' = Batch(m)
            /\ Waiting(m)' = Waiting(m) /\ Rest(m)' = Rest(m)
      /\ phase'[l] = p /\ todo'[l] = t /\ active'[l] = a /\ pend'[l] = w /\ batch'[l] = b
      /\ kept'[l] = k
      /\ Todo(l)' = ToSet(t) /\ Waiting(l)' = ToSet(w) \cup ToSet(b)
  BY LoopAlone
<1>2. UNCHANGED <<nextConnId, connections, loops, loopOf, fdOf, state, index, fileds, held, doing>>
  BY DEF Move
<1>3. Turning(l)
  BY <1>1, <1>2 DEF Turning, Fits
<1>4. Turns'
  <2>1. ASSUME NEW m \in Loops \ {l} PROVE TurnsAt(m)'
    <3>1. l = base => (phase[base] \in {"exited", "joining"} => phase'[base] \in {"exited", "joining"})
      BY <1>1 DEF Fits
    <3>2. l # base => phase'[base] = phase[base]
      BY <1>1 DEF Loops
    <3> QED BY <1>1, <1>2, <2>1, <3>1, <3>2 DEF IInv, Turns, TurnsAt, Runs
  <2> QED BY <2>1 DEF Turns
<1>5. Order'
  <2>1. ASSUME NEW m \in Loops \ {l} PROVE OrderAt(m)'
    BY <1>1, <2>1 DEF IInv, Order, OrderAt
  <2> QED BY <2>1 DEF Order
<1>6. Owned'
  <2>1. ASSUME NEW m \in Loops \ {l} PROVE OwnedAt(m)'
    BY <1>1, <1>2, <2>1 DEF IInv, Owned, OwnedAt, Runs, IsHeld
  <2> QED BY <2>1 DEF Owned
<1>7. \A d \in Conns : Alive(d)' => Alive(d)
  BY MoveFrees DEF Freeing
<1> QED BY <1>3, <1>4, <1>5, <1>6, <1>7, TurnKeeps DEF Moves

\* A component that does not change, written as an update.
LEMMA Same ==
  ASSUME Parts, NEW l \in Loops
  PROVE  /\ todo = [todo EXCEPT ![l] = todo[l]] /\ active = [active EXCEPT ![l] = active[l]]
         /\ pend = [pend EXCEPT ![l] = pend[l]] /\ batch = [batch EXCEPT ![l] = batch[l]]
         /\ kept = [kept EXCEPT ![l] = kept[l]] /\ phase = [phase EXCEPT ![l] = phase[l]]
BY DEF Parts, LoopTypes, TodoTypes, PendTypes

\* Epoller::epoll keeps the invariant: what it reports is registered, hence kept.
LEMMA EpollKeeps ==
  ASSUME Parts, IInv, Shuts \/ Sends, NEW l \in Loops, epoll(l)
  PROVE  IInv' /\ Moves(l)
<1> DEFINE a == active'[l]
<1>1. phase[l] = "poll" /\ todo[l] = <<>> /\ batch[l] = <<>> /\ kept[l] = {} /\ Todo(l) = {}
  BY SetOfOne DEF epoll, IInv, Turns, TurnsAt, Todo
<1>2. /\ active' = [active EXCEPT ![l] = a]
      /\ \A d \in a \ {Acceptor} : d \in Conns /\ index[d] # "kNew" /\ loopOf[d] = l
  <2>1. PICK W \in SUBSET {c \in Registered(l) : isWriting(c)} :
           active' = [active EXCEPT ![l] = {c \in Registered(l) : Revents(c, W) # {}} \cup
                         {x \in {Acceptor} : l = base /\ backlog > 0}]
    BY DEF epoll
  <2> QED BY <2>1 DEF Registered, Parts, LoopTypes
<1> HIDE DEF a
<1>3. Move(l, "events", todo[l], a, pend[l], batch[l], kept[l])
  BY <1>2, Same DEF epoll, Move, serverVars, connVars, regVars, outside, userVars
<1>4. Fits(l, "events", todo[l], a, pend[l], batch[l], kept[l])
  BY <1>1, <1>2 DEF Fits, Todo, Waiting, Pend, Batch
<1>5. /\ phase'[l] = "events" /\ todo'[l] = todo[l] /\ batch'[l] = batch[l] /\ kept'[l] = kept[l]
      /\ pend'[l] = pend[l] /\ Todo(l)' = {} /\ Waiting(l)' = Waiting(l)
      /\ Batch(l)' = Batch(l) /\ Pend(l)' = Pend(l)
  BY <1>1, <1>3, LoopAlone DEF Todo, Waiting, Pend, Batch
<1>6. TurnsAt(l)'
  BY <1>1, <1>5 DEF TurnsAt, Runs
<1>7. OrderAt(l)'
  BY <1>5 DEF IInv, Order, OrderAt
<1>8. OwnedAt(l)'
  BY <1>1, <1>3, <1>5 DEF IInv, Owned, OwnedAt, Runs, IsHeld, Move
<1> QED BY <1>3, <1>4, <1>6, <1>7, <1>8, MoveKeeps

\* Filed::handleEvent keeps the invariant: its guard owns what it calls.
LEMMA HandleEventKeeps ==
  ASSUME Parts, IInv, Shuts \/ Sends, NEW l \in Loops, NEW c \in Conns, handleEvent(l, c)
  PROVE  IInv' /\ Moves(l) /\ \A f \in Todo(l)' : f.conn = c
<1> DEFINE one(b, o) == IF b THEN <<Call(o, c)>> ELSE <<>>
           t == one("hup" \in revents[c] /\ "in" \notin revents[c], "handleClose")
                \o one("err" \in revents[c], "handleError")
                \o one("in" \in revents[c], "handleRead")
                \o one("out" \in revents[c], "handleWrite")
           T == {Call(o, c) : o \in Touching}
           a == active[l] \ {c}
<1>1. /\ phase[l] = "events" /\ todo[l] = <<>> /\ Todo(l) = {} /\ c \in active[l] \ {Acceptor}
      /\ batch[l] = <<>> /\ kept[l] = {}
  BY SetOfOne DEF handleEvent, IInv, Turns, TurnsAt, Todo, Conns, Acceptor
<1>2. ToSet(t) \subseteq T
  <2>0. \A o \in Touching : Call(o, c) \in T
    OBVIOUS
  <2> HIDE DEF T
  <2>1. \A b : \A o \in Touching : one(b, o) \in Seq(T)
    BY <2>0
  <2> HIDE DEF one
  <2>2. t \in Seq(T)
    BY <2>1 DEF Touching
  <2> QED BY <2>2 DEF ToSet
<1>3. \A f \in ToSet(t) : f.conn = c /\ f.op \in Touching
  BY <1>2, CallEq
<1>4. Move(l, phase[l], t, a, pend[l], batch[l], kept[l])
  BY Same DEF handleEvent, Move, serverVars, connVars, regVars, outside, userVars
<1> HIDE DEF t
<1>5. Fits(l, phase[l], t, a, pend[l], batch[l], kept[l])
  BY <1>1, <1>3 DEF Fits, Waiting, Pend, Batch
<1>6. /\ phase'[l] = phase[l] /\ batch'[l] = batch[l] /\ kept'[l] = kept[l]
      /\ pend'[l] = pend[l] /\ Todo(l)' = ToSet(t) /\ Waiting(l)' = Waiting(l)
      /\ Batch(l)' = Batch(l) /\ Pend(l)' = Pend(l)
  BY <1>4, LoopAlone DEF Waiting, Pend, Batch
<1>7. TurnsAt(l)'
  BY <1>1, <1>6 DEF TurnsAt, Runs
<1>8. ~Awaited(c) /\ loopOf[c] = l
  BY <1>1 DEF IInv, Fresh, Known
<1>9. ASSUME NEW g \in Waiting(l), g.op = "connectEstablished" PROVE g.conn # c
  <2>1. g.conn = c => g = CE(c)
    BY <1>9, Typing DEF Functors, CE, Call
  <2> QED BY <1>8, <1>9, <2>1 DEF Awaited
<1>10. OrderAt(l)'
  BY <1>3, <1>6, <1>9 DEF IInv, Order, OrderAt, Once, Touching
<1>11. OwnedAt(l)'
  BY <1>1, <1>4, <1>6 DEF IInv, Owned, OwnedAt, Runs, IsHeld, Move
<1> QED BY <1>3, <1>4, <1>5, <1>6, <1>7, <1>10, <1>11, MoveKeeps

\* The swap in doPendFunc keeps the invariant: the order of the functors survives it.
LEMMA SwapKeeps ==
  ASSUME Parts, IInv, Shuts \/ Sends, NEW l \in Loops, swapPendFuncs(l)
  PROVE  IInv' /\ Moves(l)
<1>1. /\ phase[l] = "events" /\ todo[l] = <<>> /\ Todo(l) = {} /\ active[l] = {}
      /\ batch[l] = <<>> /\ kept[l] = {} /\ Batch(l) = {}
  BY SetOfOne DEF swapPendFuncs, IInv, Turns, TurnsAt, Todo, Batch
<1>2. Move(l, "functors", todo[l], active[l], <<>>, pend[l], kept[l])
  BY Same DEF swapPendFuncs, Move, serverVars, connVars, regVars, outside, userVars
<1>3. Fits(l, "functors", todo[l], active[l], <<>>, pend[l], kept[l])
  BY <1>1, SetOfOne DEF Fits, Todo, Waiting, Pend, Batch
<1>4. /\ phase'[l] = "functors" /\ active'[l] = {} /\ pend'[l] = <<>> /\ batch'[l] = pend[l]
      /\ Todo(l)' = {} /\ Waiting(l)' = Waiting(l) /\ Batch(l)' = Pend(l) /\ Pend(l)' = {}
  BY <1>1, <1>2, LoopAlone, SetOfOne DEF Waiting, Pend, Batch, Todo
<1>5. TurnsAt(l)'
  BY <1>1, <1>4 DEF TurnsAt, Runs
<1>6. OrderAt(l)'
  <2>1. First(<<>>)
    BY DEF First
  <2> QED BY <1>1, <1>4, <2>1 DEF IInv, Order, OrderAt
<1>7. OwnedAt(l)'
  BY <1>1, <1>2, <1>4 DEF IInv, Owned, OwnedAt, Runs, IsHeld, Move
<1> QED BY <1>2, <1>3, <1>5, <1>6, <1>7, MoveKeeps

\* The end of doPendFunc keeps the invariant: what its vector alone owned is free, and
\* no loop has anything left to call on it.
LEMMA DoneKeeps ==
  ASSUME Parts, IInv, Shuts \/ Sends, NEW l \in Loops, doPendFuncDone(l)
  PROVE  IInv' /\ Moves(l)
<1>1. /\ phase[l] = "functors" /\ todo[l] = <<>> /\ Todo(l) = {} /\ active[l] = {}
      /\ batch[l] = <<>>
  BY SetOfOne DEF doPendFuncDone, IInv, Turns, TurnsAt, Todo
<1>2. Move(l, "poll", todo[l], active[l], pend[l], batch[l], {})
  BY Same DEF doPendFuncDone, Move, serverVars, connVars, regVars, outside, userVars
<1>3. Fits(l, "poll", todo[l], active[l], pend[l], batch[l], {})
  BY <1>1 DEF Fits, Todo, Waiting, Pend, Batch
<1>4. /\ phase'[l] = "poll" /\ todo'[l] = <<>> /\ active'[l] = {} /\ pend'[l] = pend[l]
      /\ batch'[l] = batch[l] /\ kept'[l] = {}
      /\ Todo(l)' = {} /\ Waiting(l)' = Waiting(l) /\ Batch(l)' = Batch(l) /\ Pend(l)' = Pend(l)
  BY <1>1, <1>2, LoopAlone DEF Waiting, Pend, Batch, Todo
<1>5. TurnsAt(l)'
  BY <1>1, <1>4 DEF TurnsAt, Runs
<1>6. OrderAt(l)'
  BY <1>1, <1>4 DEF IInv, Order, OrderAt
<1>7. OwnedAt(l)'
  BY <1>1, <1>2, <1>4 DEF IInv, Owned, OwnedAt, Runs, IsHeld, Move
<1> QED BY <1>2, <1>3, <1>5, <1>6, <1>7, MoveKeeps

\* doPendFunc runs a functor and keeps the invariant: the vector still owns it.
LEMMA RunKeeps ==
  ASSUME Parts, IInv, Shuts \/ Sends, NEW l \in Loops, runFunctor(l)
  PROVE  IInv' /\ Moves(l)
<1> DEFINE f == Head(batch[l])
           k == kept[l] \cup {c \in {f.conn} : f.op \in Owning}
           b == Tail(batch[l])
           t == <<f>>
<1>1. /\ phase[l] = "functors" /\ todo[l] = <<>> /\ Todo(l) = {} /\ active[l] = {}
      /\ batch[l] # <<>>
  BY SetOfOne DEF runFunctor, IInv, Turns, TurnsAt, Todo
<1>2. batch[l] \in Seq(Functors) /\ Batch(l) = {f} \cup ToSet(b) /\ f \in Functors
  BY <1>1, SetOfTail DEF Parts, LoopTypes, Batch
<1>3. Move(l, "functors", t, active[l], pend[l], b, k)
  BY <1>1, Same DEF runFunctor, Move, serverVars, connVars, regVars, outside, userVars
<1>b. /\ First(batch[l]) => First(b)
      /\ First(batch[l]) => \A g \in ToSet(b) : g.op = "connectEstablished" => f.conn # g.conn
  <2> DEFINE q == batch[l]
  <2>1. /\ DOMAIN q = 1 .. Len(q) /\ Len(q) \in Nat \ {0} /\ f = q[1]
        /\ DOMAIN b = 1 .. Len(q) - 1 /\ \A i \in DOMAIN b : b[i] = q[i + 1]
    BY <1>1, <1>2
  <2> HIDE DEF q, b, f
  <2>2. \A i \in DOMAIN b : i \in Nat /\ i + 1 \in DOMAIN q /\ 1 < i + 1 /\ 1 \in DOMAIN q
    BY <2>1
  <2>3. ASSUME First(q), NEW i \in DOMAIN b, NEW j \in DOMAIN b, i < j,
               b[j].op = "connectEstablished"
        PROVE  b[i].conn # b[j].conn
    <3>1. i + 1 < j + 1 /\ b[i] = q[i + 1] /\ b[j] = q[j + 1]
      BY <2>1, <2>2, <2>3
    <3> QED BY <2>2, <2>3, <3>1 DEF First
  <2>4. ASSUME First(q), NEW j \in DOMAIN b, b[j].op = "connectEstablished"
        PROVE  f.conn # b[j].conn
    BY <2>1, <2>2, <2>4 DEF First
  <2> QED BY <2>3, <2>4 DEF First, ToSet, q
<1> HIDE DEF b, f, k, t
<1>4. ToSet(t) = {f} /\ ToSet(Tail(t)) = {}
  <2>1. Tail(t) = <<>>
    BY DEF t
  <2> QED BY <2>1, SetOfOne DEF t
<1>a. \A d \in k : d \in kept[l] \/ (Alive(d) /\ (l = base \/ loopOf[d] = l))
  <2>1. f \in Waiting(l) /\ Born(f.conn) /\ Place(f) = l
    BY <1>2 DEF Waiting, IInv, Known
  <2>2. f.op \in Owning => Alive(f.conn)
    BY <2>1, LivesIsAlive DEF Lives
  <2>3. l = base \/ loopOf[f.conn] = l
    BY <2>1 DEF Place
  <2> QED BY <2>2, <2>3 DEF k
<1>5. Fits(l, "functors", t, active[l], pend[l], b, k)
  BY <1>1, <1>2, <1>4, <1>a DEF Fits, Waiting, Pend
<1>6. /\ phase'[l] = "functors" /\ active'[l] = {} /\ pend'[l] = pend[l] /\ batch'[l] = b
      /\ kept'[l] = k
      /\ Todo(l)' = {f} /\ Rest(l)' = {} /\ Waiting(l)' = Pend(l) \cup ToSet(b)
      /\ Batch(l)' = ToSet(b) /\ Pend(l)' = Pend(l)
  <2>1. /\ phase'[l] = "functors" /\ active'[l] = active[l] /\ pend'[l] = pend[l]
        /\ batch'[l] = b /\ kept'[l] = k
        /\ Todo(l)' = ToSet(t) /\ Rest(l)' = ToSet(Tail(t))
        /\ Waiting(l)' = ToSet(pend[l]) \cup ToSet(b)
        /\ Batch(l)' = ToSet(b) /\ Pend(l)' = ToSet(pend[l])
    BY <1>3, LoopAlone
  <2> QED BY <1>1, <1>4, <2>1 DEF Pend
<1>7. TurnsAt(l)'
  BY <1>1, <1>6 DEF TurnsAt, Runs
<1>8. OrderAt(l)'
  BY <1>2, <1>6, <1>b DEF IInv, Order, OrderAt, Waiting
<1>9. OwnedAt(l)'
  <2>1. f.op \in Raw => IsHeld(f.conn)
    BY <1>1, <1>2 DEF IInv, Owned, OwnedAt, Runs, Waiting
  <2>2. f.op \in Raw \cup Owning
    BY <1>2 DEF Functors, Deferred, Raw, Owning
  <2>3. f.conn \in k \/ (f.op \in Raw /\ \E p \in Users : f.conn \in held'[p])
    <3>1. held' = held
      BY <1>3 DEF Move
    <3>2. f.op \in Owning => f.conn \in k
      BY DEF k
    <3> QED BY <2>1, <2>2, <3>1, <3>2 DEF IsHeld
  <2> QED BY <1>1, <1>2, <1>3, <1>6, <2>3 DEF IInv, Owned, OwnedAt, Runs, IsHeld, Move, Waiting
<1> QED BY <1>3, <1>5, <1>7, <1>8, <1>9, MoveKeeps

\* A loop returns, or ~Server waits for one, and the invariant is kept: loop() returns
\* with an empty stack and no event left.
LEMMA EnterKeeps ==
  ASSUME Parts, IInv, Shuts \/ Sends, NEW l \in Loops, NEW p \in {"exited", "joining"},
         enter(l, p),
         \/ l = base /\ p = "exited" /\ MayStop /\ phase[l] = "poll"
         \/ l = base /\ p = "joining" /\ phase[l] = "exited" /\ todo[l] = <<>>
         \/ l # base /\ p = "exited" /\ phase[l] = "poll" /\ Told(l)
  PROVE  IInv' /\ Moves(l)
<1>1. /\ todo[l] = <<>> /\ Todo(l) = {} /\ active[l] = {} /\ batch[l] = <<>> /\ kept[l] = {}
      /\ phase[l] \in {"poll", "exited"} /\ Batch(l) = {}
  BY SetOfOne DEF IInv, Turns, TurnsAt, Todo, Batch
<1>2. Move(l, p, todo[l], active[l], pend[l], batch[l], kept[l])
  BY Same DEF enter, Move, serverVars, connVars, regVars, outside, userVars
<1>3. Fits(l, p, todo[l], active[l], pend[l], batch[l], kept[l])
  BY <1>1 DEF Fits, Todo, Waiting, Pend, Batch
<1>4. /\ phase'[l] = p /\ todo'[l] = <<>> /\ active'[l] = {}
      /\ batch'[l] = <<>> /\ kept'[l] = {} /\ pend'[l] = pend[l]
      /\ Todo(l)' = {} /\ Waiting(l)' = Waiting(l) /\ Batch(l)' = Batch(l) /\ Pend(l)' = Pend(l)
  BY <1>1, <1>2, LoopAlone DEF Waiting, Pend, Batch, Todo
<1>5. TurnsAt(l)'
  <2>1. base \in Loops /\ (phase[base] \in {"exited", "joining"} => MayStop)
    BY DEF IInv, Turns, TurnsAt, Runs, Loops
  <2>2. l # base => l \in ToSet(loops) /\ phase'[base] = "joining" /\ loops' = loops
    BY <1>1, <1>4, <2>1 DEF Told, ToSet, enter, serverVars
  <2> QED BY <1>1, <1>4, <2>1, <2>2 DEF TurnsAt, Runs, Told
<1>6. OrderAt(l)'
  BY <1>1, <1>4 DEF IInv, Order, OrderAt
<1>7. OwnedAt(l)'
  BY <1>1, <1>2, <1>4 DEF IInv, Owned, OwnedAt, Runs, IsHeld, Move
<1> QED BY <1>2, <1>3, <1>5, <1>6, <1>7, MoveKeeps

\* An accept that fails keeps the invariant.
LEMMA AcceptFailsKeeps ==
  ASSUME Parts, IInv, Shuts \/ Sends, acceptFails PROVE IInv' /\ Moves(base)
<1> DEFINE a == active[base] \ {Acceptor}
<1>0. base \in Loops
  BY DEF Loops
<1>1. phase[base] = "events" /\ batch[base] = <<>> /\ kept[base] = {} /\ a \subseteq active[base]
  BY <1>0 DEF acceptFails, accepting, IInv, Turns, TurnsAt
<1>2. Move(base, phase[base], todo[base], a, pend[base], batch[base], kept[base])
  BY <1>0, Same DEF acceptFails, accepting, Move, serverVars, regVars, outside, userVars
<1> HIDE DEF a
<1>3. Fits(base, phase[base], todo[base], a, pend[base], batch[base], kept[base])
  BY <1>1 DEF Fits, Todo, Waiting, Pend, Batch
<1>4. /\ phase'[base] = "events" /\ todo'[base] = todo[base]
      /\ batch'[base] = <<>> /\ kept'[base] = {} /\ pend'[base] = pend[base]
      /\ Todo(base)' = Todo(base) /\ Waiting(base)' = Waiting(base)
      /\ Batch(base)' = Batch(base) /\ Pend(base)' = Pend(base) /\ Rest(base)' = Rest(base)
  BY <1>0, <1>1, <1>2, LoopAlone DEF Waiting, Pend, Batch, Todo, Rest
<1>5. TurnsAt(base)'
  BY <1>0, <1>1, <1>4 DEF TurnsAt, Runs
<1>6. OrderAt(base)'
  BY <1>0, <1>1, <1>4 DEF IInv, Order, OrderAt
<1>7. OwnedAt(base)'
  BY <1>0, <1>1, <1>2, <1>4 DEF IInv, Owned, OwnedAt, Runs, IsHeld, Move
<1> QED BY <1>0, <1>2, <1>3, <1>5, <1>6, <1>7, MoveKeeps

-----------------------------------------------------------------------------
(* The threads of the user. *)

\* A user thread that looks at state_ keeps the invariant.
LEMMA UserCallsKeeps ==
  ASSUME Parts, IInv, NEW p \in Users, NEW c \in Conns, NEW op \in UserOps, userCalls(p, c, op)
  PROVE  IInv' /\ Freeing
<1>1. /\ UNCHANGED <<phase, todo, active, pend, batch, kept, nextConnId, connections, loops,
                     loopOf, fdOf, state, index, fileds, held>>
  BY DEF userCalls, loopVars, turnVars, serverVars, connVars, regVars
<1>2. /\ UNCHANGED <<Turns, Known, Order, Fresh, InUse, Registry, Closing, Owned, Entries, Apart>>
  BY <1>1 DEF Turns, TurnsAt, Runs, Known, Place, Order, OrderAt, Fresh, Awaited, Kept, InUse,
     Registry, Closing, Owned, OwnedAt, IsHeld, Entries, Apart, Alive, Born, Waiting, Todo, Rest,
     Pend, Batch
<1>3. Asked'
  BY CallEq DEF userCalls, IInv, Asked, Parts, UserTypes
<1>4. Freeing
  BY <1>1 DEF Freeing, Alive, Born
<1> QED BY <1>2, <1>3, <1>4 DEF IInv

\* A user thread that drops its pointer keeps the invariant if it is careful: no raw
\* call of its own is left behind.
LEMMA UserDropsKeeps ==
  ASSUME Parts, IInv, Careful, NEW p \in Users, NEW c \in Conns, userDrops(p, c)
  PROVE  IInv' /\ Freeing
<1>1. /\ UNCHANGED <<phase, todo, active, pend, batch, kept, nextConnId, connections, loops,
                     loopOf, fdOf, state, index, fileds, doing>>
      /\ held' = [held EXCEPT ![p] = @ \ {c}] /\ held \in [Users -> SUBSET Conns]
  BY DEF userDrops, loopVars, turnVars, serverVars, connVars, regVars, Parts, UserTypes
<1>2. /\ UNCHANGED <<Turns, Order, InUse, Registry, Closing, Entries>>
  BY <1>1 DEF Turns, TurnsAt, Runs, Order, OrderAt, Kept, InUse, Registry, Closing, Entries,
     Born, Waiting, Todo, Rest, Pend, Batch
<1>3. \A q \in Users : held'[q] \subseteq held[q] /\ held[q] \ {c} \subseteq held'[q]
                       /\ (q # p => held'[q] = held[q])
  BY <1>1
<1>4. Known'
  BY <1>1, <1>3 DEF IInv, Known, Place, Born, Waiting, Todo, Pend, Batch
<1>5. Fresh'
  BY <1>1, <1>3 DEF IInv, Fresh, Awaited, Kept, Waiting, Todo, Pend, Batch
<1>6. Asked'
  BY <1>1, <1>3 DEF IInv, Asked, userDrops
<1>7. ASSUME NEW m \in Loops, NEW f \in Todo(m) \cup Waiting(m), f.op \in Raw, IsHeld(f.conn),
             phase[m] # "exited"
      PROVE  IsHeld(f.conn)'
  <2>1. CASE f.conn = c
    <3>1. f = Call(f.op, c) /\ f \in Calls
      BY <2>1, <1>7, Typing DEF Calls, Functors, Call
    <3>2. loopOf[c] = m
      BY <1>7, <2>1 DEF IInv, Known, Place, Raw
    <3>3. Queued(Call(f.op, c))
      BY <1>7, <3>1 DEF Queued, Todo, Waiting, Pend, Batch
    <3> QED BY <1>7, <3>2, <3>3 DEF userDrops
  <2>2. CASE f.conn # c
    BY <1>3, <1>7, <2>2 DEF IsHeld
  <2> QED BY <2>1, <2>2
<1>8. Owned'
  BY <1>1, <1>7 DEF IInv, Owned, OwnedAt, Runs, Waiting, Todo, Pend, Batch
<1>9. \A d \in Conns : Alive(d)' => Alive(d)
  BY <1>1, <1>3 DEF Alive, Born
<1>10. Apart'
  BY <1>1, <1>9 DEF IInv, Apart
<1> QED BY <1>2, <1>4, <1>5, <1>6, <1>8, <1>9, <1>10 DEF IInv, Freeing

\* A user thread that goes on with its send or shutdown keeps the invariant: it still
\* has its pointer, and a shutdown disturbs no sendinLoop, for there is none.
LEMMA UserGoesOnKeeps ==
  ASSUME Parts, IInv, NEW p \in Users, NEW c \in Conns,
         userSetDisconnecting(p, c) \/ userQueues(p, c)
  PROVE  IInv' /\ Freeing
<1>t. doing \in [Users -> {Idle} \cup [op : Raw \cup {"setDisconnecting"}, conn : Conns]]
  BY DEF Parts, UserTypes
<1>i. \A o : Call(o, c) # Idle
  BY DEF Idle, Call, Conns
<1>1. CASE userSetDisconnecting(p, c)
  <2>1. /\ UNCHANGED <<phase, todo, active, pend, batch, kept, nextConnId, connections, loops,
                       loopOf, fdOf, index, fileds, held>>
        /\ state' = [state EXCEPT ![c] = "kDisconnecting"] /\ state \in [Conns -> States]
        /\ doing' = [doing EXCEPT ![p] = Call("shutdownInLoop", c)]
        /\ doing[p] = Call("setDisconnecting", c)
    BY <1>1 DEF userSetDisconnecting, loopVars, turnVars, serverVars, regVars, Parts, ConnTypes
  <2>2. /\ UNCHANGED <<Turns, Order, Owned, Entries, Apart>>
    BY <2>1 DEF Turns, TurnsAt, Runs, Order, OrderAt, Owned, OwnedAt, IsHeld, Entries, Apart, Alive,
       Born, Waiting, Todo, Rest, Pend, Batch
  <2>3. c \in held[p] /\ Born(c) /\ "shutdown" \in UserOps
    <3>1. c \in held[p] /\ "shutdown" \in UserOps
      BY <1>i, <2>1, CallEq DEF IInv, Asked
    <3> QED BY <3>1 DEF IInv, Known
  <2>4. state'[c] = "kDisconnecting" /\ \A d \in Conns \ {c} : state'[d] = state[d]
    BY <2>1
  <2>5. Asked'
    BY <1>t, <2>1, <2>3, CallEq DEF IInv, Asked
  <2>6. Known'
    BY <2>1, <2>3, <2>4 DEF IInv, Known, Place, Born, Waiting, Todo, Pend, Batch
  <2>7. Fresh'
    BY <2>1, <2>3, <2>4 DEF IInv, Fresh, Awaited, Kept, Waiting, Todo, Pend, Batch
  <2>8. ~Sends /\ Closing'
    BY <2>3 DEF Sends, Closing
  <2>9. InUse'
    BY <2>1, <2>8 DEF IInv, InUse, Kept, Waiting, Todo, Pend, Batch
  <2>10. Registry'
    BY <2>1, <2>4 DEF IInv, Registry, Kept, Waiting, Todo, Pend, Batch
  <2>11. Freeing
    BY <2>1 DEF Freeing, Alive, Born
  <2> QED BY <2>2, <2>5, <2>6, <2>7, <2>8, <2>9, <2>10, <2>11 DEF IInv
<1>2. CASE userQueues(p, c)
  <2>1. PICK o \in Raw : doing[p] = Call(o, c) /\ queueinLoop(loopOf[c], Call(o, c))
    BY <1>2 DEF userQueues
  <2> DEFINE g == Call(o, c)
             m == loopOf[c]
  <2>2. /\ UNCHANGED <<phase, todo, active, batch, kept, nextConnId, connections, loops,
                       loopOf, fdOf, state, index, fileds, held>>
        /\ doing' = [doing EXCEPT ![p] = Idle]
    BY <1>2 DEF userQueues, turnVars, serverVars, connVars, regVars
  <2>3. g \in Functors /\ m \in Loops /\ g.op \in Raw /\ g.conn = c /\ g.op = o
    BY CallEq, CallTyped DEF Raw, Deferred, Parts, ConnTypes
  <2>4. /\ c \in held[p] /\ Born(c) /\ ~Awaited(c)
        /\ o = "sendinLoop" => "send" \in UserOps
    <3>1. c \in held[p] /\ (o = "sendinLoop" => "send" \in UserOps)
      BY <1>i, <2>1, CallEq DEF IInv, Asked
    <3> QED BY <3>1 DEF IInv, Known, Fresh
  <2>5. /\ \A n \in Loops : Pend(n)' = Pend(n) \cup {f \in {g} : n = m}
        /\ \A n \in Loops : n # m => pend'[n] = pend[n]
        /\ First(pend[m]) => First(pend'[m])
    BY <2>1, <2>3, Queueing DEF Raw
  <2> HIDE DEF g, m
  <2>6. \A n \in Loops : /\ Todo(n)' = Todo(n) /\ Batch(n)' = Batch(n) /\ Rest(n)' = Rest(n)
                         /\ Waiting(n)' = Waiting(n) \cup {f \in {g} : n = m}
    BY <2>2, <2>5 DEF Todo, Batch, Rest, Waiting
  <2>7. /\ \A d \in Conns : loopOf[d] \in Loops
        /\ \A d : CD(d) # g /\ CE(d) # g /\ Removal(d) # g
        /\ m = loopOf[c] /\ base \in Loops
    BY <2>3, CallEq DEF Parts, ConnTypes, CD, CE, Removal, Raw, m, Loops
  <2>8. \A d \in Conns : /\ Kept(d)' <=> Kept(d)
                         /\ Awaited(d)' <=> Awaited(d)
    BY <2>2, <2>6, <2>7 DEF Kept, Awaited, CD, CE
  <2>9. Turns'
    BY <2>2 DEF IInv, Turns, TurnsAt, Runs
  <2>10. Known'
    BY <2>2, <2>3, <2>4, <2>6, <2>7 DEF IInv, Known, Place, Born, Raw
  <2>11. Asked'
    BY <1>t, <2>2 DEF IInv, Asked
  <2>12. Order'
    <3> SUFFICES ASSUME NEW n \in Loops PROVE OrderAt(n)'
      BY DEF Order
    <3> QED BY <2>2, <2>3, <2>5, <2>6 DEF IInv, Order, OrderAt, Raw
  <2>13. Fresh'
    BY <2>2, <2>6, <2>7, <2>8 DEF IInv, Fresh, Removal
  <2>14. InUse'
    BY <2>2, <2>6, <2>8, Typing DEF IInv, InUse, Calls, Parts, LoopTypes
  <2>15. Registry'
    BY <2>2, <2>6, <2>7, <2>8 DEF IInv, Registry, Call
  <2>16. Closing'
    BY <2>2, <2>3, <2>6 DEF IInv, Closing, Born, Raw
  <2>17. Owned'
    BY <2>2, <2>3, <2>4, <2>6 DEF IInv, Owned, OwnedAt, Runs, IsHeld
  <2>18. Entries'
    BY <2>2 DEF IInv, Entries, Born
  <2>19. ASSUME NEW d \in Conns, Alive(d)' PROVE Alive(d)
    <3>1. Lives(d)'
      BY <2>19, LivesIsAlive
    <3>2. Lives(d)
      BY <2>2, <2>3, <2>6, <3>1 DEF Lives, Born, IsHeld, Raw, Owning
    <3> QED BY <3>2, LivesIsAlive
  <2>20. Apart'
    BY <2>2, <2>19 DEF IInv, Apart
  <2> QED BY <2>9, <2>10, <2>11, <2>12, <2>13, <2>14, <2>15, <2>16, <2>17, <2>18, <2>19,
         <2>20 DEF IInv, Freeing
<1> QED BY <1>1, <1>2
-----------------------------------------------------------------------------
(* The Server and the loops. *)

\* What such a turn does to the queues and the stacks.
Destroying(c) ==
    /\ \A m \in Loops : Batch(m)' = Batch(m)
    /\ \A m \in Loops : Waiting(m)' = Waiting(m) \cup {f \in {CD(c)} : loopOf[c] = m /\ m # base}
    /\ \A m \in Loops : Todo(m)' = Todo(m) \cup {f \in {CD(c)} : loopOf[c] = m /\ m = base}

\* One turn of the loop of ~Server keeps the invariant: connectDestroyed is queued, or
\* runs at once with the local pointer.
LEMMA DestroyServerKeeps ==
  ASSUME Parts, IInv, NEW c \in Conns, destroyServer(c)
  PROVE  IInv' /\ Freeing /\ Destroying(c)
<1> DEFINE g == CD(c)
           n == loopOf[c]
<1>0. base \in Loops /\ n \in Loops
  BY DEF Loops, Parts, ConnTypes
<1>1. /\ phase[base] = "exited" /\ todo[base] = <<>> /\ Todo(base) = {}
      /\ c \in connections /\ connections' = connections \ {c} /\ MayStop
  BY <1>0, SetOfOne DEF destroyServer, Todo, IInv, Turns, TurnsAt, Runs
<1>2. UNCHANGED <<phase, active, batch, kept, nextConnId, loops, loopOf, fdOf, state, index,
                  fileds, held, doing>>
  BY DEF destroyServer, turnVars, connVars, regVars, outside, userVars
<1>3. g \in Functors /\ g.op = "connectDestroyed" /\ g.conn = c /\ Place(g) = n
  BY CallTyped, CallEq DEF CD, Deferred, Place
<1>4. /\ \A m \in Loops \ {base} : todo'[m] = todo[m] /\ Todo(m)' = Todo(m) /\ Rest(m)' = Rest(m)
      /\ Todo(base)' = {f \in {g} : n = base} /\ (n = base => Rest(base)' = {})
      /\ \A m \in Loops : Pend(m)' = Pend(m) \cup {f \in {g} : n = m /\ m # base}
      /\ \A m \in Loops : First(pend[m]) => First(pend'[m])
  <2>1. CASE n = base
    <3> DEFINE t == <<g>>
    <3>1. todo' = [todo EXCEPT ![base] = t] /\ pend' = pend
      BY <2>1 DEF destroyServer, CD
    <3>2. ToSet(t) = {g} /\ ToSet(Tail(t)) = {}
      <4>1. Tail(t) = <<>>
        OBVIOUS
      <4> QED BY <4>1, SetOfOne
    <3> HIDE DEF t, g, n
    <3>3. todo'[base] = t /\ \A m \in Loops \ {base} : todo'[m] = todo[m]
      BY <1>0, <3>1 DEF Parts, TodoTypes
    <3> QED BY <1>0, <2>1, <3>1, <3>2, <3>3 DEF Todo, Rest, Pend
  <2>2. CASE n # base
    <3>1. queueinLoop(n, g) /\ todo' = todo
      BY <2>2 DEF destroyServer, CD
    <3>2. /\ \A m \in Loops : Pend(m)' = Pend(m) \cup {f \in {g} : m = n}
          /\ \A m \in Loops : m # n => pend'[m] = pend[m]
          /\ First(pend[n]) => First(pend'[n])
      BY <1>0, <1>3, <3>1, Queueing
    <3> QED BY <1>0, <1>1, <2>2, <3>1, <3>2 DEF Todo, Rest
  <2> QED BY <2>1, <2>2
<1> HIDE DEF g, n
<1>5. /\ \A m \in Loops : Batch(m)' = Batch(m)
      /\ \A m \in Loops : Waiting(m)' = Waiting(m) \cup {f \in {g} : n = m /\ m # base}
      /\ \A m \in Loops : Todo(m)' = Todo(m) \cup {f \in {g} : n = m /\ m = base}
  BY <1>0, <1>1, <1>2, <1>4 DEF Batch, Waiting
<1>6. Born(c)
  BY <1>1 DEF IInv, Known
<1>7. /\ \A d \in Conns : loopOf[d] \in Loops
      /\ \A d : CE(d) # g /\ Removal(d) # g /\ (CD(d) = g <=> d = c) /\ Call("remove", d) # g
      /\ n = loopOf[c]
  BY <1>3, CallEq DEF Parts, ConnTypes, CD, CE, Removal, n, g
<1>8. \A d \in Conns : Kept(d)' <=> Kept(d)
  BY <1>0, <1>1, <1>2, <1>5, <1>7 DEF Kept, CD
<1>9. \A d \in Conns : Awaited(d)' <=> Awaited(d)
  BY <1>2, <1>5, <1>7 DEF Awaited, CE
<1>10. Turns'
  <2>1. \A m \in Loops \ {base} : todo'[m] = todo[m]
    BY <1>4
  <2> QED BY <1>1, <1>2, <2>1 DEF IInv, Turns, TurnsAt, Runs
<1>11. Known'
  BY <1>1, <1>2, <1>3, <1>5, <1>6 DEF IInv, Known, Place, Born
<1>12. Asked'
  BY <1>2 DEF IInv, Asked
<1>13. Order'
  <2> SUFFICES ASSUME NEW m \in Loops PROVE OrderAt(m)'
    BY DEF Order
  <2>1. ASSUME NEW f \in Todo(m)', NEW h \in Waiting(m)', h.op = "connectEstablished"
        PROVE  f.conn # h.conn
    <3>1. h \in Waiting(m) /\ m # base
      BY <1>3, <1>5, <2>1 DEF IInv, Order, OrderAt
    <3> QED BY <1>5, <2>1, <3>1 DEF IInv, Order, OrderAt
  <2>2. ASSUME NEW f \in Todo(m)'
        PROVE  /\ f.op \in Once => Rest(m)' = {}
               /\ f.op = "connectDestroyed" => phase'[m] \in {"functors", "exited"}
    <3>1. CASE m = base
      BY <1>1, <1>2, <1>4, <2>2, <3>1
    <3>2. CASE m # base
      BY <1>2, <1>4, <2>2, <3>2 DEF IInv, Order, OrderAt
    <3> QED BY <3>1, <3>2
  <2> QED BY <1>2, <1>3, <1>4, <1>5, <2>1, <2>2 DEF IInv, Order, OrderAt
<1>14. Fresh'
  BY <1>0, <1>2, <1>5, <1>7, <1>8, <1>9 DEF IInv, Fresh, Removal
<1>15. InUse'
  <2>1. \A m \in Loops : Todo(m) \subseteq Calls
    BY Typing
  <2> QED BY <1>2, <1>3, <1>5, <1>8, <2>1 DEF IInv, InUse, Touching, Calls, Parts, LoopTypes
<1>16. Registry'
  BY <1>2, <1>5, <1>7, <1>8 DEF IInv, Registry, Call
<1>17. Closing'
  BY <1>1 DEF Closing, Sends
<1>18. Owned'
  BY <1>1, <1>2, <1>3, <1>5 DEF IInv, Owned, OwnedAt, Runs, IsHeld, Raw
<1>19. Entries'
  BY <1>2 DEF IInv, Entries, Born
<1>20. ASSUME NEW d \in Conns, Alive(d)' PROVE Alive(d)
  <2>1. Lives(d)'
    BY <1>20, LivesIsAlive
  <2>2. CASE d = c
    BY <1>1, <1>6, <2>2 DEF Alive
  <2>3. CASE d # c
    <3>1. Lives(d)
      BY <1>1, <1>2, <1>3, <1>5, <2>1, <2>3 DEF Lives, Born, IsHeld
    <3> QED BY <3>1, LivesIsAlive
  <2> QED BY <2>2, <2>3
<1>21. Apart'
  BY <1>2, <1>20 DEF IInv, Apart
<1>22. Destroying(c)
  BY <1>5 DEF Destroying, g, n
<1> QED BY <1>10, <1>11, <1>12, <1>13, <1>14, <1>15, <1>16, <1>17, <1>18, <1>19, <1>20, <1>21,
      <1>22 DEF IInv, Freeing

\* ~EventLoop keeps the invariant: nobody owned by what it drops is still registered
\* anywhere, for its Epoller goes with it.
LEMMA DestroyLoopKeeps ==
  ASSUME Parts, IInv, NEW l \in Loops, destroyLoop(l) PROVE IInv' /\ Freeing
<1>0. base \in Loops
  BY DEF Loops
<1>1. /\ phase[l] = "exited" /\ todo[l] = <<>> /\ Todo(l) = {} /\ Batch(l) = {}
      /\ l = base => PoolGone
      /\ phase[base] \in {"exited", "joining"}
  BY <1>0, SetOfOne DEF destroyLoop, Todo, Batch, IInv, Turns, TurnsAt, ServerGone
<1>2. /\ UNCHANGED <<todo, active, batch, kept, nextConnId, connections, loops, loopOf, fdOf,
                     state, index, held, doing>>
      /\ phase' = [phase EXCEPT ![base] = "exited", ![l] = "destroyed"]
      /\ pend' = [pend EXCEPT ![l] = <<>>]
      /\ fileds' = [fileds EXCEPT ![l] = [fd \in Fds |-> 0]]
  BY DEF destroyLoop, dropped, serverVars, connVars, outside, userVars
<1>3. /\ phase'[l] = "destroyed" /\ (l # base => phase'[base] = "exited")
      /\ \A m \in Loops \ {l, base} : phase'[m] = phase[m]
      /\ \A m \in Loops \ {l} : pend'[m] = pend[m] /\ fileds'[m] = fileds[m]
      /\ pend'[l] = <<>> /\ \A fd \in Fds : fileds'[l][fd] = 0
  BY <1>0, <1>2 DEF Parts, LoopTypes, PendTypes, RegTypes
<1>4. /\ \A m \in Loops : Todo(m)' = Todo(m) /\ Batch(m)' = Batch(m) /\ Rest(m)' = Rest(m)
      /\ \A m \in Loops \ {l} : Pend(m)' = Pend(m) /\ Waiting(m)' = Waiting(m)
      /\ Pend(l)' = {} /\ Waiting(l)' = {}
  BY <1>1, <1>2, <1>3, SetOfOne DEF Todo, Batch, Rest, Pend, Waiting
<1>5. \A d \in Conns : loopOf[d] \in Loops
  BY DEF Parts, ConnTypes
<1>6. \A d \in Conns : loopOf[d] # l => (Kept(d)' <=> Kept(d))
  BY <1>2, <1>4, <1>5 DEF Kept, CD
<1>7. \A d \in Conns : Awaited(d)' => Awaited(d) /\ loopOf[d] # l
  BY <1>1, <1>2, <1>4, <1>5 DEF Awaited, CE
<1>8. Turns'
  <2>1. ASSUME NEW m \in Loops, m # l, m # base PROVE TurnsAt(m)'
    <3>1. l = base => phase[m] # "exited"
      BY <1>1, <2>1 DEF IInv, Turns, TurnsAt, PoolGone
    <3> QED BY <1>0, <1>1, <1>2, <1>3, <2>1, <3>1 DEF IInv, Turns, TurnsAt, Runs
  <2>2. MayStop
    BY <1>1 DEF IInv, Turns, TurnsAt, Runs
  <2>3. TurnsAt(l)'
    BY <1>1, <1>2, <1>3, <2>2 DEF IInv, Turns, TurnsAt, Runs
  <2>4. l # base => TurnsAt(base)'
    BY <1>0, <1>1, <1>2, <1>3, <2>2 DEF IInv, Turns, TurnsAt, Runs
  <2> QED BY <2>1, <2>3, <2>4 DEF Turns
<1>9. Known'
  <2>1. \A m \in Loops : Todo(m)' \cup Waiting(m)' \subseteq Todo(m) \cup Waiting(m)
    BY <1>4
  <2> QED BY <1>2, <2>1 DEF IInv, Known, Place, Born
<1>10. Asked'
  BY <1>2 DEF IInv, Asked
<1>11. Order'
  <2> SUFFICES ASSUME NEW m \in Loops PROVE OrderAt(m)'
    BY DEF Order
  <2>1. CASE m = l
    <3>1. First(pend'[m])
      BY <1>3, <2>1 DEF First
    <3> QED BY <1>1, <1>2, <1>4, <2>1, <3>1 DEF IInv, Order, OrderAt
  <2>2. CASE m # l
    <3>1. phase[m] \in {"functors", "exited"} => phase'[m] \in {"functors", "exited"}
      BY <1>3, <2>2
    <3> QED BY <1>2, <1>3, <1>4, <2>2, <3>1 DEF IInv, Order, OrderAt
  <2> QED BY <2>1, <2>2
<1>12. Fresh'
  <2>1. \A d : Removal(d) \notin Waiting(base) \cup Todo(base) =>
                  Removal(d) \notin Waiting(base)' \cup Todo(base)'
    BY <1>0, <1>4
  <2> QED BY <1>2, <1>6, <1>7, <2>1 DEF IInv, Fresh, Removal
<1>13. InUse'
  <2>1. ASSUME NEW m \in Loops, NEW f \in Todo(m), f.op \in Touching \cup {"sendinLoop"}
        PROVE  Kept(f.conn)' <=> Kept(f.conn)
    <3>1. f.conn \in Conns
      BY <2>1, Typing DEF Calls
    <3>2. loopOf[f.conn] = m /\ m # l
      BY <1>1, <2>1 DEF IInv, Known, Place, Touching
    <3> QED BY <1>6, <3>1, <3>2
  <2>2. ASSUME NEW m \in Loops, NEW d \in active[m] \ {Acceptor}
        PROVE  Kept(d)'
    <3>1. d \in Conns /\ loopOf[d] = m /\ m # l /\ Kept(d)
      BY <1>1, <2>2 DEF IInv, Known, InUse, Turns, TurnsAt, Parts, LoopTypes
    <3> QED BY <1>6, <3>1
  <2> QED BY <1>2, <1>4, <2>1, <2>2 DEF IInv, InUse
<1>14. Registry'
  <2> SUFFICES ASSUME NEW d \in Conns, phase'[loopOf[d]] # "destroyed"
      PROVE  /\ index[d] # "kNew" => Kept(d)' \/ Call("remove", d) \in Todo(loopOf[d])
             /\ state[d] = "kConnected" => Kept(d)'
    BY <1>2, <1>4, <1>5 DEF Registry, Call
  <2>1. loopOf[d] # l /\ phase[loopOf[d]] # "destroyed"
    BY <1>1, <1>3, <1>5
  <2> QED BY <1>6, <2>1 DEF IInv, Registry
<1>15. Closing'
  <2>1. \A m \in Loops : Todo(m)' \cup Waiting(m)' \subseteq Todo(m) \cup Waiting(m)
    BY <1>4
  <2> QED BY <1>2, <2>1 DEF IInv, Closing, Born
<1>16. Owned'
  <2> SUFFICES ASSUME NEW m \in Loops PROVE OwnedAt(m)'
    BY DEF Owned
  <2>1. CASE m = l \/ m = base
    <3>1. phase'[m] \in {"exited", "destroyed"}
      BY <1>3, <2>1
    <3>2. Waiting(m)' \subseteq Waiting(m)
      BY <1>4
    <3> QED BY <3>1, <3>2 DEF IInv, Owned, OwnedAt, Runs
  <2>2. CASE m # l /\ m # base
    BY <1>2, <1>3, <1>4, <2>2 DEF IInv, Owned, OwnedAt, Runs, IsHeld
  <2> QED BY <2>1, <2>2
<1>17. Entries'
  <2>1. \A m \in Loops, fd \in Fds : fileds'[m][fd] # 0 =>
           m # l /\ fileds'[m][fd] = fileds[m][fd] /\ phase'[m] # "destroyed"
    BY <1>1, <1>3 DEF IInv, Entries
  <2>2. \A d \in Conns : index[d] # "kNew" /\ phase'[loopOf[d]] # "destroyed" =>
           loopOf[d] # l /\ phase[loopOf[d]] # "destroyed"
    BY <1>1, <1>3, <1>5
  <2>3. ASSUME NEW d \in Conns, index[d] # "kNew", phase'[loopOf[d]] # "destroyed"
        PROVE  fileds'[loopOf[d]][fdOf[d]] = d
    BY <1>3, <1>5, <2>2, <2>3 DEF IInv, Entries
  <2>4. Entries /\ UNCHANGED <<nextConnId, loopOf, fdOf, index>> /\ \A d : Born(d)' <=> Born(d)
    BY <1>2 DEF IInv, Born
  <2>5. ASSUME NEW m \in Loops, NEW fd \in Fds, fileds'[m][fd] # 0, NEW d, d = fileds'[m][fd]
        PROVE  /\ Born(d)' /\ loopOf'[d] = m /\ fdOf'[d] = fd /\ index'[d] # "kNew"
               /\ phase'[m] # "destroyed"
    <3>1. d = fileds[m][fd] /\ d # 0 /\ phase'[m] # "destroyed"
      BY <2>1, <2>5
    <3>2. Born(d) /\ loopOf[d] = m /\ fdOf[d] = fd /\ index[d] # "kNew"
      BY <2>4, <3>1 DEF Entries
    <3> QED BY <2>4, <3>1, <3>2
  <2>6. \A d \in Conns : Born(d)' => fdOf'[d] \in Fds
    BY <2>4 DEF Entries
  <2> QED BY <2>3, <2>4, <2>5, <2>6 DEF Entries
<1>18. ASSUME NEW d \in Conns, Alive(d)' PROVE Alive(d)
  <2>1. Lives(d)'
    BY <1>18, LivesIsAlive
  <2>2. \A m \in Loops : Waiting(m)' \subseteq Waiting(m)
    BY <1>4
  <2>3. \A m \in Loops : \A f \in Todo(m)' : phase'[m] \in {"events", "exited"} =>
           f \in Todo(m) /\ phase[m] \in {"events", "exited"}
    <3>1. Todo(base) # {} => phase[base] # "joining"
      BY <1>0, SetOfOne DEF IInv, Turns, TurnsAt, Todo
    <3> QED BY <1>1, <1>3, <1>4, <3>1
  <2>4. Lives(d)
    BY <1>2, <2>1, <2>2, <2>3 DEF Lives, Born, IsHeld
  <2> QED BY <2>4, LivesIsAlive
<1>19. Apart'
  BY <1>2, <1>18 DEF IInv, Apart
<1> QED BY <1>8, <1>9, <1>10, <1>11, <1>12, <1>13, <1>14, <1>15, <1>16, <1>17, <1>18,
      <1>19 DEF IInv, Freeing

\* What it does to the queues and the stacks, for the connection c of the loop n.
Accepting(c, n) ==
    /\ ~Born(c) /\ \A d \in Conns : Born(d)' <=> (Born(d) \/ d = c)
    /\ loopOf'[c] = n /\ \A d \in Conns \ {c} : loopOf'[d] = loopOf[d]
    /\ \A m \in Loops : active'[m] \subseteq active[m]
    /\ \A m \in Loops : \A f \in Todo(m) \cup Waiting(m) : f.conn # c
    /\ \A m \in Loops : Waiting(m)' = Waiting(m) \cup {f \in {CE(c)} : n = m /\ m # base}
    /\ \A m \in Loops : Todo(m)' = Todo(m) \cup {f \in {CE(c)} : n = m /\ m = base}
    /\ \A d \in Conns \ {c} : /\ Kept(d)' <=> Kept(d)
                              /\ Awaited(d)' <=> Awaited(d)
                              /\ Alive(d)' => Alive(d)

\* Server::newConnection keeps the invariant: the number is new, the descriptor of
\* no connection alive, and connectEstablished the first that is queued for it.
LEMMA NewConnectionKeeps ==
  ASSUME Parts, Counted, IInv, newConnection
  PROVE  IInv' /\ \E c \in Conns, n \in Loops : c = nextConnId /\ Accepting(c, n)
<1>b. base \in Loops
  BY DEF Loops
<1>n. PICK n \in Loops : n = IF loops = <<>> THEN base ELSE loops[nextLoop + 1]
  BY <1>b DEF Parts, ServerParts
<1>p. PICK c \in Conns : c = nextConnId
  BY ServerAssumption DEF newConnection, accepting, Counted, Parts, ServerParts, Conns
<1> DEFINE g == CE(c)
<1>0. base \in Loops /\ n \in Loops
  BY <1>b
<1>c. c \in Conns /\ c \in Nat /\ c # 0
  BY DEF Conns
<1>1. /\ phase[base] = "events" /\ todo[base] = <<>> /\ Todo(base) = {}
      /\ batch[base] = <<>> /\ kept[base] = {} /\ Batch(base) = {}
      /\ connections' = connections \cup {c} /\ nextConnId' = c + 1
  BY <1>0, <1>p, SetOfOne DEF newConnection, accepting, Todo, Batch, IInv, Turns, TurnsAt
<1>2. UNCHANGED <<phase, batch, kept, loops, state, index, fileds, held, doing>>
  BY DEF newConnection, accepting, regVars, outside, userVars
<1>3. g \in Functors /\ g.op = "connectEstablished" /\ g.conn = c
  BY <1>c, CallTyped, CallEq DEF CE, Deferred
<1>4. ~Born(c) /\ \A d \in Conns : Born(d)' <=> (Born(d) \/ d = c)
  BY <1>1, <1>c, <1>p DEF Born, Conns, Parts, ServerParts
<1>5. PICK fd \in FreeFds : fdOf' = [fdOf EXCEPT ![c] = fd]
  BY <1>p DEF newConnection
<1>6. /\ loopOf' = [loopOf EXCEPT ![c] = n]
      /\ IF n = base
         THEN todo' = [todo EXCEPT ![base] = <<g>>] /\ UNCHANGED pend
         ELSE queueinLoop(n, g) /\ UNCHANGED todo
  BY <1>n, <1>p DEF newConnection, CE
<1>7. active' = [active EXCEPT ![base] = @ \ {Acceptor}]
  BY DEF newConnection, accepting
<1> HIDE DEF g
<1>8. /\ loopOf'[c] = n /\ \A d \in Conns \ {c} : loopOf'[d] = loopOf[d]
      /\ fdOf'[c] = fd /\ \A d \in Conns \ {c} : fdOf'[d] = fdOf[d]
      /\ \A d \in Conns : loopOf[d] \in Loops /\ loopOf'[d] \in Loops
  BY <1>0, <1>5, <1>6, <1>c DEF Parts, ConnTypes
<1>9. /\ \A m \in Loops : active'[m] \subseteq active[m] /\ active[m] \ {Acceptor} \subseteq active'[m]
      /\ \A m \in Loops \ {base} : active'[m] = active[m]
  BY <1>0, <1>7 DEF Parts, LoopTypes
<1>10. \A m \in Loops : \A f \in Todo(m) \cup Waiting(m) : f.conn # c /\ f.conn \in Conns
  <2>1. ASSUME NEW m \in Loops, NEW f \in Todo(m) \cup Waiting(m)
        PROVE  f.conn # c /\ f.conn \in Conns
    <3>1. Born(f.conn)
      BY DEF IInv, Known
    <3> QED BY <1>4, <3>1, Typing DEF Calls, Functors
  <2> QED BY <2>1
<1>11. /\ \A m \in Loops \ {base} : todo'[m] = todo[m] /\ Todo(m)' = Todo(m) /\ Rest(m)' = Rest(m)
       /\ Todo(base)' = {f \in {g} : n = base} /\ (n = base => Rest(base)' = {})
       /\ \A m \in Loops : Pend(m)' = Pend(m) \cup {f \in {g} : n = m /\ m # base}
       /\ \A m \in Loops : First(pend[m]) => First(pend'[m])
  <2>1. CASE n = base
    <3> DEFINE t == <<g>>
    <3>1. todo' = [todo EXCEPT ![base] = t] /\ pend' = pend
      BY <1>6, <2>1
    <3>2. ToSet(t) = {g} /\ ToSet(Tail(t)) = {}
      <4>1. Tail(t) = <<>>
        OBVIOUS
      <4> QED BY <4>1, SetOfOne
    <3> HIDE DEF t
    <3>3. todo'[base] = t /\ \A m \in Loops \ {base} : todo'[m] = todo[m]
      BY <1>0, <3>1 DEF Parts, TodoTypes
    <3> QED BY <1>0, <2>1, <3>1, <3>2, <3>3 DEF Todo, Rest, Pend
  <2>2. CASE n # base
    <3>1. queueinLoop(n, g) /\ todo' = todo
      BY <1>6, <2>2
    <3>2. \A f \in Pend(n) : f.conn # g.conn
      BY <1>0, <1>3, <1>10 DEF Waiting
    <3>3. /\ \A m \in Loops : Pend(m)' = Pend(m) \cup {f \in {g} : m = n}
          /\ \A m \in Loops : m # n => pend'[m] = pend[m]
          /\ First(pend[n]) => First(pend'[n])
      BY <1>0, <1>3, <3>1, <3>2, Queueing
    <3> QED BY <1>0, <1>1, <2>2, <3>1, <3>3 DEF Todo, Rest
  <2> QED BY <2>1, <2>2
<1>12. /\ \A m \in Loops : Batch(m)' = Batch(m)
       /\ \A m \in Loops : Waiting(m)' = Waiting(m) \cup {f \in {g} : n = m /\ m # base}
       /\ \A m \in Loops : Todo(m)' = Todo(m) \cup {f \in {g} : n = m /\ m = base}
  BY <1>0, <1>1, <1>2, <1>11 DEF Batch, Waiting
<1>13. \A d : /\ (CE(d) = g <=> d = c) /\ CD(d) # g /\ Removal(d) # g /\ Call("remove", d) # g
  BY <1>3, CallEq DEF CD, CE, Removal, g
<1>14. \A d \in Conns \ {c} : (Kept(d)' <=> Kept(d)) /\ (Awaited(d)' <=> Awaited(d))
  BY <1>1, <1>8, <1>12, <1>13 DEF Kept, Awaited, CD, CE
<1>15. Kept(c)'
  BY <1>1 DEF Kept
<1>16. /\ index[c] = "kNew" /\ state[c] = "kConnecting" /\ c \notin connections
       /\ \A p \in Users : c \notin held[p]
       /\ \A m \in Loops : c \notin active[m] /\ active[m] \subseteq Conns \cup {Acceptor}
       /\ \A m \in Loops : c \notin active'[m]
  BY <1>4, <1>9, <1>c DEF IInv, Known, Acceptor, Parts, LoopTypes
<1>17. Turns'
  BY <1>0, <1>1, <1>2, <1>9, <1>11 DEF IInv, Turns, TurnsAt, Runs
<1>18. Known'
  <2>1. \A f : f.conn \in Conns \ {c} => Place(f)' = Place(f)
    BY <1>8 DEF Place
  <2>2. ASSUME NEW m \in Loops, NEW f \in Todo(m)' \cup Waiting(m)'
        PROVE  Born(f.conn)' /\ Place(f)' = m
    <3>1. CASE f \in Todo(m) \cup Waiting(m)
      BY <1>4, <1>10, <2>1, <3>1 DEF IInv, Known
    <3>2. CASE f = g /\ n = m
      BY <1>3, <1>4, <1>8, <1>c, <3>2 DEF Place
    <3> QED BY <1>12, <2>2, <3>1, <3>2
  <2>3. ASSUME NEW m \in Loops, NEW d \in active'[m] \ {Acceptor}
        PROVE  Born(d)' /\ loopOf'[d] = m
    <3>1. d \in active[m] \ {Acceptor} /\ d \in Conns \ {c}
      BY <1>9, <1>16, <2>3
    <3>2. Born(d) /\ loopOf[d] = m
      BY <3>1 DEF IInv, Known
    <3> QED BY <1>4, <1>8, <3>1, <3>2
  <2>4. /\ \A d \in connections' : Born(d)'
        /\ \A p \in Users : \A d \in held'[p] : Born(d)'
        /\ \A d \in Conns : ~Born(d)' => index'[d] = "kNew" /\ state'[d] = "kConnecting"
    BY <1>1, <1>2, <1>4, <1>c DEF IInv, Known, Parts, ServerParts, UserTypes
  <2> QED BY <2>2, <2>3, <2>4 DEF Known
<1>19. Asked'
  BY <1>2 DEF IInv, Asked
<1>20. Order'
  <2> SUFFICES ASSUME NEW m \in Loops PROVE OrderAt(m)'
    BY DEF Order
  <2>1. ASSUME NEW f \in Todo(m)', NEW h \in Waiting(m)', h.op = "connectEstablished"
        PROVE  f.conn # h.conn
    <3>1. f \in Todo(m) /\ h \in Waiting(m) => f.conn # h.conn
      BY <2>1 DEF IInv, Order, OrderAt
    <3> QED BY <1>3, <1>10, <1>12, <2>1, <3>1
  <2>2. ASSUME NEW f \in Batch(m)', NEW h \in Pend(m)', h.op = "connectEstablished"
        PROVE  f.conn # h.conn
    <3>1. f \in Batch(m) /\ h \in Pend(m) => f.conn # h.conn
      BY <2>2 DEF IInv, Order, OrderAt
    <3> QED BY <1>3, <1>10, <1>11, <1>12, <2>2, <3>1 DEF Waiting
  <2>3. ASSUME NEW f \in Todo(m)'
        PROVE  /\ f.op \in Once => Rest(m)' = {}
               /\ f.op = "connectDestroyed" => phase'[m] \in {"functors", "exited"}
    <3>1. CASE m = base
      BY <1>3, <1>11, <2>3, <3>1
    <3>2. CASE m # base
      BY <1>2, <1>11, <2>3, <3>2 DEF IInv, Order, OrderAt
    <3> QED BY <3>1, <3>2
  <2> QED BY <1>2, <1>3, <1>11, <1>12, <2>1, <2>2, <2>3 DEF IInv, Order, OrderAt
<1>21. Fresh'
  <2> SUFFICES ASSUME NEW d \in Conns, Awaited(d)'
      PROVE  /\ state'[d] = "kConnecting"
             /\ index'[d] = "kNew"
             /\ d \notin active'[loopOf'[d]]
             /\ \A p \in Users : d \notin held'[p]
             /\ Removal(d) \notin Waiting(base)' \cup Todo(base)'
             /\ Kept(d)'
    BY DEF Fresh, Removal
  <2>1. CASE d = c
    <3>1. Removal(c) \notin Waiting(base)' \cup Todo(base)'
      BY <1>0, <1>10, <1>12, <1>13, CallEq DEF Removal
    <3>2. c \notin active'[loopOf'[c]]
      BY <1>8, <1>16, <1>0
    <3> QED BY <1>2, <1>15, <1>16, <2>1, <3>1, <3>2
  <2>2. CASE d # c
    <3>1. Awaited(d)
      BY <1>14, <2>2
    <3>2. Removal(d) \notin Waiting(base)' \cup Todo(base)'
      BY <1>0, <1>12, <1>13, <3>1 DEF IInv, Fresh
    <3>3. /\ state[d] = "kConnecting" /\ index[d] = "kNew" /\ d \notin active[loopOf[d]]
          /\ (\A p \in Users : d \notin held[p]) /\ Kept(d)
      BY <3>1 DEF IInv, Fresh
    <3>4. d \notin active'[loopOf'[d]] /\ Kept(d)'
      BY <1>8, <1>9, <1>14, <2>2, <3>3
    <3> QED BY <1>2, <3>2, <3>3, <3>4
  <2> QED BY <2>1, <2>2
<1>22. InUse'
  <2>1. ASSUME NEW m \in Loops, NEW f \in Todo(m)', f.op \in Touching \cup {"sendinLoop"}
        PROVE  f \in Todo(m) /\ (Kept(f.conn)' <=> Kept(f.conn))
    BY <1>3, <1>10, <1>12, <1>14, <2>1 DEF Touching
  <2>2. ASSUME NEW m \in Loops, NEW d \in active'[m] \ {Acceptor} PROVE Kept(d)'
    <3>1. d \in active[m] \ {Acceptor} /\ d \in Conns \ {c}
      BY <1>9, <1>16, <2>2
    <3> QED BY <1>14, <3>1 DEF IInv, InUse
  <2> QED BY <1>2, <2>1, <2>2 DEF IInv, InUse
<1>23. Registry'
  BY <1>2, <1>8, <1>12, <1>14, <1>16 DEF IInv, Registry, Call
<1>24. Closing'
  BY <1>1, <1>2, <1>3, <1>4, <1>12 DEF IInv, Closing, Sends
<1>25. Owned'
  <2> SUFFICES ASSUME NEW m \in Loops PROVE OwnedAt(m)'
    BY DEF Owned
  <2> QED BY <1>1, <1>2, <1>3, <1>12 DEF IInv, Owned, OwnedAt, Runs, IsHeld, Raw
<1>26. fd \in Fds /\ \A d \in Conns : Alive(d) => fdOf[d] # fd
  BY DEF FreeFds
<1>27. Entries'
  <2>t. fileds \in [Loops -> [Fds -> Conns \cup {0}]]
    BY DEF Parts, RegTypes
  <2>1. ASSUME NEW m \in Loops, NEW x \in Fds, fileds[m][x] # 0, NEW d, d = fileds[m][x]
        PROVE  /\ Born(d)' /\ loopOf'[d] = m /\ fdOf'[d] = x /\ index[d] # "kNew"
               /\ phase[m] # "destroyed"
    <3>1. /\ Born(d) /\ loopOf[d] = m /\ fdOf[d] = x /\ index[d] # "kNew"
          /\ phase[m] # "destroyed" /\ d \in Conns \ {c}
      BY <1>4, <2>1, <2>t DEF IInv, Entries
    <3> QED BY <1>4, <1>8, <3>1
  <2>2. ASSUME NEW d \in Conns, index[d] # "kNew", phase[loopOf'[d]] # "destroyed"
        PROVE  fileds[loopOf'[d]][fdOf'[d]] = d
    BY <1>8, <1>16, <2>2 DEF IInv, Entries
  <2>3. \A d \in Conns : Born(d)' => fdOf'[d] \in Fds
    BY <1>4, <1>8, <1>26 DEF IInv, Entries
  <2> QED BY <1>2, <2>1, <2>2, <2>3 DEF Entries
<1>28. ASSUME NEW d \in Conns, d # c, Alive(d)' PROVE Alive(d)
  <2>1. Lives(d)'
    BY <1>28, LivesIsAlive
  <2>2. Lives(d)
    BY <1>1, <1>2, <1>3, <1>4, <1>12, <1>28, <2>1 DEF Lives, IsHeld
  <2> QED BY <2>2, LivesIsAlive
<1>29. Apart'
  <2> SUFFICES ASSUME NEW d \in Conns, NEW e \in Conns, Alive(d)', Alive(e)', fdOf'[d] = fdOf'[e]
      PROVE  d = e
    BY DEF Apart
  <2>1. CASE d # c /\ e # c
    BY <1>8, <1>28, <2>1 DEF IInv, Apart
  <2>2. CASE d = c /\ e # c
    BY <1>8, <1>26, <1>28, <2>2
  <2>3. CASE d # c /\ e = c
    BY <1>8, <1>26, <1>28, <2>3
  <2> QED BY <2>1, <2>2, <2>3
<1>30. c = nextConnId /\ Accepting(c, n)
  BY <1>p, <1>4, <1>8, <1>9, <1>10, <1>12, <1>14, <1>28 DEF Accepting, g
<1> QED BY <1>17, <1>18, <1>19, <1>20, <1>21, <1>22, <1>23, <1>24, <1>25, <1>27, <1>29, <1>30
      DEF IInv

-----------------------------------------------------------------------------
(* The start, every step, and what holds throughout. *)

\* The program starts with nothing accepted.
LEMMA InvInit == Init /\ Parts => IInv
<1> SUFFICES ASSUME Init, Parts PROVE IInv
  OBVIOUS
<1>1. /\ \A l \in Loops : phase[l] = "poll" /\ todo[l] = <<>> /\ active[l] = {}
                          /\ pend[l] = <<>> /\ batch[l] = <<>> /\ kept[l] = {}
      /\ nextConnId = 1 /\ connections = {}
      /\ \A c \in Conns : state[c] = "kConnecting" /\ index[c] = "kNew"
      /\ \A p \in Users : held[p] = {} /\ doing[p] = Idle
      /\ \A l \in Loops, fd \in Fds : fileds[l][fd] = 0
  BY DEF Init
<1>2. \A l \in Loops : Todo(l) = {} /\ Pend(l) = {} /\ Batch(l) = {} /\ Waiting(l) = {}
  BY <1>1, SetOfOne DEF Todo, Pend, Batch, Waiting
<1>3. \A c \in Conns : ~Born(c) /\ ~Awaited(c) /\ loopOf[c] \in Loops
  <2>1. \A c \in Conns : loopOf[c] \in Loops
    BY DEF Parts, ConnTypes
  <2> QED BY <1>1, <1>2, <2>1 DEF Born, Awaited, Conns
<1>4. Turns /\ Asked
  BY <1>1 DEF Turns, TurnsAt, Runs, Asked
<1>5. Known /\ Fresh /\ InUse /\ Registry /\ Closing
  BY <1>1, <1>2, <1>3 DEF Known, Fresh, InUse, Registry, Closing
<1>6. Order
  <2>1. \A l \in Loops : First(pend[l]) /\ First(batch[l])
    BY <1>1 DEF First
  <2> QED BY <1>2, <2>1 DEF Order, OrderAt
<1>7. Owned
  BY <1>1, <1>2 DEF Owned, OwnedAt
<1>8. Entries /\ Apart
  BY <1>1, <1>3 DEF Entries, Apart, Alive
<1> QED BY <1>4, <1>5, <1>6, <1>7, <1>8 DEF IInv

\* A step that changes nothing the invariant speaks of, as those of the peers.
LEMMA OthersKeep ==
  ASSUME IInv, UNCHANGED <<phase, todo, active, pend, batch, kept, nextConnId, connections, loops,
                     loopOf, fdOf, state, index, fileds, held, doing>>
  PROVE  IInv'
<1>1. /\ UNCHANGED <<Turns, Known, Order, Fresh, InUse, Registry, Closing, Owned, Entries, Apart>>
  BY DEF Turns, TurnsAt, Runs, Known, Place, Order, OrderAt, Fresh, Awaited, Kept, InUse,
     Registry, Closing, Owned, OwnedAt, IsHeld, Entries, Apart, Alive, Born, Waiting, Todo, Rest,
     Pend, Batch
<1> QED BY <1>1 DEF IInv, Asked

\* Every step of a loop keeps the invariant.
LEMMA LoopKeeps ==
  ASSUME Parts, Counted, IInv, Shuts \/ Sends, NEW l \in Loops, LoopStep(l)
  PROVE  IInv'
<1>1. base \in Loops
  BY DEF Loops
<1>2. \/ epoll(l) \/ swapPendFuncs(l) \/ runFunctor(l) \/ doPendFuncDone(l)
      \/ acceptFails \/ newConnection \/ quitLoop \/ leaveLoop(l) \/ destroyLoop(l)
      \/ \E c \in Conns : handleEvent(l, c) \/ destroyServer(c) \/ CallStep(l, c)
  BY DEF LoopStep, CallStep
<1>3. CASE quitLoop
  BY <1>1, <1>3, EnterKeeps DEF quitLoop, ServerGone
<1>4. CASE leaveLoop(l)
  <2>1. l # base
    BY <1>4 DEF leaveLoop, Told
  <2> QED BY <1>4, <2>1, EnterKeeps DEF leaveLoop
<1> QED BY <1>2, <1>3, <1>4, EpollKeeps, SwapKeeps, RunKeeps, DoneKeeps, AcceptFailsKeeps,
      NewConnectionKeeps, DestroyLoopKeeps, HandleEventKeeps, DestroyServerKeeps, CallsKeep

\* Every step keeps the invariant.
LEMMA InvStep ==
  ASSUME Parts, Counted, IInv, Careful, Shuts \/ Sends, [Next]_vars
  PROVE  IInv'
<1>1. CASE UNCHANGED vars
  BY <1>1, OthersKeep DEF vars
<1>2. CASE PeerConnects \/ \E c \in Conns : PeerStep(c)
  BY <1>2, OthersKeep DEF PeerConnects, PeerStep, loopVars, turnVars, serverVars, connVars,
     regVars, outside, userVars
<1>3. ASSUME NEW l \in Loops, LoopStep(l) PROVE IInv'
  BY <1>3, LoopKeeps
<1>4. CASE quitBase
  BY <1>4, EnterKeeps DEF quitBase, Loops
<1>5. ASSUME NEW p \in Users, NEW c \in Conns,
             \/ userDrops(p, c) \/ userSetDisconnecting(p, c) \/ userQueues(p, c)
             \/ \E op \in UserOps : userCalls(p, c, op)
      PROVE  IInv'
  BY <1>5, UserCallsKeeps, UserDropsKeeps, UserGoesOnKeeps
<1> QED BY <1>1, <1>2, <1>3, <1>4, <1>5 DEF Next, UserGoesOn

\* Types and invariant together.
Inv == Typed /\ IInv

\* The types, by their parts.
LEMMA InvParts == Inv => Parts /\ Counted /\ IInv
BY TypeParts DEF Inv, Typed

\* They hold in every reachable state.
LEMMA InvAlways == ASSUME Careful, Shuts \/ Sends PROVE Spec => []Inv
<1>1. Init => Inv
  BY TypesInit, InvInit, TypeParts DEF Inv, Typed
<1>2. Inv /\ [Next]_vars => Inv'
  BY TypesStep, InvParts, InvStep DEF Inv
<1> QED BY <1>1, <1>2, PTL DEF Spec

\* No call is ever made on a freed connection, no event handled of one.
THEOREM NoDanglingCall == ASSUME Careful, Shuts \/ Sends PROVE Spec => []CallsAlive
<1>1. Inv => CallsAlive
  BY InvParts, Safe DEF IInv
<1> QED BY <1>1, InvAlways, PTL

\* A freed connection is in no Epoller.
THEOREM NoDanglingEntry == ASSUME Careful, Shuts \/ Sends PROVE Spec => []DeadForgotten
<1>1. Inv => DeadForgotten
  <2> SUFFICES ASSUME Parts, IInv, NEW c \in Conns, Born(c), ~Alive(c)
      PROVE  /\ index[c] = "kNew" \/ phase[loopOf[c]] = "destroyed"
             /\ \A l \in Loops, fd \in Fds : fileds[l][fd] # c
    BY InvParts DEF DeadForgotten
  <2>1. index[c] = "kNew" \/ phase[loopOf[c]] = "destroyed"
    BY IndexedAlive DEF IInv
  <2>2. \A l \in Loops, fd \in Fds : fileds[l][fd] # c
    <3>1. c # 0
      BY DEF Conns
    <3> QED BY <2>1, <3>1 DEF IInv, Entries
  <2> QED BY <2>1, <2>2
<1> QED BY <1>1, InvAlways, PTL

\* fileds_ and index_ agree for every connection alive, across the reuse of descriptors.
THEOREM RegistrationsAgree == ASSUME Careful, Shuts \/ Sends PROVE Spec => []FiledsAgree
<1>1. Inv => FiledsAgree
  <2> SUFFICES ASSUME Parts, IInv, NEW c \in Conns, Alive(c), phase[loopOf[c]] # "destroyed"
      PROVE  (index[c] # "kNew") <=> (fileds[loopOf[c]][fdOf[c]] = c)
    BY InvParts DEF FiledsAgree
  <2>1. c # 0 /\ loopOf[c] \in Loops /\ fdOf[c] \in Fds
    BY DEF Conns, Parts, ConnTypes, IInv, Entries, Alive
  <2> QED BY <2>1 DEF IInv, Entries
<1> QED BY <1>1, InvAlways, PTL

-----------------------------------------------------------------------------
(* What is left when the loops are gone. *)

\* A loop of the pool that has returned from loop(), or any that is destroyed: ~Server
\* is then done with the connections, and the base loop with its calls.
Past(l) == phase[l] = "destroyed" \/ (phase[l] = "exited" /\ l # base)

\* Every connection belongs to a loop that is quit and joined, and what doPendFunc's
\* vector owns to the loop that runs it, or to Server::removeConnectionInLoop.  While a
\* loop is joined the map is empty.
Seated ==
    /\ \A c \in Conns : Born(c) => loopOf[c] \in ToSet(loops) \cup {base}
    /\ \A l \in Loops : \A c \in kept[l] : Born(c) /\ (l = base \/ loopOf[c] = l)
    /\ phase[base] = "joining" => connections = {}
    /\ phase[base] = "destroyed" => PoolGone

\* A destroyed loop has nothing in its queue that owns a connection, and no thread has a
\* pointer to a connection of it.
BuriedAt(l) ==
    /\ Past(l) => Stopped /\ connections = {} /\ Todo(base) = {}
    /\ phase[l] = "destroyed" =>
          /\ \A f \in Pend(l) : f.op \notin Owning
          /\ \A c \in Conns : IsHeld(c) => loopOf[c] # l

Buried == Seated /\ \A l \in Loops : BuriedAt(l)

\* The invariant makes the map and the queues the only owners that outlive a loop.
LEMMA BuriedLeaksNot == Parts /\ IInv /\ Buried => NothingLeaked
<1> SUFFICES ASSUME Parts, IInv, Buried, NEW c \in Conns, Alive(c)
             PROVE  /\ phase[base] # "destroyed"
                    /\ phase[loopOf[c]] = "destroyed" => Removal(c) \in Pend(base)
  BY DEF NothingLeaked, Removal, Pend
<1>0. base \in Loops /\ loopOf[c] \in Loops /\ Born(c)
  BY DEF Parts, ConnTypes, Loops, Alive
<1>1. ASSUME phase[loopOf[c]] = "destroyed"
      PROVE  phase[base] # "destroyed" /\ Removal(c) \in Pend(base)
  <2> DEFINE L == loopOf[c]
  <2>1. /\ Stopped /\ connections = {} /\ Todo(base) = {} /\ ~IsHeld(c)
        /\ \A f \in Pend(L) : f.op \notin Owning
    BY <1>0, <1>1 DEF Buried, BuriedAt, Past
  <2>2. /\ Todo(L) = {} /\ Batch(L) = {} /\ kept[L] = {}
        /\ Batch(base) = {} /\ kept[base] = {}
    BY <1>0, <1>1, <2>1, SetOfOne DEF IInv, Turns, TurnsAt, Stopped, Todo, Batch
  <2>3. \A m \in Loops : \A f \in Todo(m) \cup Waiting(m) :
           f.conn = c => m = L \/ (m = base /\ f.op = "removeConnectionInLoop")
    BY DEF IInv, Known, Place
  <2>4. \A m \in Loops : c \notin kept[m]
    BY <2>2 DEF Buried, Seated
  <2>5. \E m \in Loops : \E f \in Waiting(m) : f.op \in Owning /\ f.conn = c
    <3>1. \/ \E m \in Loops : \E f \in Waiting(m) : f.op \in Owning /\ f.conn = c
          \/ \E m \in Loops : \E f \in Todo(m) : f.conn = c
      BY <2>1, <2>4, LivesIsAlive DEF Lives
    <3>2. \A m \in Loops : \A f \in Todo(m) : f.conn = c => m = L \/ m = base
      BY <2>3
    <3> QED BY <2>1, <2>2, <3>1, <3>2
  <2>6. PICK f \in Pend(base) : f.conn = c /\ f.op = "removeConnectionInLoop"
    BY <2>1, <2>2, <2>3, <2>5 DEF Waiting
  <2>7. f = Removal(c)
    <3>1. f \in Functors
      BY <1>0, <2>6 DEF Parts, PendTypes, Pend, ToSet
    <3> QED BY <2>5, <2>6, <3>1 DEF Functors, Removal, Call
  <2>8. phase[base] # "destroyed"
    BY <1>0, <2>6 DEF Buried, BuriedAt, Owning
  <2> QED BY <2>6, <2>7, <2>8
<1>2. phase[base] = "destroyed" => phase[loopOf[c]] = "destroyed"
  BY <1>0 DEF Buried, Seated, PoolGone
<1> QED BY <1>1, <1>2

\* The program starts with every loop in place.
LEMMA BuriedInit == Init /\ Parts => Buried
<1> SUFFICES ASSUME Init, Parts PROVE Buried
  OBVIOUS
<1>1. base \in Loops /\ \A l \in Loops : phase[l] = "poll" /\ kept[l] = {}
  BY DEF Init, Loops
<1>2. \A c \in Conns : ~Born(c)
  BY DEF Init, Born, Conns
<1> QED BY <1>1, <1>2 DEF Buried, Seated, BuriedAt, Past

\* The calls queue nothing on a loop that is gone: their connection is of the loop that
\* runs them, but for removeConnectionInLoop, which the base loop runs before ~Server.
LEMMA CallBuries ==
  ASSUME Parts, IInv, Buried, NEW l \in Loops, NEW c \in Conns, Making(l, c) PROVE Buried'
<1>0. base \in Loops
  BY DEF Loops
<1>1. PICK o, S, Q : Calling(l, o, c, S, Q)
  BY DEF Making
<1>2. /\ UNCHANGED <<phase, kept, nextConnId, loops, loopOf>> /\ connections' \subseteq connections
      /\ \A m \in Loops \ {l} : Todo(m)' = Todo(m)
      /\ \A m \in Loops : Pend(m)' = Pend(m) \cup {f \in Q : Place(f) = m}
      /\ \A d \in Conns : IsHeld(d)' => IsHeld(d) \/ d = c
      /\ \A f \in Q : f.conn = c
  BY <1>1 DEF Calling, IsHeld
<1>3. InCall(l, o, c) /\ Place(Call(o, c)) = l
  <2>1. InCall(l, o, c)
    BY <1>1, Called
  <2> QED BY <2>1 DEF InCall, IInv, Known
<1>4. Seated'
  BY <1>2 DEF Buried, Seated, Born, PoolGone
<1>5. ASSUME NEW m \in Loops PROVE BuriedAt(m)'
  <2>1. CASE ~Past(m)
    BY <1>2, <2>1 DEF BuriedAt, Past
  <2>2. CASE Past(m)
    <3>1. Stopped /\ connections = {} /\ Todo(base) = {}
      BY <2>2 DEF Buried, BuriedAt
    <3>2. l # base /\ o # "removeConnectionInLoop" /\ loopOf[c] = l
      BY <1>3, <3>1, CallEq DEF InCall, Place
    <3>3. Todo(base)' = {} /\ Stopped' /\ connections' = {}
      BY <1>0, <1>2, <3>1, <3>2 DEF Stopped
    <3>4. ASSUME phase[m] = "destroyed"
          PROVE  /\ \A f \in Pend(m)' : f.op \notin Owning
                 /\ \A d \in Conns : IsHeld(d)' => loopOf'[d] # m
      <4>1. phase[l] # "destroyed" /\ l \in ToSet(loops)
        BY <1>3, <3>2 DEF InCall, Buried, Seated
      <4>2. m # base /\ m # l
        BY <3>4, <4>1 DEF Buried, Seated, PoolGone
      <4>3. \A f \in Q : Place(f) # m
        BY <1>2, <3>2, <4>2 DEF Place
      <4> QED BY <1>2, <3>2, <3>4, <4>2, <4>3 DEF Buried, BuriedAt
    <3> QED BY <1>2, <3>3, <3>4 DEF BuriedAt
  <2> QED BY <2>1, <2>2
<1> QED BY <1>4, <1>5 DEF Buried

\* The turns of a loop move what waits on this loop, which is not gone; a loop of the
\* pool returns while ~Server waits for it.
LEMMA MoveBuries ==
  ASSUME Parts, IInv, Buried, NEW l \in Loops, Moves(l),
         phase'[l] \in {"exited", "joining"} /\ phase'[l] # phase[l] =>
            \/ l = base /\ phase[l] = "poll" /\ phase'[l] = "exited"
            \/ Stopped /\ connections = {} /\ Todo(base) = {}
  PROVE  Buried'
<1>0. base \in Loops
  BY DEF Loops
<1>1. PICK p, t, a, w, b, k : Move(l, p, t, a, w, b, k) /\ Fits(l, p, t, a, w, b, k)
  BY DEF Moves
<1>2. /\ \A m \in Loops \ {l} : /\ phase'[m] = phase[m] /\ kept'[m] = kept[m]
                                /\ Todo(m)' = Todo(m) /\ Pend(m)' = Pend(m)
      /\ phase'[l] = p /\ kept'[l] = k /\ Todo(l)' = ToSet(t)
      /\ UNCHANGED <<nextConnId, connections, loops, loopOf, held>>
  <2>1. Move(l, p, t, a, w, b, k)
    BY <1>1
  <2>2. UNCHANGED <<nextConnId, connections, loops, loopOf, held>>
    BY <2>1 DEF Move
  <2> QED BY <2>1, <2>2, LoopAlone
<1>3. /\ phase[l] # "destroyed" /\ phase'[l] # "destroyed"
      /\ Stopped => Stopped'
  BY <1>0, <1>1, <1>2 DEF Fits, Stopped
<1>4. Stopped /\ Todo(base) = {} => Todo(base)' = {}
  <2> SUFFICES ASSUME Stopped, Todo(base) = {}, l = base PROVE ToSet(t) = {}
    BY <1>0, <1>2
  <2>1. active[l] = {} /\ phase[l] # "functors"
    BY DEF Stopped, IInv, Turns, TurnsAt
  <2> QED BY <1>1, <2>1 DEF Fits
<1>5. Seated'
  <2>1. \A m \in Loops : phase'[m] = "destroyed" <=> phase[m] = "destroyed"
    BY <1>2, <1>3
  <2>2. PoolGone => PoolGone'
    <3>1. \A m \in ToSet(loops) : m \in Loops
      BY DEF Parts, ServerParts, ToSet
    <3> QED BY <1>2, <2>1, <3>1 DEF PoolGone
  <2>3. \A m \in Loops : \A d \in kept'[m] : Born(d)' /\ (m = base \/ loopOf'[d] = m)
    BY <1>1, <1>2 DEF Fits, Buried, Seated, Born, Alive
  <2>4. phase'[base] = "joining" => connections = {}
    BY <1>0, <1>2 DEF Buried, Seated
  <2> QED BY <1>0, <1>2, <2>1, <2>2, <2>3, <2>4 DEF Buried, Seated, Born
<1>6. ASSUME NEW m \in Loops PROVE BuriedAt(m)'
  <2>1. Past(m)' => Stopped /\ connections = {} /\ Todo(base) = {}
    <3>1. CASE Past(m)
      BY <3>1 DEF Buried, BuriedAt
    <3>2. CASE ~Past(m) /\ m # l
      BY <1>2, <3>2 DEF Past
    <3>3. CASE ~Past(m) /\ m = l
      BY <1>3, <3>3 DEF Past
    <3> QED BY <3>1, <3>2, <3>3
  <2>2. phase'[m] = "destroyed" => phase[m] = "destroyed" /\ Pend(m)' = Pend(m)
    BY <1>2, <1>3
  <2> QED BY <1>2, <1>3, <1>4, <2>1, <2>2 DEF Buried, BuriedAt, IsHeld
<1> QED BY <1>5, <1>6 DEF Buried

\* Nothing of the teardown has begun before the base loop returns, or while the map of
\* the Server has a connection.
LEMMA NonePast ==
  ASSUME Buried, ~Stopped \/ connections # {}
  PROVE  \A l \in Loops : ~Past(l)
BY DEF Buried, BuriedAt

\* An accept puts the connection on a loop of the pool, or on the base loop.
LEMMA AcceptBuries ==
  ASSUME Parts, Counted, IInv, Buried, newConnection PROVE Buried'
<1>0. base \in Loops
  BY DEF Loops
<1>1. /\ phase[base] = "events" /\ UNCHANGED <<phase, kept, loops, held>>
      /\ nextConnId \in Conns /\ nextConnId' = nextConnId + 1
      /\ loopOf' = [loopOf EXCEPT ![nextConnId] = IF loops = <<>> THEN base ELSE loops[nextLoop + 1]]
  BY ServerAssumption DEF newConnection, accepting, outside, userVars, Counted, Parts, ServerParts, Conns
<1>2. ~Stopped /\ \A m \in Loops : ~Past(m)
  <2>1. ~Stopped
    BY <1>1 DEF Stopped
  <2> QED BY <2>1, NonePast
<1>3. loops # <<>> => loops[nextLoop + 1] \in ToSet(loops)
  BY DEF Parts, ServerParts, ToSet
<1>4. ASSUME NEW c \in Conns, Born(c)' PROVE loopOf'[c] \in ToSet(loops) \cup {base}
  <2>1. CASE c = nextConnId
    BY <1>1, <1>3, <2>1 DEF Parts, ConnTypes
  <2>2. CASE c # nextConnId
    <3>1. Born(c)
      BY <1>1, <1>4, <2>2 DEF Born, Conns
    <3> QED BY <1>1, <2>2, <3>1 DEF Parts, ConnTypes, Buried, Seated
  <2> QED BY <2>1, <2>2
<1>5. ASSUME NEW m \in Loops, NEW c \in kept[m] PROVE Born(c)' /\ (m = base \/ loopOf'[c] = m)
  <2>1. c \in Conns /\ Born(c) /\ (m = base \/ loopOf[c] = m)
    BY <1>5 DEF Parts, LoopTypes, Buried, Seated
  <2> QED BY <1>1, <2>1 DEF Born, Parts, ConnTypes, Conns
<1>6. \A m \in Loops : BuriedAt(m)'
  BY <1>1, <1>2 DEF BuriedAt, Past
<1> QED BY <1>0, <1>1, <1>4, <1>5, <1>6 DEF Buried, Seated

\* What ~Server does before the loops are joined.
LEMMA DestroyServerBuries ==
  ASSUME Parts, IInv, Buried, NEW c \in Conns, destroyServer(c) PROVE Buried'
<1>1. /\ UNCHANGED <<phase, kept, loops, nextConnId, loopOf>>
      /\ c \in connections /\ phase[base] = "exited"
  BY DEF destroyServer, turnVars, connVars
<1>2. \A m \in Loops : ~Past(m)
  BY <1>1, NonePast
<1> QED BY <1>1, <1>2 DEF Buried, Seated, BuriedAt, Past, Born

\* ~EventLoop drops what is queued, and comes after the last pointer of a thread.
LEMMA DestroyLoopBuries ==
  ASSUME Parts, IInv, Buried, NEW l \in Loops, destroyLoop(l) PROVE Buried'
<1>0. base \in Loops
  BY DEF Loops
<1>1. /\ UNCHANGED <<todo, kept, connections, nextConnId, loopOf, loops, held>>
      /\ phase' = [phase EXCEPT ![base] = "exited", ![l] = "destroyed"]
      /\ pend' = [pend EXCEPT ![l] = <<>>]
      /\ phase[l] = "exited" /\ (l = base => connections = {} /\ todo[l] = <<>> /\ PoolGone)
      /\ \A p \in Users : \A c \in held[p] : loopOf[c] # l
  BY DEF destroyLoop, dropped, serverVars, connVars, outside, userVars, ServerGone
<1>2. phase[base] \in {"exited", "joining"}
  BY <1>1 DEF IInv, Turns, TurnsAt
<1>3. /\ phase'[l] = "destroyed" /\ (l # base => phase'[base] = "exited")
      /\ \A m \in Loops \ {l, base} : phase'[m] = phase[m]
      /\ Pend(l)' = {} /\ \A m \in Loops \ {l} : Pend(m)' = Pend(m)
      /\ \A m \in Loops : Todo(m)' = Todo(m)
  BY <1>0, <1>1, SetOfOne DEF Parts, LoopTypes, PendTypes, Pend, Todo
<1>4. Stopped /\ Stopped' /\ connections' = {} /\ Todo(base)' = {}
  <2>1. CASE l = base
    BY <1>1, <1>2, <1>3, <2>1, SetOfOne DEF Stopped, Todo
  <2>2. CASE l # base
    BY <1>0, <1>1, <1>2, <1>3, <2>2 DEF Buried, BuriedAt, Past, Stopped
  <2> QED BY <2>1, <2>2
<1>5. Seated'
  <2>1. phase'[base] = "destroyed" => PoolGone'
    <3> SUFFICES ASSUME l = base, NEW m \in ToSet(loops) PROVE phase'[m] = "destroyed"
      BY <1>0, <1>1, <1>3 DEF PoolGone
    <3>1. m \in Loops /\ phase[m] = "destroyed"
      BY <1>1 DEF PoolGone, Parts, ServerParts, ToSet
    <3> QED BY <1>1, <1>3, <3>1
  <2>2. phase'[base] # "joining"
    BY <1>0, <1>3
  <2> QED BY <1>1, <2>1, <2>2 DEF Buried, Seated, Born
<1>6. ASSUME NEW m \in Loops PROVE BuriedAt(m)'
  <2>1. m # l => (phase'[m] = "destroyed" => phase[m] = "destroyed")
    BY <1>0, <1>2, <1>3
  <2> QED BY <1>1, <1>3, <1>4, <2>1 DEF Buried, BuriedAt, IsHeld
<1> QED BY <1>5, <1>6 DEF Buried

\* The threads of the user take no pointer, and what they queue owns nothing.
LEMMA UserBuries ==
  ASSUME Parts, IInv, Buried, NEW p \in Users, NEW c \in Conns,
         \/ userDrops(p, c) \/ userSetDisconnecting(p, c) \/ userQueues(p, c)
         \/ \E op \in UserOps : userCalls(p, c, op)
  PROVE  Buried'
<1>1. UNCHANGED <<phase, todo, kept, connections, nextConnId, loopOf, loops>>
  BY DEF userDrops, userSetDisconnecting, userQueues, userCalls, loopVars, turnVars, connVars,
     serverVars
<1>2. \A d \in Conns : IsHeld(d)' => IsHeld(d)
  BY DEF userDrops, userSetDisconnecting, userQueues, userCalls, Parts, UserTypes, IsHeld
<1>3. \A m \in Loops : \A f \in Pend(m)' : f \in Pend(m) \/ f.op \notin Owning
  <2>1. CASE userQueues(p, c)
    <3>1. PICK o \in Raw : pend' = [pend EXCEPT ![loopOf[c]] = Append(@, Call(o, c))]
      BY <2>1 DEF userQueues, queueinLoop
    <3>2. Call(o, c).op \notin Owning
      BY CallEq DEF Raw, Owning
    <3>3. \A m \in Loops : Pend(m)' \subseteq Pend(m) \cup {Call(o, c)}
      BY <3>1, SetOfAppend DEF Parts, PendTypes, Pend
    <3> QED BY <3>2, <3>3
  <2>2. CASE ~userQueues(p, c)
    BY <2>2 DEF userDrops, userSetDisconnecting, userCalls, loopVars, Pend
  <2> QED BY <2>1, <2>2
<1>4. Seated'
  BY <1>1 DEF Buried, Seated, Born, PoolGone
<1>5. \A m \in Loops : BuriedAt(m)'
  BY <1>1, <1>2, <1>3 DEF Buried, BuriedAt, Past, Stopped, Todo
<1> QED BY <1>4, <1>5 DEF Buried

\* Every step.
LEMMA BuriedStep ==
  ASSUME Parts, Counted, IInv, Buried, Careful, Shuts \/ Sends, [Next]_vars PROVE Buried'
<1>0. base \in Loops
  BY DEF Loops
<1>1. CASE PeerConnects \/ (\E c \in Conns : PeerStep(c)) \/ UNCHANGED vars
  <2>1. UNCHANGED <<phase, todo, pend, kept, connections, nextConnId, loopOf, loops, held>>
    BY <1>1 DEF PeerConnects, PeerStep, vars, loopVars, turnVars, connVars, outside, serverVars,
       userVars
  <2> QED BY <2>1 DEF Buried, Seated, BuriedAt, Born, PoolGone, Past, Stopped, Todo, Pend, IsHeld
<1>2. ASSUME NEW p \in Users, NEW c \in Conns,
             \/ userDrops(p, c) \/ userSetDisconnecting(p, c) \/ userQueues(p, c)
             \/ \E op \in UserOps : userCalls(p, c, op)
      PROVE  Buried'
  BY <1>2, UserBuries
<1>3. ASSUME NEW l \in Loops,
             \/ epoll(l) \/ swapPendFuncs(l) \/ runFunctor(l) \/ doPendFuncDone(l)
             \/ (l = base /\ acceptFails) \/ \E c \in Conns : handleEvent(l, c)
      PROVE  Buried'
  <2>1. Moves(l)
    BY <1>3, EpollKeeps, SwapKeeps, RunKeeps, DoneKeeps, AcceptFailsKeeps, HandleEventKeeps
  <2>2. phase'[l] = phase[l] \/ phase'[l] \in {"events", "functors", "poll"}
    BY <1>3 DEF epoll, swapPendFuncs, runFunctor, doPendFuncDone, acceptFails, accepting, handleEvent,
       Parts, LoopTypes
  <2> QED BY <2>1, <2>2, MoveBuries
<1>4. ASSUME NEW l \in Loops, leaveLoop(l) \/ (l = base /\ (quitLoop \/ quitBase)) PROVE Buried'
  <2>1. PICK p \in {"exited", "joining"} :
           /\ enter(l, p)
           /\ \/ l = base /\ p = "exited" /\ MayStop /\ phase[l] = "poll"
              \/ l = base /\ p = "joining" /\ phase[l] = "exited" /\ todo[l] = <<>> /\ connections = {}
              \/ l # base /\ p = "exited" /\ phase[l] = "poll" /\ Told(l)
    BY <1>4 DEF quitLoop, quitBase, ServerGone, leaveLoop, Told
  <2>2. Moves(l)
    BY <2>1, EnterKeeps
  <2>3. CASE l = base /\ p = "exited" /\ phase[l] = "poll"
    BY <2>1, <2>2, <2>3, MoveBuries DEF enter, Parts, LoopTypes
  <2>4. CASE l = base /\ p = "joining"
    <3>1. Stopped /\ connections = {} /\ Todo(base) = {}
      BY <2>1, <2>4, SetOfOne DEF Stopped, Todo
    <3> QED BY <2>2, <3>1, MoveBuries
  <2>5. CASE l # base /\ Told(l)
    <3>1. Stopped /\ connections = {} /\ Todo(base) = {}
      BY <1>0, <2>5, SetOfOne DEF Told, Stopped, Buried, Seated, Todo, IInv, Turns, TurnsAt
    <3> QED BY <2>2, <3>1, MoveBuries
  <2> QED BY <2>1, <2>3, <2>4, <2>5
<1>5. CASE newConnection
  BY <1>5, AcceptBuries
<1>6. ASSUME NEW l \in Loops, destroyLoop(l) \/ \E c \in Conns : destroyServer(c) \/ CallStep(l, c)
      PROVE  Buried'
  BY <1>6, DestroyLoopBuries, DestroyServerBuries, CallsKeep, CallBuries
<1> QED BY <1>0, <1>1, <1>2, <1>3, <1>4, <1>5, <1>6 DEF Next, LoopStep, CallStep, UserGoesOn

\* When the loops are destroyed no connection is left in a queue nobody runs: nothing
\* outlives the base loop, and what outlives its own loop waits for the base loop.
THEOREM NothingLeaks == ASSUME Careful, Shuts \/ Sends PROVE Spec => []NothingLeaked
<1>1. Init => Inv /\ Buried
  BY TypesInit, InvInit, BuriedInit, TypeParts DEF Inv, Typed
<1>2. Inv /\ Buried /\ [Next]_vars => Inv' /\ Buried'
  BY TypesStep, InvParts, InvStep, BuriedStep DEF Inv
<1>3. Inv /\ Buried => NothingLeaked
  BY InvParts, BuriedLeaksNot
<1> QED BY <1>1, <1>2, <1>3, PTL DEF Spec
=============================================================================
