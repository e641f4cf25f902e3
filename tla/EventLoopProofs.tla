-------------------------- MODULE EventLoopProofs --------------------------
(***************************************************************************)
(* Proofs about EventLoop, for any set of threads and of callbacks: types, *)
(* the absence of a lost wakeup, and the implementation of TaskQueue.      *)
(***************************************************************************)
EXTENDS EventLoop, SequenceTheorems, TLAPS

-----------------------------------------------------------------------------
(* Sequences *)

\* What it is to be an element of a sequence.
LEMMA ToSetMember ==
    ASSUME NEW S, NEW s \in Seq(S)
    PROVE  ToSet(s) = {s[i] : i \in 1 .. Len(s)}
<1>1. DOMAIN s = 1 .. Len(s)
  BY LenProperties
<1>. QED  BY <1>1, Zenon DEF ToSet

\* The elements of an appended sequence.
LEMMA ToSetAppend ==
    ASSUME NEW S, NEW s \in Seq(S), NEW e \in S
    PROVE  ToSet(Append(s, e)) = ToSet(s) \cup {e}
<1>1. /\ Append(s, e) \in Seq(S)
      /\ Len(Append(s, e)) = Len(s) + 1
      /\ \A i \in 1 .. Len(s) : Append(s, e)[i] = s[i]
      /\ Append(s, e)[Len(s) + 1] = e
  BY AppendProperties
<1>2. ToSet(Append(s, e)) = {Append(s, e)[i] : i \in 1 .. Len(s) + 1}
  BY <1>1, ToSetMember
<1>3. ToSet(s) = {s[i] : i \in 1 .. Len(s)}
  BY ToSetMember
<1>4. Len(s) \in Nat
  OBVIOUS
<1>. QED  BY <1>1, <1>2, <1>3, <1>4

\* The elements of a concatenation.
LEMMA ToSetConcat ==
    ASSUME NEW S, NEW s \in Seq(S), NEW t \in Seq(S)
    PROVE  ToSet(s \o t) = ToSet(s) \cup ToSet(t)
<1> DEFINE st == s \o t
<1>1. /\ st \in Seq(S)
      /\ Len(st) = Len(s) + Len(t)
      /\ \A i \in 1 .. Len(s) + Len(t) :
            st[i] = IF i <= Len(s) THEN s[i] ELSE t[i - Len(s)]
  BY ConcatProperties
<1>2. Len(s) \in Nat /\ Len(t) \in Nat
  OBVIOUS
<1>3. /\ ToSet(st) = {st[i] : i \in 1 .. Len(s) + Len(t)}
      /\ ToSet(s) = {s[i] : i \in 1 .. Len(s)}
      /\ ToSet(t) = {t[i] : i \in 1 .. Len(t)}
  BY <1>1, ToSetMember
<1> HIDE DEF st
<1>4. ASSUME NEW i \in 1 .. Len(s)  PROVE s[i] \in ToSet(st)
  <2>1. i \in 1 .. Len(s) + Len(t) /\ st[i] = s[i]
    BY <1>1, <1>2
  <2>. QED  BY <1>3, <2>1
<1>5. ASSUME NEW i \in 1 .. Len(t)  PROVE t[i] \in ToSet(st)
  <2>1. i + Len(s) \in 1 .. Len(s) + Len(t) /\ st[i + Len(s)] = t[i]
    BY <1>1, <1>2
  <2>. QED  BY <1>3, <2>1
<1>6. ASSUME NEW i \in 1 .. Len(s) + Len(t)
      PROVE  st[i] \in ToSet(s) \cup ToSet(t)
  <2>1. CASE i <= Len(s)
    BY <1>1, <1>2, <1>3, <2>1
  <2>2. CASE i > Len(s)
    <3>1. i - Len(s) \in 1 .. Len(t) /\ st[i] = t[i - Len(s)]
      BY <1>1, <1>2, <2>2
    <3>. QED  BY <1>3, <3>1
  <2>. QED  BY <1>2, <2>1, <2>2
<1>7. ToSet(st) = ToSet(s) \cup ToSet(t)
  BY <1>3, <1>4, <1>5, <1>6
<1>. QED  BY <1>7 DEF st

-----------------------------------------------------------------------------
(* Types *)

LEMMA TypeInit == Init => TypeOK
<1> SUFFICES ASSUME Init PROVE TypeOK
  OBVIOUS
<1>1. calling <=> at \in {"functors", "functor"}
  BY DEF Init
<1>2. \A e \in {calling, quit, wakeable, ioReady} : e \in BOOLEAN
  BY DEF Init
<1>. QED  BY <1>1, <1>2 DEF Init, TypeOK, Points

LEMMA TypeNext == TypeOK /\ [Next]_vars => TypeOK'
<1> SUFFICES ASSUME TypeOK, [Next]_vars PROVE TypeOK'
  OBVIOUS
<1> USE DEF TypeOK, Points, loopVars, fdVars, history, others,
         goesToWake, swapped, callsNoMore, wakesItself
<1>1. ASSUME NEW p \in Threads, NEW t \in Tasks, queueinLoop(p, t)
      PROVE  TypeOK'
  BY <1>1 DEF queueinLoop, push
<1>2. ASSUME NEW p \in Threads, quitFromOutside(p)  PROVE TypeOK'
  BY <1>2 DEF quitFromOutside
<1>3. ASSUME NEW p \in Threads, wakeup(p)  PROVE TypeOK'
  BY <1>3 DEF wakeup
<1>4. ASSUME NEW t \in Tasks, queueBeforeLoop(t)  PROVE TypeOK'
  BY <1>4 DEF queueBeforeLoop, push
<1>5. ASSUME NEW t \in Tasks, queueFromLoop(t)  PROVE TypeOK'
  BY <1>5 DEF queueFromLoop, push
<1>6. ASSUME NEW t \in Tasks, runinLoop(t)  PROVE TypeOK'
  BY <1>6 DEF runinLoop
<1>7. CASE quitFromLoop
  BY <1>7 DEF quitFromLoop
<1>8. CASE IoArrives
  BY <1>8 DEF IoArrives
<1>9. CASE epollTimeout
  BY <1>9 DEF epollTimeout
<1>10. CASE enterLoop
  BY <1>10 DEF enterLoop
<1>11. CASE checkQuit
  BY <1>11 DEF checkQuit
<1>12. CASE epollReturns
  BY <1>12 DEF epollReturns, ReadyFds
<1>13. CASE handelwakeupRead
  BY <1>13 DEF handelwakeupRead
<1>14. CASE handleEvent
  BY <1>14 DEF handleEvent
<1>15. CASE eventDone
  BY <1>15 DEF eventDone
<1>16. CASE swapPendFuncs
  BY <1>16 DEF swapPendFuncs
<1>17. CASE runFunctor
  <2>1. Head(functors) \in Tasks /\ Tail(functors) \in Seq(Tasks)
    BY <1>17 DEF runFunctor
  <2>. QED  BY <1>17, <2>1 DEF runFunctor
<1>18. CASE functorDone
  BY <1>18 DEF functorDone
<1>19. CASE doPendFuncDone
  BY <1>19 DEF doPendFuncDone
<1>20. CASE UNCHANGED vars
  BY <1>20 DEF vars
<1>. QED
  BY <1>1, <1>2, <1>3, <1>4, <1>5, <1>6, <1>7, <1>8, <1>9, <1>10, <1>11, <1>12,
     <1>13, <1>14, <1>15, <1>16, <1>17, <1>18, <1>19, <1>20 DEF Next, LoopSteps

\* Every variable keeps its type, and isCallPendFunc_ is set exactly while
\* doPendFunc runs.
THEOREM TypeCorrect == Spec => []TypeOK
BY TypeInit, TypeNext, PTL DEF Spec

-----------------------------------------------------------------------------
(* No lost wakeup *)

\* Why the loop sleeps only when idle.  Between the start of doPendFunc and
\* epoll_wait (and before loop()) nobody will look at the queue again before
\* sleeping, so a callback pushed then has to be signalled; between the return
\* of epoll_wait and the swap it need not be, the swap takes it.  quit_ is
\* tested just before epoll_wait, so one found set there came with a wakeup.
MustSignal == {"created", "check", "poll", "functors", "functor"}

WakeInv ==
    /\ at \in MustSignal /\ ~Signalled => ToSet(pendFuncs) \subseteq PreLoop
    /\ at = "poll" /\ ~Signalled => ~quit

\* A pending wakeup is never withdrawn: wakeup(p) turns "about to write" into
\* "written", and nothing resets the descriptor.
LEMMA SignalStays == TypeOK /\ [Next]_vars /\ Signalled => Signalled'
<1> SUFFICES ASSUME TypeOK, [Next]_vars, Signalled  PROVE Signalled'
  OBVIOUS
<1> USE DEF TypeOK, Signalled, loopVars, fdVars, history, others,
         goesToWake, swapped, callsNoMore, wakesItself
<1>1. ASSUME NEW p \in Threads, NEW t \in Tasks, queueinLoop(p, t)
      PROVE  Signalled'
  BY <1>1 DEF queueinLoop
<1>2. ASSUME NEW p \in Threads, quitFromOutside(p)  PROVE Signalled'
  BY <1>2 DEF quitFromOutside
<1>3. ASSUME NEW p \in Threads, wakeup(p)  PROVE Signalled'
  BY <1>3 DEF wakeup
<1>4. ASSUME NEW t \in Tasks, queueFromLoop(t)  PROVE Signalled'
  BY <1>4 DEF queueFromLoop
<1>5. CASE handelwakeupRead
  BY <1>5 DEF handelwakeupRead
<1>6. ASSUME UNCHANGED <<wakeable, pc>>  PROVE Signalled'
  BY <1>6
<1>7. ASSUME NEW t \in Tasks, queueBeforeLoop(t) \/ runinLoop(t)
      PROVE  Signalled'
  BY <1>6, <1>7 DEF queueBeforeLoop, runinLoop
<1>8. CASE \/ quitFromLoop \/ IoArrives \/ epollTimeout \/ enterLoop
           \/ checkQuit \/ epollReturns \/ handleEvent \/ eventDone
           \/ swapPendFuncs \/ runFunctor \/ functorDone \/ doPendFuncDone
           \/ UNCHANGED vars
  BY <1>6, <1>8 DEF quitFromLoop, IoArrives, epollTimeout, enterLoop, checkQuit,
     epollReturns, handleEvent, eventDone, swapPendFuncs, runFunctor,
     functorDone, doPendFuncDone, vars
<1>. QED
  BY <1>1, <1>2, <1>3, <1>4, <1>5, <1>7, <1>8 DEF Next, LoopSteps

LEMMA WakeInit == Init => WakeInv
<1> SUFFICES ASSUME Init  PROVE WakeInv
  OBVIOUS
<1>1. ToSet(pendFuncs) = {}
  BY DEF Init, ToSet
<1>. QED  BY <1>1 DEF Init, WakeInv

LEMMA WakeNext == TypeOK /\ WakeInv /\ [Next]_vars => WakeInv'
<1> SUFFICES ASSUME TypeOK, WakeInv, [Next]_vars  PROVE WakeInv'
  OBVIOUS
<1> USE DEF WakeInv, MustSignal, loopVars, fdVars, history, others,
         goesToWake, swapped, callsNoMore, wakesItself
<1>0. Signalled => Signalled'
  BY SignalStays
<1>1. ASSUME NEW p \in Threads, NEW t \in Tasks, queueinLoop(p, t)
      PROVE  WakeInv'
  <2>1. Signalled'
    BY <1>1 DEF queueinLoop, Signalled, TypeOK
  <2>. QED  BY <2>1
<1>2. ASSUME NEW p \in Threads, quitFromOutside(p)  PROVE WakeInv'
  <2>1. Signalled'
    BY <1>2 DEF quitFromOutside, Signalled, TypeOK
  <2>. QED  BY <2>1
<1>3. ASSUME NEW p \in Threads, wakeup(p)  PROVE WakeInv'
  <2>1. Signalled'
    BY <1>3 DEF wakeup, Signalled
  <2>. QED  BY <2>1
<1>4. ASSUME NEW t \in Tasks, queueBeforeLoop(t)  PROVE WakeInv'
  <2>1. ToSet(pendFuncs)' = ToSet(pendFuncs) \cup {t}
    BY <1>4, ToSetAppend DEF queueBeforeLoop, push, TypeOK
  <2>2. at = "created" /\ at' = "created" /\ t \in PreLoop
    BY <1>4 DEF queueBeforeLoop
  <2>. QED  BY <1>0, <2>1, <2>2
<1>5. ASSUME NEW t \in Tasks, queueFromLoop(t)  PROVE WakeInv'
  <2>1. CASE at = "callback"
    BY <1>5, <2>1 DEF queueFromLoop
  <2>2. CASE at = "functor"
    <3>1. Signalled'
      BY <1>5, <2>2 DEF queueFromLoop, Signalled, TypeOK
    <3>. QED  BY <3>1
  <2>. QED  BY <1>5, <2>1, <2>2 DEF queueFromLoop, InUserCode
<1>6. ASSUME NEW t \in Tasks, runinLoop(t)  PROVE WakeInv'
  BY <1>0, <1>6 DEF runinLoop
<1>7. CASE quitFromLoop
  BY <1>0, <1>7 DEF quitFromLoop, InUserCode
<1>8. CASE IoArrives
  BY <1>0, <1>8 DEF IoArrives
<1>9. CASE \/ epollTimeout \/ epollReturns \/ handelwakeupRead \/ handleEvent
           \/ eventDone
  BY <1>9 DEF epollTimeout, epollReturns, handelwakeupRead, handleEvent, eventDone
<1>10. CASE swapPendFuncs
  <2>1. ToSet(pendFuncs)' = {}
    BY <1>10 DEF swapPendFuncs, ToSet
  <2>. QED  BY <1>10, <2>1 DEF swapPendFuncs
<1>11. CASE enterLoop \/ runFunctor \/ functorDone \/ doPendFuncDone
  BY <1>0, <1>11 DEF enterLoop, runFunctor, functorDone, doPendFuncDone
<1>12. CASE checkQuit
  BY <1>0, <1>12 DEF checkQuit
<1>13. CASE UNCHANGED vars
  BY <1>0, <1>13 DEF vars
<1>. QED
  BY <1>1, <1>2, <1>3, <1>4, <1>5, <1>6, <1>7, <1>8, <1>9, <1>10, <1>11, <1>12,
     <1>13 DEF Next, LoopSteps

\* The loop blocks with nobody about to wake it only when it has nothing to do
\* but what its own thread queued before loop().
THEOREM NoLostWakeup == Spec => []SleepsOnlyWhenIdle
<1>1. WakeInv => SleepsOnlyWhenIdle
  BY DEF WakeInv, MustSignal, SleepsOnlyWhenIdle
<1>. QED  BY <1>1, TypeInit, TypeNext, WakeInit, WakeNext, PTL DEF Spec

-----------------------------------------------------------------------------
(* The implementation of TaskQueue *)

\* The vector swapped out exists only inside doPendFunc.
BatchInv == at \notin {"functors", "functor"} => functors = <<>>

LEMMA BatchNext == BatchInv /\ [Next]_vars => BatchInv'
<1> SUFFICES ASSUME BatchInv, [Next]_vars  PROVE BatchInv'
  OBVIOUS
<1> USE DEF BatchInv, loopVars, fdVars, history, others,
         goesToWake, swapped, callsNoMore, wakesItself
<1>1. ASSUME NEW p \in Threads, NEW t \in Tasks, queueinLoop(p, t)
      PROVE  BatchInv'
  BY <1>1 DEF queueinLoop
<1>2. ASSUME NEW t \in Tasks, queueBeforeLoop(t) \/ queueFromLoop(t) \/ runinLoop(t)
      PROVE  BatchInv'
  BY <1>2 DEF queueBeforeLoop, queueFromLoop, runinLoop
<1>3. CASE \/ quitFromLoop \/ IoArrives \/ epollTimeout \/ enterLoop
           \/ checkQuit \/ epollReturns \/ handelwakeupRead \/ handleEvent
           \/ eventDone \/ UNCHANGED vars
  BY <1>3 DEF quitFromLoop, IoArrives, epollTimeout, enterLoop, checkQuit,
     epollReturns, handelwakeupRead, handleEvent, eventDone, vars, InUserCode
<1>4. CASE swapPendFuncs \/ runFunctor \/ functorDone \/ doPendFuncDone
  BY <1>4 DEF swapPendFuncs, runFunctor, functorDone, doPendFuncDone
<1>5. ASSUME NEW p \in Threads, quitFromOutside(p) \/ wakeup(p)
      PROVE  BatchInv'
  BY <1>5 DEF quitFromOutside, wakeup
<1>. QED  BY <1>1, <1>2, <1>3, <1>4, <1>5 DEF Next, LoopSteps

\* A call that pushes a fresh callback is a Submit of the abstract queue.
LEMMA PushSubmits ==
    ASSUME TypeOK, NEW t \in Tasks, push(t), UNCHANGED <<functors, ran, inline>>
    PROVE  Promise!Submit(t)
<1>1. functors \o Append(pendFuncs, t) = Append(functors \o pendFuncs, t)
  BY AppendIsConcat, ConcatAssociative DEF TypeOK
<1>2. ToSet(functors \o pendFuncs) = ToSet(functors) \cup ToSet(pendFuncs)
  BY ToSetConcat DEF TypeOK
<1>3. t \notin Promise!Handed
  BY <1>2 DEF push, Fresh, Promise!Handed, ToSet, Promise!ToSet
<1>. QED  BY <1>1, <1>3 DEF push, Promise!Submit

LEMMA PromiseNext == TypeOK /\ BatchInv /\ [Next]_vars => [Promise!Next]_Promise!vars
<1> SUFFICES ASSUME TypeOK, BatchInv, [Next]_vars
             PROVE  Promise!Next \/ UNCHANGED Promise!vars
  OBVIOUS
<1> USE DEF loopVars, fdVars, history, others,
         goesToWake, swapped, callsNoMore, wakesItself
<1>1. ASSUME NEW p \in Threads, NEW t \in Tasks, queueinLoop(p, t)
      PROVE  Promise!Next
  BY <1>1, PushSubmits DEF queueinLoop, Promise!Next
<1>2. ASSUME NEW t \in Tasks, queueBeforeLoop(t)  PROVE Promise!Next
  BY <1>2, PushSubmits DEF queueBeforeLoop, Promise!Next
<1>3. ASSUME NEW t \in Tasks, queueFromLoop(t)  PROVE Promise!Next
  BY <1>3, PushSubmits DEF queueFromLoop, Promise!Next
<1>4. ASSUME NEW t \in Tasks, runinLoop(t)  PROVE Promise!Next
  <2>1. ToSet(functors \o pendFuncs) = ToSet(functors) \cup ToSet(pendFuncs)
    BY ToSetConcat DEF TypeOK
  <2>2. t \notin Promise!Handed
    BY <1>4, <2>1 DEF runinLoop, Fresh, Promise!Handed, ToSet, Promise!ToSet
  <2>. QED  BY <1>4, <2>2 DEF runinLoop, Promise!RunNow, Promise!Next
<1>5. CASE swapPendFuncs
  <2>1. functors = <<>> /\ functors \o pendFuncs = pendFuncs
    BY <1>5, ConcatEmptySeq DEF swapPendFuncs, BatchInv, TypeOK
  <2>2. (functors \o pendFuncs)' = pendFuncs
    BY <1>5, ConcatEmptySeq DEF swapPendFuncs, TypeOK
  <2>. QED  BY <1>5, <2>1, <2>2 DEF swapPendFuncs, Promise!vars
<1>6. CASE runFunctor
  <2>1. /\ functors \o pendFuncs # <<>>
        /\ Head(functors \o pendFuncs) = Head(functors)
        /\ Tail(functors \o pendFuncs) = Tail(functors) \o pendFuncs
    BY <1>6, HeadTailProperties DEF runFunctor, TypeOK
  <2>. QED  BY <1>6, <2>1 DEF runFunctor, Promise!RunNext, Promise!Next
<1>7. ASSUME UNCHANGED <<functors, pendFuncs, ran, inline>>
      PROVE  UNCHANGED Promise!vars
  BY <1>7 DEF Promise!vars
<1>8. ASSUME NEW p \in Threads, quitFromOutside(p) \/ wakeup(p)
      PROVE  UNCHANGED Promise!vars
  BY <1>7, <1>8 DEF quitFromOutside, wakeup
<1>9. CASE \/ quitFromLoop \/ IoArrives \/ epollTimeout \/ enterLoop
           \/ checkQuit \/ epollReturns \/ handelwakeupRead \/ handleEvent
           \/ eventDone \/ functorDone \/ doPendFuncDone \/ UNCHANGED vars
  BY <1>7, <1>9 DEF quitFromLoop, IoArrives, epollTimeout, enterLoop, checkQuit,
     epollReturns, handelwakeupRead, handleEvent, eventDone, functorDone,
     doPendFuncDone, vars
<1>. QED
  BY <1>1, <1>2, <1>3, <1>4, <1>5, <1>6, <1>8, <1>9 DEF Next, LoopSteps

\* Every execution of the loop is one of the queue it promises: at most once,
\* first in first out across the swap of the two vectors.
THEOREM Implementation == Spec => ImplementsTaskQueue
<1>1. Init => Promise!Init
  BY DEF Init, Promise!Init
<1>2. Init => BatchInv
  BY DEF Init, BatchInv
<1>. QED
  BY <1>1, <1>2, TypeInit, TypeNext, BatchNext, PromiseNext, PTL
     DEF Spec, Promise!Spec, ImplementsTaskQueue
=============================================================================
