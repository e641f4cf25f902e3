------------------------- MODULE ManagerPoolProofs -------------------------
(***************************************************************************)
(* Proofs about ManagerPool, for any number of threads: types, start()     *)
(* returns loops that were made, and no thread is left in its loop().      *)
(*                                                                         *)
(* The owner goes over the Managers twice, so the invariant says of each   *)
(* pass what holds of the Managers behind cur and of those before it.      *)
(***************************************************************************)
EXTENDS ManagerPool, TLAPS

Ending == {"dtor", "quit", "wakeup", "join"}
HasLoop == {"published", "looping", "stopped"}
Left == {"reset", "done"}

\* loop_ is set between publish and resetLoop, and not otherwise.
LoopIsPublished == \A i \in Managers : loop[i] <=> thread[i] \in HasLoop

\* The pass of start().
StartPass ==
    /\ main \in Starting =>
          /\ cur \in Managers
          /\ loops = 1 .. cur - 1
          /\ \A i \in Managers : i > cur => thread[i] = "none"
    /\ main = "start" => thread[cur] = "none"
    /\ main \in {"sem", "lock", "wait"} => thread[cur] # "none"
    /\ main \notin Starting \cup {"new", "gone"} \/ listening => loops = Managers
    /\ listening => main \notin Starting
    /\ main = "new" =>
          /\ loops = {} /\ cur = 1 /\ ~listening
          /\ \A i \in Managers : thread[i] = "none"
    /\ started = 0 => main \in {"new", "gone"}
    /\ \A i \in loops : thread[i] \in HasLoop \cup Left

\* The pass of ~ManagerPool.
EndPass ==
    /\ main \in Ending =>
          /\ cur \in Managers
          /\ \A i \in Managers : i < cur => thread[i] \in Left
    /\ main = "gone" => \A i \in Managers : thread[i] \in Left \cup {"none"}

PoolInv == TypeOK /\ LoopIsPublished /\ StartPass /\ EndPass

-----------------------------------------------------------------------------
\* A thread that has left its loop() does not come back, whatever is done.
LEMMA LeftStays ==
    ASSUME TypeOK, [Next]_vars, NEW i \in Managers, thread[i] \in Left,
           main # "start" \/ cur # i
    PROVE  thread'[i] \in Left
<1> USE DEF Left, TypeOK, Starting
<1>1. CASE threadStart
  BY <1>1 DEF threadStart, moves
<1>2. CASE UNCHANGED thread
  BY <1>2
<1>3. CASE \/ semWait \/ startLoopReturns \/ startLoopWaits \/ spuriousWakeup
           \/ start \/ listen
           \/ destroyPool \/ destroyManager \/ quitLoop \/ wakeupLoop \/ join
  BY <1>2, <1>3 DEF semWait, startLoopReturns, startLoopWaits, spuriousWakeup,
     start, listen, destroyPool, destroyManager, quitLoop, wakeupLoop, join, shared
<1>4. ASSUME NEW j \in Managers, ThreadStep(j)  PROVE thread'[i] \in Left
  BY <1>4 DEF ThreadStep, semPost, build, publish, enterLoop, leaveLoop,
     resetLoop, returnFromThread, goes
<1>5. ASSUME NEW j \in Managers, userQuits(j)  PROVE thread'[i] \in Left
  BY <1>5 DEF userQuits
<1>6. CASE UNCHANGED vars
  BY <1>2, <1>6 DEF vars
<1>. QED  BY <1>1, <1>3, <1>4, <1>5, <1>6 DEF Next, OwnerStep

LEMMA PoolInit == Init => PoolInv
<1> SUFFICES ASSUME Init  PROVE PoolInv
  OBVIOUS
<1> USE ThreadsAssumption DEF Init, Managers
<1>1. TypeOK
  <2>1. main = "new" /\ cur = 1 /\ loops = {} /\ started \in 0 .. MaxStarts
    OBVIOUS
  <2>3. listening \in BOOLEAN
    OBVIOUS
  <2>2. /\ thread \in [Managers -> {"none"}]
        /\ loop \in [Managers -> BOOLEAN]
        /\ quit \in [Managers -> BOOLEAN]
    OBVIOUS
  <2>. QED  BY <2>1, <2>2, <2>3 DEF TypeOK, Starting
<1>2. LoopIsPublished
  BY DEF LoopIsPublished, HasLoop
<1>3. StartPass
  BY DEF StartPass, Starting
<1>4. EndPass
  BY DEF EndPass, Ending
<1>. QED  BY <1>1, <1>2, <1>3, <1>4 DEF PoolInv

-----------------------------------------------------------------------------
(* The steps of the owner *)

LEMMA StartSteps ==
    PoolInv /\ (threadStart \/ semWait \/ startLoopReturns \/ startLoopWaits
                \/ spuriousWakeup) => PoolInv'
<1> SUFFICES ASSUME PoolInv,
                    threadStart \/ semWait \/ startLoopReturns \/ startLoopWaits
                    \/ spuriousWakeup
             PROVE  PoolInv'
  OBVIOUS
<1> USE DEF PoolInv, TypeOK, Starting, moves, serverVars, shared
<1>0. threads_num \in Nat /\ Managers = 1 .. threads_num
  BY ThreadsAssumption DEF Managers
<1>1. CASE threadStart
  <2>1. TypeOK'
    BY <1>1 DEF threadStart
  <2>2. LoopIsPublished'
    BY <1>1 DEF threadStart, LoopIsPublished, StartPass, HasLoop
  <2>3. cur \notin loops
    BY <1>0, <1>1 DEF threadStart, StartPass, Starting
  <2>4. StartPass' /\ EndPass'
    BY <1>0, <1>1, <2>3 DEF threadStart, StartPass, EndPass, Starting, Ending
  <2>. QED  BY <2>1, <2>2, <2>4
<1>2. CASE semWait \/ startLoopWaits \/ spuriousWakeup
  BY <1>0, <1>2 DEF semWait, startLoopWaits, spuriousWakeup, LoopIsPublished,
     StartPass, EndPass, Starting, Ending
<1>3. CASE startLoopReturns
  <2>1. /\ loops = 1 .. cur - 1
        /\ thread[cur] \in HasLoop
        /\ \A i \in loops' : thread[i] \in HasLoop \cup Left
    BY <1>3 DEF startLoopReturns, loopThere, StartPass, Starting, LoopIsPublished
  <2>4. ~listening /\ started # 0 /\ UNCHANGED <<started, listening>>
    BY <1>3 DEF startLoopReturns, StartPass
  <2>2. CASE cur < threads_num
    <3>1. /\ main' = "start" /\ cur' = cur + 1 /\ UNCHANGED <<thread, loop, quit>>
          /\ loops' = 1 .. cur' - 1
          /\ cur' \in Managers
      BY <1>0, <1>3, <2>1, <2>2 DEF startLoopReturns, next
    <3>2. \A i \in Managers : i > cur => thread[i] = "none"
      BY <1>3 DEF startLoopReturns, StartPass, Starting
    <3>3. StartPass'
      BY <1>0, <2>1, <2>4, <3>1, <3>2 DEF StartPass, Starting
    <3>. QED
      BY <1>0, <1>3, <2>4, <3>1, <3>3 DEF LoopIsPublished, EndPass, Ending
  <2>3. CASE ~(cur < threads_num)
    <3>1. /\ main' = "listen" /\ cur' = 1 /\ UNCHANGED <<thread, loop, quit>>
          /\ loops' = Managers
      BY <1>0, <1>3, <2>1, <2>3 DEF startLoopReturns, next
    <3>. QED
      BY <1>0, <1>3, <2>1, <2>4, <3>1 DEF LoopIsPublished, StartPass, EndPass, Starting,
         Ending
  <2>. QED  BY <2>2, <2>3
<1>. QED  BY <1>1, <1>2, <1>3

\* The calls of start(), and what the first one does last.
LEMMA ServerSteps == PoolInv /\ (start \/ listen) => PoolInv'
<1> SUFFICES ASSUME PoolInv, start \/ listen  PROVE PoolInv'
  OBVIOUS
<1> USE DEF PoolInv, TypeOK, Starting, shared
<1>0. threads_num \in Nat /\ MaxStarts \in Nat /\ Managers = 1 .. threads_num
  BY ThreadsAssumption DEF Managers
<1>1. CASE start /\ first
  <2>1. main = "new" /\ loops = {} /\ cur = 1 /\ ~listening
    BY <1>1 DEF start, first, StartPass
  <2>. QED
    BY <1>0, <1>1, <2>1 DEF start, first, LoopIsPublished, StartPass, EndPass, Starting,
       Ending
<1>2. CASE start /\ ~first
  BY <1>0, <1>2 DEF start, first, LoopIsPublished, StartPass, EndPass
<1>3. CASE listen
  BY <1>0, <1>3 DEF listen, LoopIsPublished, StartPass, EndPass, Starting, Ending
<1>. QED  BY <1>1, <1>2, <1>3

\* One more Manager is destroyed, its thread being out of its loop().
LEMMA OneMoreDestroyed ==
    ASSUME PoolInv, cur \in Managers, main \in Ending, thread[cur] \in Left,
           next("dtor", "gone"), UNCHANGED <<serverVars, shared, loops>>
    PROVE  PoolInv'
<1> USE DEF PoolInv, TypeOK, Starting, serverVars, shared
<1>0. threads_num \in Nat /\ Managers = 1 .. threads_num
  BY ThreadsAssumption DEF Managers
<1>1. \A i \in Managers : i <= cur => thread[i] \in Left
  BY <1>0 DEF EndPass
<1>2. LoopIsPublished'
  BY DEF LoopIsPublished
<1>3. main' \in {"dtor", "gone"}
  BY DEF next
<1>4. StartPass'
  BY <1>3 DEF StartPass, Starting, Ending
<1>5. TypeOK' /\ EndPass'
  <2>1. CASE cur < threads_num
    <3>1. main' = "dtor" /\ cur' = cur + 1
      BY <2>1 DEF next
    <3>2. cur' \in Managers /\ \A i \in Managers : i < cur' => i <= cur
      BY <1>0, <2>1, <3>1
    <3>. QED  BY <1>1, <3>1, <3>2 DEF EndPass, Ending
  <2>2. CASE ~(cur < threads_num)
    <3>1. main' = "gone" /\ cur' = 1
      BY <2>2 DEF next
    <3>2. \A i \in Managers : i <= cur
      BY <1>0, <2>2
    <3>. QED  BY <1>1, <3>1, <3>2 DEF EndPass, Ending
  <2>. QED  BY <2>1, <2>2
<1>. QED  BY <1>2, <1>4, <1>5

LEMMA EndSteps ==
    PoolInv /\ (destroyPool \/ destroyManager \/ quitLoop \/ wakeupLoop \/ join)
        => PoolInv'
<1> SUFFICES ASSUME PoolInv,
                    destroyPool \/ destroyManager \/ quitLoop \/ wakeupLoop \/ join
             PROVE  PoolInv'
  OBVIOUS
<1> USE DEF moves, serverVars, shared, Starting
<1>0. threads_num \in Nat /\ Managers = 1 .. threads_num
  BY ThreadsAssumption DEF Managers
<1>1. CASE destroyPool
  BY <1>0, <1>1 DEF destroyPool, PoolInv, TypeOK, LoopIsPublished, StartPass,
     EndPass, Starting, Ending
<1>2. CASE destroyManager
  <2>1. CASE loop[cur]
    BY <1>2, <2>1 DEF destroyManager, PoolInv, TypeOK, LoopIsPublished, StartPass,
       EndPass, Starting, Ending
  <2>2. CASE ~loop[cur]
    <3>1. thread[cur] \in Left
      BY <1>2, <2>2 DEF destroyManager, PoolInv, LoopIsPublished, StartPass, Starting
    <3>. QED
      BY <1>2, <2>2, <3>1, OneMoreDestroyed DEF destroyManager, Ending
  <2>. QED  BY <2>1, <2>2
<1>3. CASE quitLoop \/ wakeupLoop
  BY <1>3 DEF quitLoop, told, wakeupLoop, PoolInv, TypeOK, LoopIsPublished, StartPass,
     EndPass, Starting, Ending
<1>4. CASE join
  BY <1>4, OneMoreDestroyed DEF join, ended, Left, Ending
<1>. QED  BY <1>1, <1>2, <1>3, <1>4

-----------------------------------------------------------------------------
(* The steps of the threads *)

LEMMA ThreadSteps ==
    ASSUME PoolInv, NEW i \in Managers, ThreadStep(i) \/ userQuits(i)
    PROVE  PoolInv'
<1> USE DEF PoolInv, TypeOK, Starting, goes, ownerVars, serverVars, notified
<1>0. threads_num \in Nat /\ Managers = 1 .. threads_num
  BY ThreadsAssumption DEF Managers
<1>1. TypeOK' /\ LoopIsPublished'
  BY DEF LoopIsPublished, HasLoop, ThreadStep, semPost, build, publish,
     enterLoop, leaveLoop, resetLoop, returnFromThread, userQuits
<1>2. /\ UNCHANGED <<cur, loops, started, listening>>
      /\ main' = main \/ (main = "wait" /\ main' = "lock")
  BY DEF ThreadStep, semPost, build, publish, enterLoop, leaveLoop, resetLoop,
     returnFromThread, userQuits
<1>3. \A j \in Managers :
         /\ thread[j] = "none" <=> thread'[j] = "none"
         /\ thread[j] \in HasLoop \cup Left => thread'[j] \in HasLoop \cup Left
         /\ thread[j] \in Left => thread'[j] \in Left
  BY DEF HasLoop, Left, ThreadStep, semPost, build, publish, enterLoop,
     leaveLoop, resetLoop, returnFromThread, userQuits
<1>4. StartPass'
  <2>1. loops \subseteq Managers
    OBVIOUS
  <2>2. main' = "start" => main = "start"
    BY <1>2
  <2>3. main \in {"start", "sem", "lock", "wait"} => cur \in Managers
    BY DEF StartPass, Starting
  <2>. QED  BY <1>0, <1>2, <1>3, <2>1, <2>2, <2>3 DEF StartPass, Starting
<1>5. EndPass'
  BY <1>2, <1>3 DEF EndPass, Ending
<1>. QED  BY <1>1, <1>4, <1>5

LEMMA PoolNext == PoolInv /\ [Next]_vars => PoolInv'
<1> SUFFICES ASSUME PoolInv, [Next]_vars  PROVE PoolInv'
  OBVIOUS
<1>1. CASE UNCHANGED vars
  BY <1>1 DEF vars, PoolInv, TypeOK, Starting, LoopIsPublished, StartPass, EndPass
<1>2. CASE Next
  BY <1>2, StartSteps, ServerSteps, EndSteps, ThreadSteps DEF Next, OwnerStep
<1>. QED  BY <1>1, <1>2

LEMMA PoolInvariant == Spec => []PoolInv
  BY PoolInit, PoolNext, PTL DEF Spec

-----------------------------------------------------------------------------
(* The theorems *)

\* The variables of the pool and of its threads keep their types.
THEOREM PoolTypes == Spec => []TypeOK
<1>1. PoolInv => TypeOK
  BY DEF PoolInv
<1>. QED  BY <1>1, PoolInvariant, PTL

\* startLoop() never returns the null loop_ it waits to see replaced, and start()
\* returns when every loop has been made.
THEOREM StartedLoopsMade == Spec => []LoopsMade
<1>1. PoolInv => LoopsMade
  BY DEF PoolInv, StartPass, Starting, HasLoop, Left, LoopsMade, Exists
<1>. QED  BY <1>1, PoolInvariant, PTL

\* ~ManagerPool returns with no thread in its loop() or before it, though it
\* does not join those that have left by themselves.
THEOREM PoolLeavesNoneRunning == Spec => []NoneLeftRunning
<1>1. PoolInv => NoneLeftRunning
  BY DEF PoolInv, EndPass, Left, NoneLeftRunning
<1>. QED  BY <1>1, PoolInvariant, PTL

\* A thread that has left its loop() never enters it again: what the destructor
\* has found of a Manager it has gone past stays true while it does the others.
THEOREM NoReturn ==
    Spec => [][\A i \in Managers : thread[i] \in Left => thread'[i] \in Left]_vars
<1>1. PoolInv /\ [Next]_vars =>
         [\A i \in Managers : thread[i] \in Left => thread'[i] \in Left]_vars
  <2> SUFFICES ASSUME PoolInv, [Next]_vars, NEW i \in Managers, thread[i] \in Left
               PROVE  thread'[i] \in Left
    OBVIOUS
  <2>1. main # "start" \/ cur # i
    BY DEF PoolInv, StartPass, Left
  <2>. QED  BY <2>1, LeftStays DEF PoolInv
<1>. QED  BY <1>1, PoolInvariant, PTL DEF Spec
=============================================================================
