---------------------------- MODULE EpollerProofs ----------------------------
(***************************************************************************)
(* Proofs about Epoller.tla, for any Fileds, descriptors and sizes.        *)
(***************************************************************************)
EXTENDS Epoller, FiniteSetTheorems, TLAPS

(***************************************************************************)
(* The inductive invariant.  The four agreements need each other: ADD and  *)
(* MOD are not refused because the kernel has registered what index_ says, *)
(* a descriptor that is opened again finds no entry because the one before *)
(* was removed, and a Filed waiting to be handled is still registered, so  *)
(* that nobody may destroy it.                                             *)
(***************************************************************************)
ActiveKnown == \A f \in active : Exists(f) /\ index[f] # "kNew"
IInv == TypeOK /\ KernelAgrees /\ MapAgrees /\ ActiveKnown /\ NeverFatal

LEMMA InitInv == Init => IInv
<1> SUFFICES ASSUME Init PROVE IInv
  OBVIOUS
<1> USE EpollerAssumption DEF Init, Exists
<1>1. {} \in Mask
  BY DEF Mask
<1>2. TypeOK
  BY <1>1 DEF TypeOK
<1>3. KernelAgrees /\ MapAgrees
  BY DEF KernelAgrees, MapAgrees
<1> QED
  BY <1>2, <1>3 DEF IInv, ActiveKnown, NeverFatal

\* The whole of a call that asks for something else: Filed::update.
LEMMA UpdateInv ==
  ASSUME IInv,
         NEW f \in Fileds, NEW e \in Mask,
         phase \in {"events", "functors"}, Exists(f), update(f, e),
         UNCHANGED <<loopVars, fdOf, arrayVars, ready>>
  PROVE  IInv'
<1> USE EpollerAssumption DEF IInv, Exists, loopVars, arrayVars, Registration
<1>1. (operation(f, e) = "ADD") <=> (interest[fdOf[f]] = None)
  <2>1. [ptr |-> f, mask |-> events[f]] \in Registration
    BY DEF TypeOK
  <2>2. (index[f] # "kAdded") <=> (interest[fdOf[f]] = None)
    BY <2>1 DEF KernelAgrees
  <2> QED
    BY <2>2 DEF operation
<1>2. operation(f, e) \in {"ADD", "MOD", "DEL"}
  BY DEF operation
<1>3. interest' = [interest EXCEPT ![fdOf[f]] =
           IF operation(f, e) = "DEL" THEN None ELSE [ptr |-> f, mask |-> e]]
  BY <1>1 DEF update, epoll_ctl
<1>4. NeverFatal'
  BY <1>1 DEF update, epoll_ctl, NeverFatal
<1>5. fdOf[f] \in Fds
  BY DEF TypeOK
<1>6. index' = [index EXCEPT ![f] =
                   IF operation(f, e) = "DEL" THEN "kDeleted" ELSE "kAdded"]
  BY DEF update
<1>7. failed' \in BOOLEAN
  BY <1>4 DEF update, epoll_ctl, NeverFatal, TypeOK
<1>8. TypeOK'
  <2>1. events' \in [Fileds -> Mask] /\ index' \in [Fileds -> {"kNew", "kAdded", "kDeleted"}]
    BY <1>6 DEF TypeOK, update
  <2>2. fileds' \in [Fds -> Fileds \cup {None}]
    BY <1>5 DEF TypeOK, update
  <2>3. interest' \in [Fds -> Registration \cup {None}]
    BY <1>3, <1>5 DEF TypeOK
  <2> QED
    BY <1>7, <2>1, <2>2, <2>3 DEF TypeOK
<1>9. KernelAgrees'
  <2>1. ASSUME NEW g \in Fileds, g # f, Exists(g)
        PROVE  fdOf[g] # fdOf[f]
    BY <2>1 DEF TypeOK
  <2>2. events' = [events EXCEPT ![f] = e]
    BY DEF update
  <2>3. ASSUME NEW g \in Fileds, Exists(g)'
        PROVE  interest'[fdOf'[g]] = IF index'[g] = "kAdded"
                  THEN [ptr |-> g, mask |-> events'[g]] ELSE None
    <3>1. CASE g = f
      BY <3>1, <1>2, <1>3, <1>5, <1>6, <2>2 DEF TypeOK
    <3>2. CASE g # f
      BY <3>2, <1>3, <1>5, <1>6, <2>1, <2>2, <2>3 DEF KernelAgrees, TypeOK
    <3> QED
      BY <3>1, <3>2
  <2>4. ASSUME NEW fd \in Fds, interest'[fd] # None
        PROVE  \E g \in Fileds : fdOf'[g] = fd
    BY <2>4, <1>3, <1>5 DEF KernelAgrees, TypeOK
  <2> QED
    BY <2>3, <2>4 DEF KernelAgrees
<1>10. MapAgrees'
  <2>1. fileds' = [fileds EXCEPT ![fdOf[f]] = IF index[f] = "kNew" THEN f ELSE @]
    BY DEF update
  <2>2. fileds'[fdOf[f]] = f
    BY <2>1, <1>5 DEF MapAgrees, TypeOK
  <2> QED
    BY <2>1, <2>2, <1>5, <1>6 DEF MapAgrees, TypeOK
<1>11. ActiveKnown'
  BY <1>6 DEF ActiveKnown, TypeOK
<1> QED
  BY <1>4, <1>8, <1>9, <1>10, <1>11

LEMMA AsksInv == ASSUME IInv, NEW f \in Fileds, Asks(f) PROVE IInv'
<1>1. PICK e \in Mask : update(f, e)
  BY DEF Asks, enableReading, disableReading, enableWriting, disableWriting,
         disableAll, IInv, TypeOK, Mask
<1> QED
  BY <1>1, UpdateInv DEF Asks

LEMMA RemoveInv == ASSUME IInv, NEW f \in Fileds, remove(f) PROVE IInv'
<1> USE EpollerAssumption DEF IInv, Exists, loopVars, arrayVars, Registration
<1>1. fdOf[f] \in Fds /\ active = {}
  BY DEF remove, TypeOK
<1>2. /\ interest' = [interest EXCEPT ![fdOf[f]] = None]
      /\ failed' = FALSE
  <2>1. CASE index[f] = "kAdded"
    BY <2>1, <1>1 DEF remove, forget, epoll_ctl, KernelAgrees, TypeOK, NeverFatal
  <2>2. CASE index[f] # "kAdded"
    <3>1. interest[fdOf[f]] = None
      BY <2>2 DEF remove, KernelAgrees
    <3> QED
      BY <3>1, <2>2, <1>1 DEF remove, forget, TypeOK, NeverFatal
  <2> QED
    BY <2>1, <2>2
<1>3. /\ fileds' = [fileds EXCEPT ![fdOf[f]] = None]
      /\ index' = [index EXCEPT ![f] = "kNew"]
      /\ UNCHANGED <<phase, active, fdOf, events, size, filled, ready>>
  BY DEF remove, erased
<1>4. TypeOK'
  BY <1>1, <1>2, <1>3 DEF TypeOK
<1>5. KernelAgrees'
  BY <1>1, <1>2, <1>3 DEF KernelAgrees, TypeOK
<1>6. MapAgrees'
  BY <1>1, <1>3 DEF MapAgrees, TypeOK
<1> QED
  BY <1>1, <1>2, <1>3, <1>4, <1>5, <1>6 DEF ActiveKnown, NeverFatal

LEMMA ConstructInv == ASSUME IInv, NEW f \in Fileds, construct(f) PROVE IInv'
<1> USE EpollerAssumption DEF IInv, Exists, loopVars, arrayVars, Registration
<1>1. PICK fd \in Fds \ {fdOf[g] : g \in Fileds} : fdOf' = [fdOf EXCEPT ![f] = fd]
  BY DEF construct
<1>2. interest[fd] = None /\ fileds[fd] = None
  BY <1>1 DEF KernelAgrees, MapAgrees, TypeOK
<1>3. /\ events' = [events EXCEPT ![f] = {}]
      /\ index' = [index EXCEPT ![f] = "kNew"]
      /\ UNCHANGED <<phase, active, fileds, size, filled, interest, ready, failed>>
      /\ fdOf[f] = None
  BY DEF construct, kernelVars
<1>4. TypeOK'
  BY <1>1, <1>3 DEF TypeOK, Mask
<1>5. KernelAgrees'
  BY <1>1, <1>2, <1>3 DEF KernelAgrees, TypeOK
<1>6. MapAgrees'
  BY <1>1, <1>2, <1>3 DEF MapAgrees, TypeOK
<1>7. ActiveKnown'
  BY <1>1, <1>3 DEF ActiveKnown, TypeOK
<1> QED
  BY <1>3, <1>4, <1>5, <1>6, <1>7 DEF NeverFatal

LEMMA DestroyInv == ASSUME IInv, NEW f \in Fileds, destroy(f) PROVE IInv'
<1> USE EpollerAssumption DEF IInv, Exists, loopVars, arrayVars, Registration
<1>1. /\ fdOf' = [fdOf EXCEPT ![f] = None]
      /\ events' = [events EXCEPT ![f] = {}]
      /\ interest' = [interest EXCEPT ![fdOf[f]] = None]
      /\ ready' = [ready EXCEPT ![fdOf[f]] = "no"]
      /\ UNCHANGED <<phase, active, index, fileds, size, filled, failed>>
      /\ fdOf[f] \in Fds /\ index[f] = "kNew"
  BY DEF destroy, TypeOK
<1>2. TypeOK'
  BY <1>1 DEF TypeOK, Mask
<1>3. KernelAgrees'
  BY <1>1 DEF KernelAgrees, TypeOK
<1>4. MapAgrees'
  BY <1>1 DEF MapAgrees, TypeOK
<1>5. ActiveKnown'
  BY <1>1 DEF ActiveKnown, TypeOK
<1> QED
  BY <1>1, <1>2, <1>3, <1>4, <1>5 DEF NeverFatal

\* What epoll_wait returns comes back as it was: -1 as -1, through the size_t that is
\* larger than every size of events_.
LEMMA ConvertedBack ==
  ASSUME NEW r \in Int, -1 <= r, r <= IntMax
  PROVE  /\ asInt(asSize_t(r)) = r
         /\ asSize_t(r) = IF r = -1 THEN SizeMax ELSE r
BY EpollerAssumption DEF asInt, asSize_t

\* The number of descriptors that are reported is an int.
LEMMA CountReported ==
  /\ Cardinality(Reported) \in Nat /\ Cardinality(Fds) \in Nat
  /\ Cardinality(Reported) <= Cardinality(Fds) /\ Cardinality(Fds) <= IntMax
BY EpollerAssumption, FS_Subset, FS_CardinalityType DEF Reported, Reportable

\* Nothing but what the call itself has filled in is handled.
LEMMA ReturnsSome ==
  ASSUME NEW r \in Int, -1 <= r, r <= IntMax, NEW S, returns(r, S)
  PROVE  /\ UNCHANGED <<fdOf, events, index, fileds, interest, ready, failed>>
         /\ phase = "poll" /\ phase' = "events" /\ filled' = S
         /\ active' = IF r > 0 THEN S ELSE {}
         /\ size' = IF r = 0 THEN size ELSE grown(IF r = -1 THEN SizeMax ELSE r)
<1>1. asInt(asSize_t(r)) = r /\ asSize_t(r) = IF r = -1 THEN SizeMax ELSE r
  BY ConvertedBack
<1>2. SizeMax > 0 /\ SizeMax \in Nat
  BY EpollerAssumption
<1> QED
  BY <1>1, <1>2 DEF returns, fillActiveFileds, filedVars

\* What epoll_wait reports is registered, and by a Filed that exists.
LEMMA PollInv == ASSUME IInv, epoll \/ epollNothing PROVE IInv'
<1> USE EpollerAssumption DEF IInv, Exists, Registration
<1>1. PICK r \in Int, S \in SUBSET Fileds :
         /\ -1 <= r /\ r <= IntMax /\ returns(r, S)
         /\ r > 0 => \A f \in S : Exists(f) /\ index[f] # "kNew"
  <2>1. CASE epoll
    <3>1. ASSUME NEW fd \in Reported
          PROVE  /\ interest[fd].ptr \in Fileds /\ Exists(interest[fd].ptr)
                 /\ index[interest[fd].ptr] # "kNew"
      <4>1. fd \in Fds /\ interest[fd] # None
        BY DEF Reported, Reportable, Reports
      <4>2. PICK g \in Fileds : fdOf[g] = fd
        BY <4>1 DEF KernelAgrees
      <4>3. index[g] = "kAdded" /\ interest[fd] = [ptr |-> g, mask |-> events[g]]
        BY <4>1, <4>2 DEF KernelAgrees
      <4> QED
        BY <4>1, <4>2, <4>3
    <3> DEFINE S == {interest[fd].ptr : fd \in Reported}
    <3>2. S \in SUBSET Fileds /\ \A f \in S : Exists(f) /\ index[f] # "kNew"
      BY <3>1
    <3>3. returns(Cardinality(Reported), S)
      BY <2>1 DEF epoll
    <3> QED
      BY <3>2, <3>3, CountReported
  <2>2. CASE epollNothing
    <3>1. PICK r \in {0, -1} : returns(r, filled)
      BY <2>2 DEF epollNothing
    <3>2. filled \in SUBSET Fileds
      BY DEF TypeOK
    <3> QED
      BY <3>1, <3>2
  <2> QED
    BY <2>1, <2>2
<1>2. /\ UNCHANGED <<fdOf, events, index, fileds, interest, ready, failed>>
      /\ phase' = "events" /\ filled' = S /\ active' = IF r > 0 THEN S ELSE {}
      /\ size' = IF r = 0 THEN size ELSE grown(IF r = -1 THEN SizeMax ELSE r)
  BY <1>1, ReturnsSome
<1>3. size' \in Nat \ {0}
  BY <1>2 DEF grown, TypeOK
<1>4. TypeOK' /\ ActiveKnown'
  BY <1>1, <1>2, <1>3 DEF TypeOK, ActiveKnown
<1> QED
  BY <1>2, <1>4 DEF KernelAgrees, MapAgrees, NeverFatal

LEMMA StepInv == IInv /\ [Next]_vars => IInv'
<1> SUFFICES ASSUME IInv, [Next]_vars PROVE IInv'
  OBVIOUS
<1> USE DEF IInv, TypeOK, KernelAgrees, MapAgrees, ActiveKnown, NeverFatal, Exists,
            loopVars, filedVars, kernelVars, arrayVars
<1>1. CASE \E f \in Fileds : Asks(f)
  BY <1>1, AsksInv
<1>2. CASE \E f \in Fileds : remove(f)
  BY <1>2, RemoveInv
<1>3. CASE \E f \in Fileds : construct(f)
  BY <1>3, ConstructInv
<1>4. CASE \E f \in Fileds : destroy(f)
  BY <1>4, DestroyInv
<1>5. CASE \E fd \in Fds, r \in {"io", "hup"} : BecomesReady(fd, r)
  BY <1>5 DEF BecomesReady
<1>6. CASE epoll \/ epollNothing
  BY <1>6, PollInv
<1>7. CASE doPendFunc
  BY <1>7 DEF doPendFunc
<1>8. CASE pollAgain
  BY <1>8 DEF pollAgain
<1>9. CASE \E f \in Fileds : handleEvent(f)
  BY <1>9 DEF handleEvent
<1>10. CASE UNCHANGED vars
  BY <1>10 DEF vars
<1> QED
  BY <1>1, <1>2, <1>3, <1>4, <1>5, <1>6, <1>7, <1>8, <1>9, <1>10
  DEF Next, LoopSteps

\* Everything below follows from the inductive invariant.
LEMMA Invariance == Spec => []IInv
  BY InitInv, StepInv, PTL DEF Spec

\* The state of an Epoller keeps its types, and activeFileds_ is empty outside
\* the handling of events.
THEOREM EpollerTypes == Spec => []TypeOK
<1>1. IInv => TypeOK
  BY DEF IInv
<1> QED
  BY <1>1, Invariance, PTL

\* Epoller::update and remove keep the kernel's list in step with index_ and
\* events_, through every sequence of calls.
THEOREM KernelInStep == Spec => []KernelAgrees
<1>1. IInv => KernelAgrees
  BY DEF IInv
<1> QED
  BY <1>1, Invariance, PTL

\* The assertions of Epoller::update about fileds_ hold, however descriptors are
\* reused.
THEOREM MapInStep == Spec => []MapAgrees
<1>1. IInv => MapAgrees
  BY DEF IInv
<1> QED
  BY <1>1, Invariance, PTL

\* No epoll_ctl of Epoller::updateHelper ends the process.
THEOREM EpollCtlSucceeds == Spec => []NeverFatal
<1>1. IInv => NeverFatal
  BY DEF IInv
<1> QED
  BY <1>1, Invariance, PTL

\* A pointer epoll_wait returns, and fillActiveFileds follows, is the pointer of
\* a Filed that exists until its event is handled.
THEOREM NoDanglingFiled == Spec => []ReportedAlive
<1>1. IInv => ReportedAlive
  BY DEF IInv, ReportedAlive, ActiveKnown
<1> QED
  BY <1>1, Invariance, PTL

\* events_ never grows beyond twice what all descriptors together need.
THEOREM EventsBounded == Spec => []SizeBounded
<1>1. Init => SizeBounded
  BY DEF Init, SizeBounded
<1>2. IInv /\ SizeBounded /\ [Next]_vars => SizeBounded'
  <2> SUFFICES ASSUME IInv, SizeBounded, [Next]_vars PROVE SizeBounded'
    OBVIOUS
  <2>1. CASE epoll \/ epollNothing
    <3> DEFINE Returned(n) == \E S : returns(n, S)
    <3>1. \E n \in {-1} \cup 0 .. Cardinality(Fds) : Returned(n)
      <4>1. CASE epoll
        <5>1. Returned(Cardinality(Reported))
          BY <4>1 DEF epoll
        <5> HIDE DEF Returned
        <5> QED
          BY <5>1, CountReported
      <4>2. CASE epollNothing
        <5>1. PICK n \in {0, -1} : Returned(n)
          BY <4>2 DEF epollNothing
        <5> HIDE DEF Returned
        <5> QED
          BY <5>1, CountReported
      <4> QED
        BY <2>1, <4>1, <4>2
    <3>2. PICK r \in {-1} \cup 0 .. Cardinality(Fds) : Returned(r)
      BY <3>1
    <3>3. r \in Int /\ -1 <= r /\ r <= IntMax /\ r <= Cardinality(Fds)
      BY EpollerAssumption, CountReported
    <3>4. size' = IF r = 0 THEN size ELSE grown(IF r = -1 THEN SizeMax ELSE r)
      BY <3>2, <3>3, ReturnsSome
    <3>5. size \in Nat /\ size <= SizeMax /\ SizeMax \in Nat
      BY EpollerAssumption, CountReported DEF SizeBounded, IInv, TypeOK
    <3> QED
      BY <3>3, <3>4, <3>5, CountReported DEF grown, SizeBounded
  <2>2. CASE UNCHANGED size
    BY <2>2 DEF SizeBounded
  <2> QED
    BY <2>1, <2>2 DEF Next, LoopSteps, Asks, remove, construct, destroy, BecomesReady,
       doPendFunc, pollAgain, handleEvent, kernelVars, arrayVars, vars
<1> QED
  BY <1>1, <1>2, Invariance, PTL DEF Spec
=============================================================================
