------------------------------- MODULE Epoller -------------------------------
(***************************************************************************)
(* The Epoller of one loop and the Fileds registered with it: what each    *)
(* Filed asks for, its index_, the map fileds_, the array events_ that     *)
(* epoll_wait fills, and the interest list the kernel keeps.               *)
(*                                                                         *)
(* A Filed belongs to an Acceptor, a Connection or the loop itself, is     *)
(* constructed for an open descriptor, and destroyed after its remove();   *)
(* the descriptor is closed then and may be opened again for another one.  *)
(* (Server.tla shows that a Connection is removed before it is freed.)     *)
(* The loop repeats poll, events, functors; handlers and functors call     *)
(* enable and disable, only functors call remove, and other threads may    *)
(* construct and destroy a Filed at any time.                              *)
(***************************************************************************)
EXTENDS Integers, Sequences, FiniteSets, SequencesExt, FiniteSetsExt

CONSTANTS
    Fileds,         \* objects; one may be constructed again once destroyed
    Fds,            \* the descriptors the process may have open
    Sizes,          \* kEventListSize, scaled down: each value is tried
    SizeMax, IntMax,    \* the largest size_t and int, scaled down
    None            \* no Filed, no descriptor, no registration

Mask == SUBSET {"in", "out"}
Registration == [ptr : Fileds, mask : Mask]

ASSUME EpollerAssumption ==
    /\ IsFiniteSet(Fds)
    /\ Sizes \subseteq Nat \ {0}
    /\ SizeMax \in Nat /\ IntMax \in Nat /\ 2 * IntMax < SizeMax
    /\ Cardinality(Fds) <= IntMax
    /\ \A n \in Sizes \cup {2 * (Cardinality(Fds) + 1)} : n <= SizeMax
    /\ None \notin Fds \cup Fileds \cup Registration

VARIABLES
    phase,          \* of the loop
    active,         \* activeFileds_, not handled yet
    fdOf, events, index,    \* fd_, events_ and index_ of each Filed
    fileds,         \* fileds_: from descriptors to Fileds
    size,           \* events_.size()
    filled,         \* the pointers that the last call to report any has left in it
    interest,       \* the kernel: what is registered for each descriptor,
    ready,          \* whether it has something to report,
    rotation,       \* and whose turn it is to be reported
    failed          \* LOG_FATAL has been called; the process would end there

loopVars == <<phase, active>>
filedVars == <<fdOf, events, index>>
kernelVars == <<interest, ready, rotation, failed>>
arrayVars == <<size, filled>>
vars == <<phase, active, fdOf, events, index, fileds, size, filled, interest, ready,
          rotation, failed>>

Exists(f) == fdOf[f] # None
Init ==
    /\ phase = "functors"       \* before loop(), calls are made as by functors
    /\ active = {}
    /\ fdOf = [f \in Fileds |-> None]
    /\ events = [f \in Fileds |-> {}]
    /\ index = [f \in Fileds |-> "kNew"]
    /\ fileds = [fd \in Fds |-> None]
    /\ size \in Sizes
    /\ filled = {}
    /\ interest = [fd \in Fds |-> None]
    /\ ready = [fd \in Fds |-> "no"]
    /\ rotation = SetToSeq(Fds)
    /\ failed = FALSE

-----------------------------------------------------------------------------
(* The kernel, as the code uses it: level-triggered epoll *)

\* A hangup is reported whatever the mask.
Reports(reg, r) == reg # None /\ (r = "hup" \/ (r = "io" /\ reg.mask # {}))
Reportable == {fd \in Fds : Reports(interest[fd], ready[fd])}

\* A descriptor with something new to report goes to the end of the ready list.
enlist(fd, reg, r) ==
    rotation' = IF Reports(reg, r) /\ fd \notin Reportable
                THEN SelectSeq(rotation, LAMBDA g : g # fd) \o <<fd>>
                ELSE rotation

\* At most size are reported, those first that have waited longest.
Before(fd) == {g \in Reportable :
                  \E i, j \in DOMAIN rotation :
                     i < j /\ rotation[i] = g /\ rotation[j] = fd}
Reported == {fd \in Reportable : Cardinality(Before(fd)) < size}

epoll_ctl(op, f, mask) ==
    LET fd == fdOf[f]
        fits == (op = "ADD") <=> (interest[fd] = None)
        reg == IF op = "DEL" THEN None ELSE [ptr |-> f, mask |-> mask]
    IN  /\ interest' = IF fits THEN [interest EXCEPT ![fd] = reg] ELSE interest
        /\ enlist(fd, interest'[fd], ready[fd])
        /\ failed' = (failed \/ (~fits /\ op # "DEL"))

\* Data, room in the send buffer, or a hangup.
BecomesReady(fd, r) ==
    /\ \E f \in Fileds : fdOf[f] = fd
    /\ <<ready[fd], r>> \in {<<"no", "io">>, <<"no", "hup">>, <<"io", "hup">>}
    /\ ready' = [ready EXCEPT ![fd] = r]
    /\ enlist(fd, interest[fd], r)
    /\ UNCHANGED <<loopVars, filedVars, fileds, arrayVars, interest, failed>>

-----------------------------------------------------------------------------
(* Epoller and Filed *)

\* Variant of operation: a Filed that was registered once is modified.
operationForgetsDeleted(f, e) ==
    IF index[f] = "kNew" THEN "ADD" ELSE IF e = {} THEN "DEL" ELSE "MOD"

operation(f, e) ==
    IF index[f] # "kAdded" THEN "ADD" ELSE IF e = {} THEN "DEL" ELSE "MOD"

\* Filed::update and Epoller::update, when events_ becomes e.  A Filed that is
\* not registered is registered, even by disableAll(), for nothing then.
update(f, e) ==
    /\ events' = [events EXCEPT ![f] = e]
    /\ fileds' = [fileds EXCEPT ![fdOf[f]] = IF index[f] = "kNew" THEN f ELSE @]
    /\ index' = [index EXCEPT ![f] = IF operation(f, e) = "DEL" THEN "kDeleted" ELSE "kAdded"]
    /\ epoll_ctl(operation(f, e), f, e)

enableReading(f) == update(f, events[f] \cup {"in"})
disableReading(f) == update(f, events[f] \ {"in"})
enableWriting(f) == update(f, events[f] \cup {"out"})
disableWriting(f) == update(f, events[f] \ {"out"})
disableAll(f) == update(f, {})

Asks(f) ==
    /\ phase \in {"events", "functors"}
    /\ Exists(f)
    /\ \/ enableReading(f) \/ disableReading(f)
       \/ enableWriting(f) \/ disableWriting(f)
       \/ disableAll(f)
    /\ UNCHANGED <<loopVars, fdOf, arrayVars, ready>>

\* Variant of erased: the entry stays.
erasedNot(f) == fileds

erased(f) == [fileds EXCEPT ![fdOf[f]] = None]

\* Variant of forget: a registered Filed stays registered.
forgetNot(f) == UNCHANGED <<interest, rotation, failed>>

forget(f) ==
    IF index[f] = "kAdded" THEN epoll_ctl("DEL", f, {})
                           ELSE UNCHANGED <<interest, rotation, failed>>

\* Filed::remove and Epoller::remove; events_ stays as it is.
remove(f) ==
    /\ phase = "functors"
    /\ Exists(f)
    /\ fileds' = erased(f)
    /\ forget(f)
    /\ index' = [index EXCEPT ![f] = "kNew"]
    /\ UNCHANGED <<loopVars, fdOf, events, arrayVars, ready>>

\* socket() or accept() and the Filed for it.
construct(f) ==
    /\ ~Exists(f)
    /\ \E fd \in Fds \ {fdOf[g] : g \in Fileds} : fdOf' = [fdOf EXCEPT ![f] = fd]
    /\ events' = [events EXCEPT ![f] = {}]
    /\ index' = [index EXCEPT ![f] = "kNew"]
    /\ UNCHANGED <<loopVars, fileds, arrayVars, kernelVars>>

\* The owner goes: the descriptor is closed, and the kernel drops what is
\* registered for it.
destroy(f) ==
    /\ Exists(f)
    /\ index[f] = "kNew"
    /\ fdOf' = [fdOf EXCEPT ![f] = None]
    /\ events' = [events EXCEPT ![f] = {}]
    /\ interest' = [interest EXCEPT ![fdOf[f]] = None]
    /\ ready' = [ready EXCEPT ![fdOf[f]] = "no"]
    /\ UNCHANGED <<loopVars, index, fileds, arrayVars, rotation, failed>>

-----------------------------------------------------------------------------
(* The loop *)

\* Variant of asInt: the parameter of fillActiveFileds is a size_t.
asSize(u) == u

\* The conversions between int and size_t; what is met is near zero in both.
asSize_t(i) == IF i >= 0 THEN i ELSE SizeMax + 1 + i
asInt(u) == IF u <= IntMax THEN u ELSE u - (SizeMax + 1)

\* Variant of fillActiveFileds: one short of the end.
fillAllButOne(n, S) == {f \in S : \E g \in S : fdOf[f] \in Before(fdOf[g])}

\* The first n entries, and S are the pointers in them.  Filed pointers come from the
\* kernel, not from fileds_.
fillActiveFileds(n, S) == IF n > 0 THEN S ELSE {}

\* Variant of grown: whenever there was room left.
grownIfRoom(n) == IF n <= size - 1 THEN 2 * size ELSE size

\* events_ doubles when all of it but one entry was used, and only then.
grown(n) == IF n = size - 1 THEN 2 * size ELSE size

\* epoll_wait has returned r and S is what it has filled in, or an earlier call has:
\* events_num is unsigned, so that -1 counts as events that happened.
returns(r, S) ==
    /\ phase = "poll"
    /\ phase' = "events"
    /\ filled' = S
    /\ LET events_num == asSize_t(r)
       IN  IF events_num > 0
           THEN active' = fillActiveFileds(asInt(events_num), S) /\ size' = grown(events_num)
           ELSE active' = {} /\ UNCHANGED size
    /\ UNCHANGED <<filedVars, fileds, interest, ready, failed>>

epoll ==
    /\ Reportable # {}
    /\ returns(Cardinality(Reported), {interest[fd].ptr : fd \in Reported})
    /\ rotation' = SelectSeq(rotation, LAMBDA fd : fd \notin Reported)
                   \o SelectSeq(rotation, LAMBDA fd : fd \in Reported)

\* No event: the time is up, or a signal came while there was none.
epollNothing ==
    /\ Reportable = {}
    /\ \E r \in {0, -1} : returns(r, filled)
    /\ UNCHANGED rotation

\* One Filed's callbacks have run: what was ready is read, or is not.
handleEvent(f) ==
    /\ phase = "events"
    /\ f \in active
    /\ active' = active \ {f}
    /\ \/ UNCHANGED ready
       \/ Exists(f) /\ ready[fdOf[f]] = "io" /\ ready' = [ready EXCEPT ![fdOf[f]] = "no"]
    /\ UNCHANGED <<phase, filedVars, fileds, arrayVars, interest, rotation, failed>>

\* Variant of doPendFunc: some of the events may be left for the next turn.
doPendFuncEarly ==
    /\ phase = "events"
    /\ phase' = "functors"
    /\ UNCHANGED <<active, filedVars, fileds, arrayVars, kernelVars>>

doPendFunc ==
    /\ phase = "events"
    /\ active = {}
    /\ phase' = "functors"
    /\ UNCHANGED <<active, filedVars, fileds, arrayVars, kernelVars>>

pollAgain ==
    /\ phase = "functors"
    /\ phase' = "poll"
    /\ UNCHANGED <<active, filedVars, fileds, arrayVars, kernelVars>>

LoopSteps ==
    \/ epoll \/ doPendFunc \/ pollAgain
    \/ \E f \in Fileds : handleEvent(f)

Next ==
    \/ \E f \in Fileds : Asks(f) \/ remove(f) \/ construct(f) \/ destroy(f)
    \/ \E fd \in Fds, r \in {"io", "hup"} : BecomesReady(fd, r)
    \/ epollNothing
    \/ LoopSteps

Spec == Init /\ [][Next]_vars

\* The loop's thread goes on; no help from the time limit of epoll_wait.
FairSpec == Spec /\ WF_vars(LoopSteps)

-----------------------------------------------------------------------------
(* Properties *)

\* The state's types, and: activeFileds_ is empty outside the handling of events.
TypeOK ==
    /\ phase \in {"poll", "events", "functors"}
    /\ active \subseteq Fileds
    /\ phase # "events" => active = {}
    /\ fdOf \in [Fileds -> Fds \cup {None}]
    /\ \A f, g \in Fileds : Exists(f) /\ fdOf[f] = fdOf[g] => f = g
    /\ events \in [Fileds -> Mask]
    /\ index \in [Fileds -> {"kNew", "kAdded", "kDeleted"}]
    /\ fileds \in [Fds -> Fileds \cup {None}]
    /\ size \in Nat \ {0}
    /\ filled \subseteq Fileds
    /\ interest \in [Fds -> Registration \cup {None}]
    /\ ready \in [Fds -> {"no", "io", "hup"}]
    /\ failed \in BOOLEAN

\* The kernel has registered exactly the Fileds whose index_ is kAdded, each
\* with what its events_ ask for and a pointer to this Filed.
KernelAgrees ==
    /\ \A f \in Fileds : Exists(f) =>
          interest[fdOf[f]] = IF index[f] = "kAdded"
                              THEN [ptr |-> f, mask |-> events[f]] ELSE None
    /\ \A fd \in Fds : interest[fd] # None => \E f \in Fileds : fdOf[f] = fd

\* fileds_ holds exactly the Fileds whose index_ is not kNew, across the reuse
\* of descriptors: the assertions of Epoller::update hold.
MapAgrees ==
    /\ \A f \in Fileds : Exists(f) => ((index[f] # "kNew") <=> (fileds[fdOf[f]] = f))
    /\ \A fd \in Fds : fileds[fd] # None => fdOf[fileds[fd]] = fd

\* No Filed the loop is about to call has been destroyed: neither one the kernel
\* has just reported by its pointer, nor one later in the list.
ReportedAlive == \A f \in active : Exists(f)

\* epoll_ctl never refuses an ADD or a MOD, which would end the process.
NeverFatal == ~failed

\* However often it doubles, events_ follows the number of descriptors.
SizeBounded ==
    \/ size \in Sizes
    \/ size <= 2 * (Cardinality(Fds) + 1)

\* A Filed that asks for something and whose descriptor is ready is handled, even
\* when events_ is full each time and, full, does not grow.
Due(f) ==
    /\ Exists(f)
    /\ index[f] = "kAdded"
    /\ events[f] # {}
    /\ ready[fdOf[f]] # "no"
ReadyServed == \A f \in Fileds : Due(f) ~> (~Due(f) \/ f \in active)
=============================================================================
