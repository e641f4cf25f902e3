----------------------------- MODULE EventLoop -----------------------------
(***************************************************************************)
(* One EventLoop (src/EventLoop.cpp): the thread that runs loop(), and the *)
(* other threads that call queueinLoop(), runinLoop() and quit() on it.    *)
(*                                                                         *)
(* The loop thread is a control point `at` that follows loop():            *)
(*   created  -> check -> poll -> events <-> callback                      *)
(*                  ^               |                                      *)
(*                  +-- functors <--+      functors <-> functor            *)
(*                  +-> exited                                             *)
(* "callback" and "functor" are the bodies of user code: while in one, the *)
(* thread may itself call queueinLoop, runinLoop and quit.  Another thread *)
(* is between two calls ("idle") or has pushed a callback or set quit_ and *)
(* not yet written to the wakeup descriptor ("wakeup").                    *)
(***************************************************************************)
EXTENDS Naturals, Sequences, SequencesExt

CONSTANTS
    Threads,        \* the threads that are not the loop's own
    Tasks,          \* the callbacks handed over, one per call
    PreLoop         \* those the loop's own thread queues before loop()

ASSUME PreLoopAssumption == PreLoop \subseteq Tasks

VARIABLES
    at,             \* control point of the loop's own thread
    quit,           \* quit_
    calling,        \* isCallPendFunc_
    wakeable,       \* the eventfd counter is not zero: wakeupFd_ is readable
    ioReady,        \* some other registered descriptor is readable
    active,         \* activeFileds_: what epoll_wait reported, not yet handled
    pendFuncs,      \* pendFuncs_, guarded by mutex_
    functors,       \* the vector doPendFunc swapped out, not yet run
    pc,             \* of each other thread
    ran, inline     \* history: callbacks started from the queue, or at once

loopVars == <<at, quit, calling, active>>
fdVars == <<wakeable, ioReady>>
history == <<ran, inline>>
others == <<fdVars, pendFuncs, functors, pc, history>>
vars == <<at, quit, calling, wakeable, ioReady, active, pendFuncs, functors,
          pc, ran, inline>>

Points == {"created", "check", "poll", "events", "callback",
           "functors", "functor", "exited"}

TypeOK ==
    /\ at \in Points
    /\ quit \in BOOLEAN
    /\ calling \in BOOLEAN
    /\ wakeable \in BOOLEAN
    /\ ioReady \in BOOLEAN
    /\ active \subseteq {"wakeup", "io"}
    /\ calling <=> at \in {"functors", "functor"}
    /\ pendFuncs \in Seq(Tasks)
    /\ functors \in Seq(Tasks)
    /\ pc \in [Threads -> {"idle", "wakeup"}]
    /\ ran \in Seq(Tasks)
    /\ inline \subseteq Tasks

Fresh(t) == t \notin ToSet(pendFuncs) \cup ToSet(functors) \cup ToSet(ran) \cup inline

Init ==
    /\ at = "created"
    /\ quit = FALSE
    /\ calling = FALSE
    /\ wakeable = FALSE
    /\ ioReady = FALSE
    /\ active = {}
    /\ pendFuncs = <<>>
    /\ functors = <<>>
    /\ pc = [p \in Threads |-> "idle"]
    /\ ran = <<>>
    /\ inline = {}

-----------------------------------------------------------------------------
(* The other threads.  On one of them isLoopThread() is false, so          *)
(* runinLoop() is queueinLoop() and every call ends in wakeup().           *)

push(t) ==
    /\ Fresh(t)
    /\ pendFuncs' = Append(pendFuncs, t)

\* Variant of goesToWake: the wakeup is forgotten.
goesToWakeNot(p) == pc

goesToWake(p) == [pc EXCEPT ![p] = "wakeup"]

\* The lock is released between the push and the wakeup: two steps.
queueinLoop(p, t) ==
    /\ pc[p] = "idle"
    /\ t \notin PreLoop
    /\ push(t)
    /\ pc' = goesToWake(p)
    /\ UNCHANGED <<loopVars, fdVars, functors, history>>

\* quit() of another thread: the flag first, then the wakeup.
quitFromOutside(p) ==
    /\ pc[p] = "idle"
    /\ quit' = TRUE
    /\ pc' = goesToWake(p)
    /\ UNCHANGED <<at, calling, active, fdVars, pendFuncs, functors, history>>

wakeup(p) ==
    /\ pc[p] = "wakeup"
    /\ wakeable' = TRUE
    /\ pc' = [pc EXCEPT ![p] = "idle"]
    /\ UNCHANGED <<loopVars, ioReady, pendFuncs, functors, history>>

\* A peer sends something, or connects.
IoArrives ==
    /\ ~ioReady
    /\ ioReady' = TRUE
    /\ UNCHANGED <<loopVars, wakeable, pendFuncs, functors, pc, history>>

-----------------------------------------------------------------------------
(* The loop's own thread. *)

\* queueinLoop() on the loop's own thread before loop(): in a thread
\* initialisation callback, or in main().  Neither condition for wakeup().
queueBeforeLoop(t) ==
    /\ at = "created"
    /\ t \in PreLoop
    /\ push(t)
    /\ UNCHANGED <<loopVars, fdVars, functors, pc, history>>

enterLoop ==
    /\ at = "created"
    /\ quit' = FALSE
    /\ at' = "check"
    /\ UNCHANGED <<calling, active, others>>

checkQuit ==
    /\ at = "check"
    /\ at' = IF quit THEN "exited" ELSE "poll"
    /\ active' = {}
    /\ UNCHANGED <<quit, calling, others>>

ReadyFds == (IF wakeable THEN {"wakeup"} ELSE {}) \cup (IF ioReady THEN {"io"} ELSE {})

\* epoll_wait returns what is readable.
epollReturns ==
    /\ at = "poll"
    /\ ReadyFds # {}
    /\ active' = ReadyFds
    /\ at' = "events"
    /\ UNCHANGED <<quit, calling, others>>

\* epoll_wait returns nothing: kEpollTime elapsed, or a signal (EINTR).  What is
\* readable comes before either.
epollTimeout ==
    /\ at = "poll"
    /\ ReadyFds = {}
    /\ active' = {}
    /\ at' = "events"
    /\ UNCHANGED <<quit, calling, others>>

\* The callback of the wakeup descriptor writes to it, it does not read.
handelwakeupRead ==
    /\ at = "events"
    /\ "wakeup" \in active
    /\ active' = active \ {"wakeup"}
    /\ wakeable' = TRUE
    /\ UNCHANGED <<at, quit, calling, ioReady, pendFuncs, functors, pc, history>>

\* Another filed's handleEvent: its callback consumes what was ready.
handleEvent ==
    /\ at = "events"
    /\ "io" \in active
    /\ active' = active \ {"io"}
    /\ ioReady' = FALSE
    /\ at' = "callback"
    /\ UNCHANGED <<quit, calling, wakeable, pendFuncs, functors, pc, history>>

eventDone ==
    /\ at = "callback"
    /\ at' = "events"
    /\ UNCHANGED <<quit, calling, active, others>>

\* Variant of swapped: a copy.
copied == pendFuncs

\* What pendFuncs_ is after the swap with the empty functors.
swapped == <<>>

\* doPendFunc() up to the end of its critical section.  No other thread
\* reads isCallPendFunc_, so setting it and swapping are one step.
swapPendFuncs ==
    /\ at = "events"
    /\ active = {}
    /\ calling' = TRUE
    /\ functors' = pendFuncs
    /\ pendFuncs' = swapped
    /\ at' = "functors"
    /\ UNCHANGED <<quit, active, fdVars, pc, history>>

runFunctor ==
    /\ at = "functors"
    /\ functors # <<>>
    /\ ran' = Append(ran, Head(functors))
    /\ functors' = Tail(functors)
    /\ at' = "functor"
    /\ UNCHANGED <<quit, calling, active, fdVars, pendFuncs, pc, inline>>

functorDone ==
    /\ at = "functor"
    /\ at' = "functors"
    /\ UNCHANGED <<quit, calling, active, others>>

\* Variant of callsNoMore: isCallPendFunc_ stays set.
callsStill == calling

callsNoMore == FALSE

doPendFuncDone ==
    /\ at = "functors"
    /\ functors = <<>>
    /\ calling' = callsNoMore
    /\ at' = "check"
    /\ UNCHANGED <<quit, active, others>>

InUserCode == at \in {"callback", "functor"}

\* Variant of wakesItself: only other threads wake the loop.
wakesItselfNot == FALSE

wakesItself == calling

\* queueinLoop() called by code the loop runs: wakeup() only inside
\* doPendFunc.  The push and the wakeup are one step: the only reader of the
\* queue is this very thread.
queueFromLoop(t) ==
    /\ InUserCode
    /\ t \notin PreLoop
    /\ push(t)
    /\ wakeable' = (wakeable \/ wakesItself)
    /\ UNCHANGED <<loopVars, ioReady, functors, pc, history>>

\* runinLoop() called by code the loop runs: the callback runs at once.
runinLoop(t) ==
    /\ InUserCode
    /\ t \notin PreLoop
    /\ Fresh(t)
    /\ inline' = inline \cup {t}
    /\ UNCHANGED <<loopVars, fdVars, pendFuncs, functors, pc, ran>>

quitFromLoop ==
    /\ InUserCode
    /\ quit' = TRUE
    /\ UNCHANGED <<at, calling, active, others>>

-----------------------------------------------------------------------------
LoopSteps ==
    \/ enterLoop \/ checkQuit \/ epollReturns \/ handelwakeupRead
    \/ handleEvent \/ eventDone \/ swapPendFuncs \/ runFunctor \/ functorDone
    \/ doPendFuncDone

Next ==
    \/ \E p \in Threads :
          \/ \E t \in Tasks : queueinLoop(p, t)
          \/ quitFromOutside(p)
          \/ wakeup(p)
    \/ \E t \in Tasks : queueBeforeLoop(t) \/ queueFromLoop(t) \/ runinLoop(t)
    \/ quitFromLoop
    \/ IoArrives
    \/ epollTimeout
    \/ LoopSteps

Spec == Init /\ [][Next]_vars

\* The loop's thread keeps running and a thread that pushed reaches its
\* wakeup().  epollTimeout has no fairness: nothing below relies on the ten
\* seconds of kEpollTime to repair a lost wakeup.
Fairness ==
    /\ WF_vars(LoopSteps)
    /\ \A p \in Threads : WF_vars(wakeup(p))

FairSpec == Spec /\ Fairness

-----------------------------------------------------------------------------
(* Properties *)

\* A write to the wakeup descriptor has happened or is about to.
Signalled == wakeable \/ \E p \in Threads : pc[p] = "wakeup"

\* The loop blocks in epoll_wait with nobody about to wake it only when it
\* was not told to quit and every callback still queued was queued by its own
\* thread before loop(): the push, the flag isCallPendFunc_, the swap and the
\* wakeup cannot interleave so that a callback or a quit() is slept on.
SleepsOnlyWhenIdle ==
    (at = "poll" /\ ~Signalled) => (~quit /\ ToSet(pendFuncs) \subseteq PreLoop)

\* The loop implements the queue it promises: callbacks run at most once, in
\* the order of the pushes, across the swap of pendFuncs_ with functors.
Promise == INSTANCE TaskQueue WITH queue <- functors \o pendFuncs
ImplementsTaskQueue == Promise!Spec

\* A callback another thread or the loop itself queues is run, without the
\* help of the epoll timeout, unless somebody calls quit().
QueuedRuns ==
    \A t \in Tasks \ PreLoop :
        (t \in ToSet(pendFuncs)) ~> (t \in ToSet(ran) \/ quit)

\* A loop() that has begun and is told to quit returns.
QuitStops == (quit /\ at # "created") ~> (at = "exited")

\* What a comment of the source says and the code does not do.

\* A loop with nothing to do ends up blocked in epoll_wait, where a later
\* queueinLoop of another thread finds it.
Idle ==
    /\ pendFuncs = <<>>
    /\ ~ioReady
    /\ ~quit
    /\ \A p \in Threads : pc[p] = "idle"
IdleLoopBlocks == <>[]Idle => []<>(at = "poll" /\ ReadyFds = {})
=============================================================================
