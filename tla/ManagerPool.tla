---------------------------- MODULE ManagerPool -----------------------------
(***************************************************************************)
(* The threads of a Server: Server::start has ManagerPool::start create    *)
(* one Manager after the other, each of which starts a Thread and waits    *)
(* until that has made its EventLoop, and then has the Acceptor listen;    *)
(* ~ManagerPool destroys the Managers one after the other.                 *)
(*                                                                         *)
(* main is the thread that owns the pool, at the manager `cur`.  What is   *)
(* done under a Manager's mutex_ is one step.  Of an EventLoop there is    *)
(* only quit_ and whether it exists; that a loop() told to quit returns is *)
(* QuitStops of EventLoop.tla.                                             *)
(***************************************************************************)
EXTENDS Naturals

CONSTANTS
    threads_num,    \* set by setThreadNum
    MaxStarts       \* bound: calls of Server::start

ASSUME ThreadsAssumption == threads_num \in Nat /\ MaxStarts \in Nat

VARIABLES
    main, cur,      \* control point of the owner, and the Manager it is at
    started,        \* started_ of the Server: calls of start()
    listening,      \* is_listen_ of its Acceptor
    thread,         \* of each Manager, the control point of its thread
    loop,           \* of each Manager, loop_ is not null
    quit,           \* of each EventLoop, quit_
    loops           \* loops_ of the pool: whose loop startLoop has returned

serverVars == <<started, listening>>
ownerVars == <<main, cur, serverVars, loops>>
shared == <<thread, loop, quit>>
vars == <<main, cur, started, listening, thread, loop, quit, loops>>

Managers == 1 .. threads_num
Starting == {"start", "sem", "lock", "wait"}

TypeOK ==
    /\ main \in Starting \cup {"new", "listen", "serve", "dtor", "quit", "wakeup",
                             "join", "gone"}
    /\ cur \in Managers \cup {1}
    /\ started \in 0 .. MaxStarts
    /\ listening \in BOOLEAN
    /\ thread \in [Managers -> {"none", "started", "running", "built", "published",
                                "looping", "stopped", "reset", "done"}]
    /\ loop \in [Managers -> BOOLEAN]
    /\ quit \in [Managers -> BOOLEAN]
    /\ loops \subseteq Managers

Init ==
    /\ main = "new"
    /\ cur = 1
    /\ started = 0
    /\ listening = FALSE
    /\ thread = [i \in Managers |-> "none"]
    /\ loop = [i \in Managers |-> FALSE]
    /\ quit = [i \in Managers |-> FALSE]
    /\ loops = {}

-----------------------------------------------------------------------------
(* The owner *)

\* Variant of first: started_ is not looked at.
firstOrNot == TRUE

first == started = 0

\* Server::start: only the first call does something, one that comes while the
\* pool is being started or afterwards does not.
start ==
    /\ started < MaxStarts
    /\ main # "gone"
    /\ started' = started + 1
    /\ main' = IF first THEN IF threads_num = 0 THEN "listen" ELSE "start" ELSE main
    /\ UNCHANGED <<cur, listening, shared, loops>>

\* The owner goes from p to q, at the Manager cur.
moves(p, q) ==
    /\ main = p
    /\ cur \in Managers
    /\ main' = q
    /\ UNCHANGED <<cur, serverVars>>

\* Variant of next: one too far.
nextPastEnd(again, p) ==
    IF cur <= threads_num
    THEN main' = again /\ cur' = cur + 1
    ELSE main' = p /\ cur' = 1

\* Done with the Manager cur: the next one, or the point p after the last.
next(again, p) ==
    IF cur < threads_num
    THEN main' = again /\ cur' = cur + 1
    ELSE main' = p /\ cur' = 1

\* Thread::start creates the thread, ...
threadStart ==
    /\ moves("start", "sem")
    /\ thread' = [thread EXCEPT ![cur] = "started"]
    /\ UNCHANGED <<loop, quit, loops>>

\* ... and waits until it runs.
semWait ==
    /\ moves("sem", "lock")
    /\ thread[cur] # "started"
    /\ UNCHANGED <<shared, loops>>

\* Variant of loopThere: loop_ is not looked at again after the wait.
loopThereAnyway == TRUE

loopThere == loop[cur]

\* startLoop: the loop is there, ...
startLoopReturns ==
    /\ main = "lock" /\ cur \in Managers
    /\ loopThere
    /\ loops' = loops \cup {cur}
    /\ next("start", "listen")
    /\ UNCHANGED <<serverVars, shared>>

\* ... or the condition variable is waited on.
startLoopWaits ==
    /\ moves("lock", "wait")
    /\ ~loopThere
    /\ UNCHANGED <<shared, loops>>

\* wait() may return without a notify_one().
spuriousWakeup ==
    /\ moves("wait", "lock")
    /\ UNCHANGED <<shared, loops>>

\* Acceptor::listen, by runinLoop on the base loop.
listen ==
    /\ main = "listen"
    /\ main' = "serve"
    /\ listening' = TRUE
    /\ UNCHANGED <<cur, started, shared, loops>>

\* The Server, and with it the pool, is destroyed, started or not.
destroyPool ==
    /\ main \in {"new", "serve"}
    /\ main' = IF loops = {} THEN "gone" ELSE "dtor"
    /\ cur' = 1
    /\ UNCHANGED <<serverVars, shared, loops>>

\* ~Manager reads loop_ without the lock.  Null: ~Thread detaches the thread.
destroyManager ==
    /\ main = "dtor" /\ cur \in Managers
    /\ IF loop[cur] THEN main' = "quit" /\ UNCHANGED cur
                    ELSE next("dtor", "gone")
    /\ UNCHANGED <<serverVars, shared, loops>>

\* Variant of told: the flag is not set.
toldNot == quit

told == [quit EXCEPT ![cur] = TRUE]

\* loop_->quit(): the flag, ...
quitLoop ==
    /\ moves("quit", "wakeup")
    /\ quit' = told
    /\ UNCHANGED <<thread, loop, loops>>

\* ... and the wakeup, for which the loop may not have waited.
wakeupLoop ==
    /\ moves("wakeup", "join")
    /\ UNCHANGED <<shared, loops>>

\* Variant of ended: the thread is not waited for.
endedOrNot == TRUE

ended == thread[cur] = "done"

join ==
    /\ main = "join" /\ cur \in Managers
    /\ ended
    /\ next("dtor", "gone")
    /\ UNCHANGED <<serverVars, shared, loops>>

-----------------------------------------------------------------------------
(* The thread of Manager i *)

goes(i, from, to) ==
    /\ thread[i] = from
    /\ thread' = [thread EXCEPT ![i] = to]

semPost(i) ==
    /\ goes(i, "started", "running")
    /\ UNCHANGED <<ownerVars, loop, quit>>

\* threadFunc: the EventLoop is constructed and the user's callback_ run.
build(i) ==
    /\ goes(i, "running", "built")
    /\ UNCHANGED <<ownerVars, loop, quit>>

\* Variant of notified: nobody is notified.
notifiedNot(i) == main

notified(i) == IF main = "wait" /\ cur = i THEN "lock" ELSE main

\* loop_ is set under the lock and the one that waits notified.
publish(i) ==
    /\ goes(i, "built", "published")
    /\ loop' = [loop EXCEPT ![i] = TRUE]
    /\ main' = notified(i)
    /\ UNCHANGED <<cur, serverVars, quit, loops>>

\* loop() begins with quit_ = false.
enterLoop(i) ==
    /\ goes(i, "published", "looping")
    /\ quit' = [quit EXCEPT ![i] = FALSE]
    /\ UNCHANGED <<ownerVars, loop>>

\* A callback of the user on that loop quits it; one queued by the thread's
\* callback_ may do so before start() has returned.
userQuits(i) ==
    /\ thread[i] = "looping"
    /\ quit' = [quit EXCEPT ![i] = TRUE]
    /\ UNCHANGED <<ownerVars, thread, loop>>

leaveLoop(i) ==
    /\ quit[i]
    /\ goes(i, "looping", "stopped")
    /\ UNCHANGED <<ownerVars, loop, quit>>

resetLoop(i) ==
    /\ goes(i, "stopped", "reset")
    /\ loop' = [loop EXCEPT ![i] = FALSE]
    /\ UNCHANGED <<ownerVars, quit>>

\* The lock is released, the EventLoop destroyed, and the thread ends.
returnFromThread(i) ==
    /\ goes(i, "reset", "done")
    /\ UNCHANGED <<ownerVars, loop, quit>>

-----------------------------------------------------------------------------
OwnerStep ==
    \/ threadStart \/ semWait \/ startLoopReturns \/ startLoopWaits \/ listen
    \/ destroyManager \/ quitLoop \/ wakeupLoop \/ join

ThreadStep(i) ==
    \/ semPost(i) \/ build(i) \/ publish(i) \/ enterLoop(i) \/ leaveLoop(i)
    \/ resetLoop(i) \/ returnFromThread(i)

Next ==
    \/ OwnerStep
    \/ spuriousWakeup
    \/ start \/ destroyPool
    \/ \E i \in Managers : ThreadStep(i) \/ userQuits(i)

Spec == Init /\ [][Next]_vars

\* Every thread keeps running; no spurious wakeup is relied on.
FairSpec ==
    /\ Spec
    /\ WF_vars(OwnerStep)
    /\ \A i \in Managers : WF_vars(ThreadStep(i))

-----------------------------------------------------------------------------
(* Properties *)

Exists(i) == thread[i] \in {"built", "published", "looping", "stopped", "reset"}

\* When the pool is gone no thread of it is in a loop() or before it: all the
\* last one can still do is return.
NoneLeftRunning ==
    main = "gone" => \A i \in Managers : thread[i] \in {"none", "reset", "done"}

\* start() returns only loops that have been made: no spurious wakeup, and no
\* thread that is slow, puts a null pointer into loops_; and no connection is
\* accepted before loops_ is complete, however often start() is called.
LoopsMade ==
    /\ \A i \in loops : Exists(i) \/ thread[i] = "done"
    /\ listening \/ main = "listen" => main \notin Starting /\ loops = Managers

\* startLoop() has yet to look at a loop_ that was set and is null again, since
\* the loop was quit meanwhile: it waits, and nobody is left to notify it.
LoopMissed == main \in {"lock", "wait"} /\ thread[cur] \in {"reset", "done"}

\* start() returns: the notify_one() is not missed, whichever thread is first, and
\* only a loop that is quit before startLoop() has seen it keeps it waiting.
StartReturns == (main = "start") ~> (listening \/ LoopMissed)

\* ~ManagerPool returns if every thread is in its loop() when it begins, with
\* its loop quit by the user meanwhile or not.
PoolStops ==
    (main = "dtor" /\ cur = 1 /\ \A i \in Managers : thread[i] = "looping")
        ~> (main = "gone")

\* What a comment of the source says and the code does not always do.

\* "Quit the EventLoop and the Thread": ~ManagerPool always returns.
DestructorReturns == (main = "dtor") ~> (main = "gone")
=============================================================================
