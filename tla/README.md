# Lucky: a verification project

Lucky is a TCP server library in C++11 built around reactors: one thread per
`EventLoop`, one `Epoller` per loop, and a `Connection` per client that lives on
one of the loops. This directory holds TLA+ specifications of it, the TLC runs
that check them on small instances, and proofs that TLAPS checks for every
instance. Every definition was written from the code in `src/`; `PROJECT.json`
gives the lines for each ("map"), the runs, the mutants that show each property
can be violated by a plausible mistake, and the hazards the properties are for.

The tree does not compile as it is at this commit (`Address::getSockAddr` and
`setSockAddr` are commented out but used by `Socket.cpp`, `Filed.cpp` uses
`std::array` without its header, `ThreadID.h` defines functions that are not
inline). None of this bears on the control flow that is modelled; the models
take the missing accessors for what their callers need.

## 1. Inventory

| Component | State | Operations | Interacts with |
|---|---|---|---|
| `EventLoop` | `quit_`, `isCallPendFunc_`, `pendFuncs_` under `mutex_`, `wakeupFd_`, `activeFileds_` | `loop`, `quit`, `runinLoop`, `queueinLoop`, `wakeup`, `handelwakeupRead`, `doPendFunc` | called by every thread; calls `Filed::handleEvent` and the functors |
| `Epoller` | the epoll descriptor, `events_` (which grows), `fileds_` (descriptor to `Filed*`) | `epoll`, `fillActiveFileds`, `update`, `updateHelper`, `remove` | the kernel; fills `activeFileds_` with raw pointers |
| `Filed` | `events_`, `revents_`, `index_`, `tie_` | `enable*`, `disable*`, `handleEvent`, `remove` | its owner's four callbacks; `Epoller` through `EventLoop` |
| `Acceptor` | the listening socket and its `Filed` | `listen`, `handleRead` | `Server::newConnection` |
| `Server` | `connections_`, `nextConnId_`, `started_` | `start`, `newConnection`, `removeConnection`, `removeConnectionInLoop`, destructor | `ManagerPool`, `Connection`, the user's callbacks |
| `Connection` | `state_`, `filed_`, `inputBuffer_`, `outputBuffer_`, the callbacks | `send`, `shutdown` (any thread); `connectEstablished`, `handleRead`, `handleWrite`, `handleClose`, `handleError`, `connectDestroyed`, `sendinLoop`, `shutdownInLoop` (its loop) | the user, `Server`, its loop's queue |
| `Buffer` | a vector and two indices | `append`, `readFd`, `writeFd`, `retrieve*`, `makeSpace` | `Connection` |
| `ManagerPool`, `Manager`, `Thread` | `loops_`, `nextLoop_`; `loop_`, a mutex and a condition variable; a semaphore | `start`, `getNextLoop`; `startLoop`, `threadFunc`, destructor; `start`, `join` | create and destroy the loops |
| `Socket` | a descriptor, closed by the destructor | one system call each | kernel |
| `LuckyLog`, `Address`, `TimeStamp`, `ThreadID` | | logging, text, time, thread id | everything |

What is hard about it, and what makes each part correct:

* **Handing work to a loop.** The push is under a lock, the wakeup is not, and
  the loop swaps its queue while others push. Correct: nothing queued or quit is
  slept on; callbacks run at most once, in the order of the pushes.
* **The life of a connection.** It is closed on its loop, leaves the map on the
  base loop, and is destroyed on its loop again, each through a queue, while
  the kernel reports events and threads of the user hold pointers. It exists
  while a `shared_ptr` to it does, yet `Filed*` and some bound calls are raw.
  Correct: nothing calls into a freed connection; the user sees it connected,
  then its messages, then disconnected; it is freed in the end.
* **Descriptors.** A descriptor is closed with its connection and its number is
  given out again at once, while `fileds_` is keyed by it and the kernel keeps a
  raw `Filed*`. Correct: no `Epoller` keeps an entry of a dead connection or drops
  one of a living one, `index_` always says what the kernel has, no pointer that
  `epoll_wait` returns dangles, and nobody who is ready is passed over.
* **The end.** The base loop returns, `~Server` hands every connection back to its
  loop, the pool quits and joins the loops one after another, and what they have
  not run is destroyed with them. Correct: nothing is leaked, nothing is called
  that is gone, and a user who is not told of an end is one of the known cases.
* **Sending.** A direct `write()`, the rest in `outputBuffer_`, `EPOLLOUT`,
  and a `shutdown()` that has to wait. Correct: bytes leave once, in order;
  `EPOLLOUT` is asked for exactly when needed; shutdown cuts nothing off.
* **The buffer.** Contents that move and a vector that grows, with unsigned
  arithmetic throughout. Correct: indices in order, contents exact.
* **Threads.** A handshake over a condition variable, and destruction that
  quits and joins. Correct: `start()` returns loops that exist; the destructor
  returns and leaves no thread running.

## 2. Modules

| Module | Models | Built on |
|---|---|---|
| `TaskQueue` | abstract: what an EventLoop promises about callbacks | |
| `EventLoop` | `EventLoop.cpp`, one loop and any number of other threads | implements `TaskQueue` |
| `EventLoopProofs` | theorems about `EventLoop` | |
| `Epoller` | `Epoller.cpp`, `Filed`'s `enable*`/`disable*`/`remove`, the interest list of the kernel | |
| `EpollerProofs` | theorems about `Epoller` | |
| `ConnectionLife` | abstract: what a Server promises about connections | |
| `Server`, `MCServer` | `Acceptor`, `Server`, `Connection`, `Filed`, registration, `getNextLoop` on several loops, up to the destruction of all of them; instances of it | implements `ConnectionLife` |
| `ServerCalls`, `ServerProofs`, `ServerLife` | theorems about `Server`: its types, the invariant of its ownership and the calls of a connection; the turns of the loops, the end and what follows; what the user is told | |
| `OutputStream` | the sending side of one `Connection`, byte by byte | |
| `OutputStreamProofs` | theorems about `OutputStream` | |
| `ByteQueue` | abstract: what a Buffer promises | |
| `Buffer` | `Buffer.cpp` | implements `ByteQueue` |
| `BufferProofs` | theorems about `Buffer` | |
| `ManagerPool` | `ManagerPool.cpp`, `Manager.cpp`, `Thread.cpp`, `Server::start`, `Acceptor::listen` | |
| `ManagerPoolProofs` | theorems about `ManagerPool` | |

A definition called "Variant of X" is a mistake that X could contain; it is used
only to show that a property notices it.

### EventLoop

`at` is the control point of the loop's own thread: before `loop()`, at
`while (!quit_)`, in `epoll_wait`, among the reported events, in user code called
by an event, in `doPendFunc`, in user code called by a functor, after `loop()`.
Other threads are idle or between their push (or `quit_ = true`) and their
`wakeup()`. `wakeable` says that the eventfd counter is not zero. The two vectors
are `pendFuncs` and `functors`; together they are the abstract queue. Setting
`isCallPendFunc_` and the swap are one step because no other thread reads the flag.

`handelwakeupRead` is modelled as it is: it *writes* to the eventfd. So the
descriptor stays readable after the first wakeup. The liveness properties
hold anyway, and do not rely on the ten seconds of `kEpollTime`; what the
write costs is the run `EventLoopIdle`. `epollTimeout` is the end of an `epoll_wait`
that has nothing to report (`ReadyFds = {}`): a readable descriptor is always
reported, by `epollReturns`. With a callback that read the eventfd (`wakeable` cleared)
`IdleLoopBlocks` would hold in that instance: the write is what breaks it.

### Epoller

One `Epoller` with the `Fileds` of any owner: the Acceptor, connections, the
loop's own wakeup descriptor. `fdOf`, `events` and `index` are the members of each
`Filed`; `fileds` is `fileds_`, `size` is `events_.size()`, `active` is what is left
of `activeFileds_` in this turn; `filled` is what the last call that reported anything
left in the array. The kernel is `interest` (a pointer and a mask for
each descriptor, as `epoll_ctl` was given them), `ready`, and `rotation`, the order of
its ready list: level-triggered epoll reports at most `size` entries, those first
that have waited longest, and puts them behind the others. `failed` says that
`updateHelper` has reached its `LOG_FATAL`.

`update` is `Filed::update` with `Epoller::update` and `updateHelper`, for every
sequence of `enable*` and `disable*`, the pointless ones included: `disableAll` of a
`Filed` that is not registered is an `ADD` without events, as in `~Acceptor` of a
server that never listened. `remove` leaves `events_` alone, as the code does.
A `Filed` is constructed and destroyed any number of times, on any descriptor that is
free. Two premises come from the callers: `remove` is called by functors and not
by event handlers (`connectDestroyed` is always queued or run by `~Server`), and a `Filed`
is destroyed only with `index_` at `kNew`. The second is what `DeadForgotten` of
`Server.tla` says of connections. Before `loop()` calls are made as by functors.

The result of `epoll_wait` goes from `int` to `size_t` and back to `int`: `asSize_t` and
`asInt` convert with the largest values `SizeMax` and `IntMax`, so that -1 becomes
`SizeMax`, takes the branch of events that happened, and comes out of `asInt` as -1
again. If it did not, `fillActiveFileds` would take the pointers of an earlier call, which
may be destroyed: that is the mutant of `ReportedAlive`.

### Server

Each loop is a thread that executes calls. `todo[l]` is the stack of what is left
of the call in progress, so that `handleClose` is followed by the user's callback
and by `removeConnection` as steps of their own, between which other threads act.
A loop goes through `epoll` (the ready set is fixed there, with `revents`),
`handleEvent` per ready `Filed`, `swapPendFuncs`, `runFunctor`, `doPendFuncDone`.

`Alive(c)` is the reference count: the map of the Server, every functor queued or
run and still in the vector that `doPendFunc` iterates over (`kept`), the guard
of `handleEvent` and the copies in the frames below it, the local pointer in
`~Server`, and the pointers that threads of the user keep (`held`). What is
bound to a `shared_ptr` (`Owning`) counts; what is bound to a raw `this`
(`Raw`: `sendinLoop`, `shutdownInLoop`) does not. The descriptor of a connection is
free as soon as it is not alive, and `newConnection` may take it again.

`setEvents` is `Filed::update` with `Epoller::update`: `index` and `fileds` change as
there. `remove` is `Epoller::remove`. The kernel is `Revents` (what is readable,
writable, hung up, in error), `CanWrite`, and the peer, which sends, closes or resets.
`loops` is `loops_`, as long as the user asked for with `setThreadNum`; with
none every connection is on the base loop and `runinLoop` runs everything at once.

Assumptions of the module, each of them a bound or a premise of the code:

* `Careful`: a thread of the user drops its pointer only when no call it queued
  is waiting. Without it `ServerRawThis` shows the raw `this` go stale.
* A thread of the user has one call of each kind queued per connection (bound).
* SIGPIPE is ignored by the program; the library does not, and a write to a
  reset socket would otherwise end the process.
* A loop with something in `pend` does not stay in `epoll_wait`: that is
  `SleepsOnlyWhenIdle` of `EventLoop`, proved there.
* All that is ready is reported at once; with more than `events_` has room for, the rest
  comes in a later turn: that nobody waits for ever is `ReadyServed` of `Epoller`.
* `writeCompleteCallback_` makes no call, if there is one.
* An error of `accept()` is that of a connection that broke off, and takes it out of the
  backlog, or there is no descriptor left, and it stays.
* `loops_` is complete before the first connection (`LoopsMade` of `ManagerPool`), and a loop
  that is told to quit has entered `loop()` (what happens otherwise is
  `ManagerPoolHangs`).
* At the end no user thread keeps a connection of a loop that is destroyed: the
  code has no means against one that does, and its calls would use a dead `EventLoop`.

With `MayStop` the base loop may return whenever it would poll. Then `destroyServer` is
one turn of the loop in `~Server`, `quitLoop`, `leaveLoop` and `destroyLoop` the
destruction of the loops of the pool, one after another, and of the base loop at last. A loop
told to quit finishes its turn and returns with whatever was queued since its last
`doPendFunc`; `destroyLoop` destroys that without running it. All of it can happen
while the other loops run, connections are closing and user threads call.

### OutputStream

The bytes of one connection are numbered by string and position. `sendinLoop`
has one disjunct per outcome: given up, all taken, a part taken, nothing taken,
or something already waits. The order of the tests and assignments is kept:
after a partial `write()` the code tests an `errno` that this call has not set (a
choice, here) and keeps bytes from `data + 0`; after `-1` it keeps
bytes from `data - 1`. Strings queued by other threads are assumed to be kept by
the caller until they are sent, since the code binds `buff.c_str()`.

### Buffer

The methods are operators on a record with the size, the cells and both indices;
`readFd` distinguishes the free cells and `extrabuff` as `readv` does. Bytes are
numbered by their arrival. `New`, `append` and so on keep the names of the code.
`retrieveAsString(len)` is `Take`, with `len` not above `readableBytes()`, as its
only caller in the repository has it (the code does not check).

### ManagerPool

`main` is the thread that owns the pool; it starts a thread, waits for the
semaphore, takes the lock, waits on the condition variable (with spurious
wakeups), and later destroys the managers one by one. What happens under a
`Manager`'s mutex is one step; `~Manager` reads `loop_` without it, as in the code.
`start` is `Server::start`: `started_` is counted, the first call starts the pool and
then has the Acceptor `listen`, every other one, at whatever point it comes, does nothing.
The Server may also be destroyed without ever having been started. A loop can
be quit by the user's callbacks as soon as it is in `loop()`, before `start()` has returned
too: a thread initialisation callback is given the `EventLoop` and may queue a functor that quits it.

## 3. Runs

Deadlock is checked in `Epoller`, which never ends. The others do not check it: a
loop returns after `quit()`, peers may stay silent, and a pool is gone in the end. All
threads, callbacks, loops and `Fileds` are model values.

| Run | Expected | Question | Bounds |
|---|---|---|---|
| `EventLoop` | pass | lost wakeups, order, at most once, everything queued runs, quit stops | 2 other threads, 3 callbacks and 1 queued before `loop()` |
| `EventLoopIdle` | violation | does an idle loop block in `epoll_wait`? | 1 thread, 1 callback |
| `Epoller` | pass | `index_`, `fileds_` and the kernel agree, `epoll_ctl` is never refused, no dangling `Filed*`, growth, nobody passed over | 2 `Fileds`, 2 descriptors, `events_` of 1, 2 or 3 entries at first, an `int` up to 7, a `size_t` up to 255 |
| `ServerReuse` | pass | descriptors given out again; sends that race the close | 0 or 2 loops in the pool, 2 connections, 1 descriptor, 1 user thread that sends |
| `ServerStop` | pass | calls into freed connections, the promise to the user, liveness of close and shutdown, the whole teardown at any time, and that it leaks no connection | 0 or 1 loop in the pool, 1 connection, 1 message, 1 user thread that shuts down, callbacks that do nothing or send and shut down |
| `ServerRawThis` | violation | a user thread that is not `Careful` | 1 loop, 1 connection |
| `ServerReopened` | violation | one user thread that sends and shuts down | 1 loop, 1 connection |
| `Buffer` | pass | indices, contents, size, order of bytes | prepend 2, initial 3, extra 2, 12 bytes |
| `OutputStream` | pass | order of strings, EPOLLOUT, high water, shutdown, draining | 4 strings of up to 3 bytes, mark 4 |
| `OutputLost` | violation | are the bytes sent the bytes given? | 1 string of up to 2 bytes |
| `ManagerPool` | pass | the handshake, listening only when the loops are complete, and the destruction | 3 threads, 2 calls of `start()` |
| `ManagerPoolHangs` | violation | does `~Manager` always return? | 1 thread |

`OneIoLoop`, `Echo` and the other values of constants are in `MCServer`.

Why these bounds: a race on the queue needs two threads beside the loop and a
batch in progress while another is queued, which four callbacks allow. The life
of one connection does not depend on another except through descriptors and
`fileds_`; `ServerReuse` has two connections that are forced to share one
number, on the same loop and on different ones. One message per peer is enough for data to arrive
before, with or after the end of the stream. Two descriptors and two `Fileds` let each
`Filed` return on its own descriptor or on the other's, while the other is in any
state; `events_` of one entry is full in every turn, of two has room and is all but full
(so that it doubles) with one descriptor ready, and of three does so with two. A `size_t` of 255 is, like the real one, far above both twice the
largest `int` and any size of `events_`, so that only the value -1 can be mistaken. `Buffer` reaches several moves and
growths, and both branches of `makeSpace` at their exact boundary, with sizes this
small, since only sums and differences of sizes are compared. Strings of three bytes have a first, a middle and
a last byte; four strings cross the mark, drain and cross it again.

What the violations show (quoted in `PROJECT.json`, "findings"):

* `EventLoopIdle`: the wakeup callback writes instead of reading, so a loop that
  was woken once spins from then on: `epollReturns`, `handelwakeupRead`, an empty
  `doPendFunc`, and again.
* `ServerRawThis`: a queued `shutdown()` or `send()` may run on a freed connection.
* `ServerReopened`: `shutdown()` checks `state_`, then stores `kDisconnecting`; if the
  loop closes the connection in between, the store revives it: a queued send
  asks for `EPOLLOUT` on it, `handleClose` runs again, and the user may be told
  of its end twice.
* `OutputLost`: whenever `write()` does not take everything, the bytes kept are the
  wrong ones or none.
* `ManagerPoolHangs`: a pool destroyed before its thread has entered `loop()` joins
  for ever, since `loop()` begins with `quit_ = false`.

Also seen while modelling, and excepted by the properties rather than shown by a
run of their own:

* A callback the loop's own thread queues before `loop()` is not woken for (`PreLoop`
  in `SleepsOnlyWhenIdle`).
* Callbacks queued when `loop()` returns are never run, so that a connection of a loop of
  the pool may end without its last callback; and `~Server` ends a connection in
  `kDisconnecting` without it too. `UntoldEnds` says that there is no third case,
  `StopFrees` and `NothingLeaked` that nothing is leaked by it. `ConnectionLife` allows both after `stopped`.
* `events_` does not grow when all of it is used, only when one entry is left. It
  costs turns and never starves anyone (`ReadyServed`).
* `epoll_wait`'s -1 is kept in a `size_t` and taken for events; nothing comes of it, since
  `fillActiveFileds` makes an `int` of it again (`ReportedAlive`).
* A loop that is quit after the notify and before `startLoop` looks at `loop_` again (line 35 of
  `Manager.cpp`) has reset it: `startLoop` waits for ever, for a loop that has come and gone
  (`LoopMissed`). `StartReturns` says that nothing else keeps `start()` from returning.
* `~Manager` may call `quit()` on, or write the wakeup of, a loop that has just ended.
* A `send()` of a thread that runs behind `connectDestroyed` registers the connection
  again unless `state_` is `kDisconnected`, and `fileds_` keeps a freed `Filed*`; section 4
  says when. The user threads of `ServerStop` only shut down for that reason.
* A string queued by a thread and overtaken by `shutdown()` on the loop is kept for
  ever and keeps `EPOLLOUT` reported.

### Fairness

`EventLoop`: weak fairness of the loop's thread and of the `wakeup()` of a thread
that has pushed: threads that can run do run. None for `epollTimeout`, for quits
or for events.
`Epoller`: weak fairness of what the loop's thread does when it has something to do;
`epollNothing`, the time limit among it, is not relied on.
`Server`: weak fairness of each loop (its part in the teardown included) and of a user thread's call in
progress, none for the return of the base loop or for the peers' messages; strong fairness of a user dropping its pointer (it is possible again
and again, and a program that keeps a `shared_ptr` for ever keeps the connection);
`PeersRead`, strong fairness of a report of `EPOLLOUT` and of a write that
takes all that is left: the peer goes on reading. Level-triggered epoll repeats its reports.
`OutputStream`: weak fairness of `handleWrite` and of the queue.
`ManagerPool`: weak fairness of every thread; spurious wakeups are not relied on.

## 4. Proofs

Proved with TLAPS, for all values of the constants that satisfy the named
assumptions (`PreLoopAssumption`, `EpollerAssumption`, `ServerAssumption`, `BufferAssumption`,
`OutputAssumption`, `ThreadsAssumption`).

`EventLoopProofs`
* `TypeCorrect`: `Spec => []TypeOK`. `TypeOK` is inductive by itself.
* `NoLostWakeup`: `Spec => []SleepsOnlyWhenIdle`. Not inductive: at `check`,
  `events` or inside user code the loop is not asleep but will be. `WakeInv`
  says that whenever something is queued that the coming `swapPendFuncs` will not
  take, or `quit_` is set and the coming check has passed, the loop
  has been signalled. The signal stays because the
  only reader of the eventfd does not consume it (`SignalStays`).
* `Implementation`: `Spec => ImplementsTaskQueue`, under the mapping
  `queue <- functors \o pendFuncs`. It needs `BatchInv` (`functors` is empty
  outside `doPendFunc`), so that the swap is a stutter, and lemmas on the elements
  of appended and concatenated sequences.

`EpollerProofs`
* `EpollerTypes`, `KernelInStep`, `MapInStep`, `EpollCtlSucceeds`, `NoDanglingFiled`: for any
  `Fileds` and descriptors, all from one invariant, `IInv`. None of its parts is inductive
  alone: `ADD` and `MOD` are not refused because the kernel has what `index_` says
  (`KernelAgrees`); that needs a reopened descriptor to be unregistered, which needs
  owners to be distinct (`TypeOK`) and removed before they are destroyed; and a
  `Filed` in `activeFileds_` is not destroyed because it is still registered
  (`ActiveKnown`), which needs what the kernel reports to be registered. That the array's old
  pointers are not taken after a -1 is `ConvertedBack` (`asInt` undoes `asSize_t`), and `ReturnsSome`
  says what a call takes. `UpdateInv` covers the
  five `enable*` and `disable*` calls at once.
* `EventsBounded`: `size` stays what it was at first or within twice the number of
  descriptors and one, since it doubles only from one more than it has reported.

`ServerCalls`
* `ServerTypesHold`: `TypeOK` is always true. It needs `Counted` (connections accepted and
  waiting do not exceed the bound, and one is waiting when the Acceptor is reported) to
  know that the next number is one of `Conns`.

`ServerCalls`, `ServerProofs`
* `NoDanglingCall`, `NoDanglingEntry`, `RegistrationsAgree`: `CallsAlive`, `DeadForgotten`,
  `FiledsAgree` are always true, for any loops, connections, descriptors, user threads
  and scripts of callbacks, under one hypothesis about the program: its threads are `Careful`,
  and they either never call `send()` (`Shuts`), or never call `shutdown()` and the base
  loop never returns (`Sends`). Neither part can be spared; see below.
* The invariant `IInv` says who owns a connection at each point of its life. `Kept`
  is the backbone: as long as a loop may meet the connection in `fileds_`, it is in
  `connections_` or its `connectDestroyed` is queued (`InUse`, `Registry`). That this
  one waits long enough is `Order`: `connectEstablished` is the first of all that is
  queued for a connection, through the swap of the two vectors, and `connectDestroyed` runs at
  the bottom of the stack, from `doPendFunc` or from `~Server`, which own what they run
  (`Owned`). `Fresh` says that nobody else knows a connection before `connectEstablished`,
  `Known` that all its calls wait on its own loop, `Closing` that it leaves the map in
  `kDisconnected`, `Entries` and `Apart` that `fileds_`, `index_` and descriptors agree, `Turns`
  where a loop can be with what, and `Asked` what a user thread is in the middle of.
* Each of the 18 calls of a connection is first brought to one form, `Calling` and `Changing` (what
  it makes, what it queues, what it does to the registration), and `CallKeeps` is proved of
  the form. The turns of a loop have a form of their own, `Move`, with `MoveKeeps`.
* `NothingLeaks`: `NothingLeaked` is always true, under the same hypothesis. The invariant is
  `IInv` with `Buried`. A destroyed loop has dropped its queue, and nothing that owns a
  connection can be queued on it again (`BuriedAt`): that needs the loops to end in the order of
  `~Server` (`Past`: the base loop has returned and run its calls, `connections_` is
  empty, before any loop of the pool returns) and every connection to be on the base loop or on one that
  `~ManagerPool` joins (`Seated`). What is left is in the queue of the base loop, as a
  `removeConnectionInLoop`, or in the vector of a loop that is still running; the base loop is
  the last to be destroyed.
* Why the hypothesis: a thread that is not careful is `ServerRawThis`. With `send()` and
  `shutdown()` both, the store of `kDisconnecting` (`ServerReopened`) may come after
  `handleClose`; a `sendinLoop` of another thread queued behind `connectDestroyed` then does not
  give up, registers the removed connection for `EPOLLOUT`, and `fileds_` keeps the
  freed one. `~Server` does the same to a connection it finds in `kDisconnecting`, since
  `connectDestroyed` neither sets `kDisconnected` nor calls `disableAll` then. TLC finds the first
  with two user threads and one connection (`DeadForgotten` after 32 states), the second
  with one user thread that sends, callbacks that shut down and `MayStop`.

`ServerLife`
* `ImplementsConnectionLife`: `Spec => ImplementsLife`. Every behaviour of the Server, of any size and
  with any callbacks, is one of `ConnectionLife`: connected, then messages, then disconnected, then
  freed, in this order and each once, but for what is freed after the base loop has returned.
  `EndsAreTold`: `UntoldEnds`, the two cases of an end nobody tells. `EndedGivesUp`:
  `ClosedGivesUpWriting`. All three under the hypothesis above.
* What the user was told is a matter of `state_`, of what Epoller has and of the calls that are
  still to come, and none of it is inductive by itself. The second invariant, `Story`, tells
  it for each connection (`Tale`). As long as nothing was told, `connectEstablished` waits or the
  callback is due (`Announcing`); what the user believes connected (`Live`) is in `connections_` or its
  `connectDestroyed` waits, until the program stops (`Lasting`); once the end is told, or is being
  told, `state_` is not `kConnected`, `events_` is empty, and `remove` or `removeConnection` follows the
  callback (`Ending`); a `Filed` is reported, and `handleRead` and `handleClose` run, only for
  a connection that is `Live`, one at a time and never in `doPendFunc` (`Watched`), so the end
  is not told twice; `removeConnectionInLoop` and `connectDestroyed` come after the end, or after
  the stop (`Heard`); and `messageCallback` has something to deliver (`Fed`). `Stacks` says that
  what tells the user is at the top of the stack: no user code runs between the store of
  `kDisconnected` and the callback that tells it. `Stops`: no loop is destroyed while the base loop runs.
* Every step but five spares the tale of every connection: it leaves alone what the tale turns
  on (`Spares`, `TaleSpared`). The calls have a form (`Quiet`), the turns have `Move`, what other
  threads do has `AsideSpares`. The five that turn the tale of one connection are
  `newConnection`, `connectEstablished`, `handleClose`, `connectDestroyed` and
  `connectionCallback` (`AcceptTurns`, `EstablishedTurns`, `CloseTurns`, `DestroyedTurns`,
  `CallbackTurns`). They keep it under `IInv`, which knows who owns what.
* The refinement follows step by step (`PromiseStep`): the connection callback is `Up` or `Down`,
  the message callback `Message`, `quitBase` is `Stop`, and any other step is `FreeSome`, of
  what `UntoldEnds` allows to be freed, or of nothing.

`BufferProofs`
* `IndicesInOrder`, `NothingLost`, `SpaceReused`: `TypeOK`, `ContentsExact` and
  `SizeBounded` are always true, for any prepended part, initial size, size
  of `extrabuff` and number of bytes. The invariant is their
  conjunction with `PeakCovers` (what is held never exceeds the recorded
  peak). The lemmas are about the methods alone: `CopiedHolds`, `ResizedHolds`,
  `MovedHolds` about a vector, then `EnsureGood`, `AppendGood`, `ReadFdGood`,
  `RetrieveGood`, `PeekedExact` about the methods.
* `BufferImplementation`: `Spec => ImplementsByteQueue`.

`OutputStreamProofs`
* `OutputTypes`, `NoOvertaking`, `AskedExactlyWhileWaiting`, `OneWarning`: the
  invariants of the run, for strings of any number and length and any mark. The
  inductive invariant `OutputInv` takes them together, as each needs the others:
  a direct `write()` keeps the order only because nothing waits when it is made,
  and one warning fits `warned` only because there was none. To these it adds that
  no more strings are sent and queued than `MaxMsgs` (`Bounded`) and that no byte belongs
  to a string `sendinLoop` has not been given yet (`UpTo`), so that the next string is
  later than all that went before. `SendCases` reduces the five outcomes
  of `sendinLoop` to one form, `Sent(out, in)`; `LaterFollows` and `PassOn` are
  the facts on sequences under it.
* `NothingCutOff`: the action property `ShutdownCutsNothing`, from the same
  invariant: `shutdownInLoop` looks only at `isWriting()`, which
  `AskedIffWaiting` says is enough.

`ManagerPoolProofs`
* `PoolTypes`, `StartedLoopsMade`, `PoolLeavesNoneRunning`: for any number of threads
  and of calls of `start()`.
  The owner passes over the Managers twice, and the invariant `PoolInv` has a
  conjunct for each pass: `StartPass` (the Managers before `cur` have their loops
  in `loops_`, those after it have no thread, the Acceptor listens only when `loops_` is
  complete, and `started_` of zero means that nothing has begun) and `EndPass` (the threads before
  `cur` have left `loop()`). `LoopIsPublished` ties `loop_` to the control point of its
  thread: the destructor that finds it null concludes that the thread
  is past its loop, which is right only because `start()` has returned.
* `NoReturn`: no step takes a thread back into its loop, so the conclusion lasts.

The invariants `OutputInv`, `PoolInv`, `Story`, `Buried` and both `IInv` hold in TLC on
the instances of the runs too.

Only model-checked: liveness, everywhere (fairness and ENABLED are beyond the prover), that is
`QueuedRuns`, `QuitStops`, `ReadyServed`, `GoneIsFreed`, `ShutdownCompletes`, `StopFrees`, `BufferDrains`,
`StartReturns` and `PoolStops`. Every invariant, action property and refinement of the passing
runs is also a theorem; those of `Server`, but for its types, only for programs that meet the hypothesis, which
the instances of the passing runs do.

## 5. Not modelled

* `LuckyLog`: output, apart from a level that all threads store in one singleton without
  a lock, so that a message may carry another thread's level.
* `Address`, `TimeStamp`, `ThreadID`, the names of connections: conversions and single system calls.
* Socket options and `bind`: one system call each; `bind` ends the process when it fails.
* The spinning of the base loop when no descriptor is left: `acceptFails` is an action, the
  listening socket stays readable, and the loop comes back to it at once. How
  often is not a property of the states.
* The string a thread passes to `send()`: the code binds `buff.c_str()` and its length, and the
  caller has to keep the string until the loop has run the call. The models assume
  that.
* `retrieveAsString(len)` with `len` beyond the readable bytes: the only call in the
  repository asks for all of them.
* `inputBuffer_` inside `Server.tla`: its messages are counted there, its bytes are
  `Buffer.tla`.
* Memory that runs out.

## 6. Plan

Done, in this order: `EventLoop`, `Server` over it, `Buffer`, `OutputStream`,
`ManagerPool` and the proofs about all of them but `Server`; then `Epoller` with its proofs,
the teardown in `Server`, `start()` and `listen()` in `ManagerPool`, and the proofs about `Server`:
its types, its ownership, and that it implements `ConnectionLife`.

Left: the composition of `OutputStream` with `Buffer`: the indices of
`outputBuffer_` under `sendinLoop` and `handleWrite`, implementing `OutputStream`.
