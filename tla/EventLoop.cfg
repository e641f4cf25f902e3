\* Two other threads, two callbacks and one queued before loop(); no help from
\* the epoll timeout.
SPECIFICATION FairSpec
CONSTANTS
    Threads = {p1, p2}
    Tasks = {t1, t2, t3, b}
    PreLoop = {b}
INVARIANTS TypeOK SleepsOnlyWhenIdle
PROPERTIES ImplementsTaskQueue QueuedRuns QuitStops
\* loop() returns after quit(): the system really stops.
CHECK_DEADLOCK FALSE
