\* Three threads, and start() called up to two times.
SPECIFICATION FairSpec
CONSTANTS
    threads_num = 3
    MaxStarts = 2
INVARIANTS TypeOK NoneLeftRunning LoopsMade
PROPERTIES StartReturns PoolStops
\* The pool is gone in the end.
CHECK_DEADLOCK FALSE
