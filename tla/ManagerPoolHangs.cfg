\* One thread, destroyed as soon as it was started.
SPECIFICATION FairSpec
CONSTANTS
    threads_num = 1
    MaxStarts = 1
PROPERTY DestructorReturns
\* The pool is gone in the end.
CHECK_DEADLOCK FALSE
