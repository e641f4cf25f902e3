\* What the loop does when there is nothing to do.
SPECIFICATION FairSpec
CONSTANTS
    Threads = {p1}
    Tasks = {t1}
    PreLoop = {}
PROPERTY IdleLoopBlocks
\* loop() returns after quit(): the system really stops.
CHECK_DEADLOCK FALSE
