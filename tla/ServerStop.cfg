\* The base loop may return at any time: then ~Server runs, and the loops go.
SPECIFICATION ReadSpec
CONSTANTS
    base = base
    io1 = io1
    io2 = io2
    IoLoops <- OneIoLoop
    ThreadNums = {0, 1}
    MaxConns = 1
    Messages = 1
    Fds = {3}
    Users = {u}
    UserOps = {"shutdown"}
    Scripts <- EchoAndClose
    Careful = TRUE
    MayStop = TRUE
INVARIANTS TypeOK CallsAlive DeadForgotten UntoldEnds NothingLeaked
PROPERTIES ImplementsLife GoneIsFreed ShutdownCompletes StopFrees
\* Every peer may stay silent for ever.
CHECK_DEADLOCK FALSE
