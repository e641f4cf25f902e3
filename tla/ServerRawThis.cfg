\* A user thread drops its pointer while a call of its own is queued.
SPECIFICATION Spec
CONSTANTS
    base = base
    io1 = io1
    io2 = io2
    IoLoops <- OneIoLoop
    ThreadNums = {1}
    MaxConns = 1
    Messages = 1
    Fds = {3}
    Users = {u}
    UserOps = {"shutdown"}
    Scripts <- Quiet
    Careful = FALSE
    MayStop = FALSE
INVARIANT CallsAlive
\* Every peer may stay silent for ever.
CHECK_DEADLOCK FALSE
