\* One user thread that sends and shuts down.
SPECIFICATION Spec
CONSTANTS
    base = base
    io1 = io1
    io2 = io2
    IoLoops <- OneIoLoop
    ThreadNums = {1}
    MaxConns = 1
    Messages = 1
    Fds = {3}
    Users = {u}
    UserOps = {"send", "shutdown"}
    Scripts <- Quiet
    Careful = TRUE
    MayStop = FALSE
INVARIANT ClosedGivesUpWriting
\* Every peer may stay silent for ever.
CHECK_DEADLOCK FALSE
