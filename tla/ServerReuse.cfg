\* Two connections and one descriptor; a user thread sends.
SPECIFICATION Spec
CONSTANTS
    base = base
    io1 = io1
    io2 = io2
    IoLoops <- TwoIoLoops
    ThreadNums = {0, 2}
    MaxConns = 2
    Messages = 1
    Fds = {3}
    Users = {u}
    UserOps = {"send"}
    Scripts <- Echo
    Careful = TRUE
    MayStop = FALSE
INVARIANTS DeadForgotten FiledsAgree ClosedGivesUpWriting
\* Every peer may stay silent for ever.
CHECK_DEADLOCK FALSE
