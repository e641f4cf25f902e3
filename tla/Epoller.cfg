\* Two descriptors and two Fileds, constructed again and again; an events_ that
\* is always full, that has room, and that doubles.
SPECIFICATION FairSpec
CONSTANTS
    Fileds = {f1, f2}
    Fds = {3, 4}
    Sizes = {1, 2, 3}
    SizeMax = 255
    IntMax = 7
    None = None
INVARIANTS TypeOK KernelAgrees MapAgrees ReportedAlive NeverFatal SizeBounded
PROPERTY ReadyServed
