SPECIFICATION Spec
CONSTANTS
    kCheapPrepend = 2
    kInitialSize = 3
    Extra = 2
    MaxBytes = 12
INVARIANTS TypeOK ContentsExact SizeBounded
PROPERTY ImplementsByteQueue
CHECK_DEADLOCK FALSE
