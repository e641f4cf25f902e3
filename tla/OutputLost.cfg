\* One string of two bytes.
SPECIFICATION Spec
CONSTANTS
    MaxMsgs = 1
    MaxLen = 2
    highWaterMark = 3
INVARIANT OutputIntact
CHECK_DEADLOCK FALSE
