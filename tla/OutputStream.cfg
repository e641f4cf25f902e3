\* Up to four strings, from the loop's thread and from another.
SPECIFICATION FairSpec
CONSTANTS
    MaxMsgs = 4
    MaxLen = 3
    highWaterMark = 4
INVARIANTS TypeOK StringsInOrder AskedIffWaiting WarnedOnce
PROPERTIES ShutdownCutsNothing BufferDrains
\* After the last string nothing need happen.
CHECK_DEADLOCK FALSE
