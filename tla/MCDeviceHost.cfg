SPECIFICATION MCFairSpec
CONSTANTS
    Duration = 2
    BootTime = 3
    MaxTime = 6
INVARIANTS
    PartsAreSound
    DestroyIsQuiet
PROPERTIES
    NoWriteAfterJoin
    StopEndsThread
CHECK_DEADLOCK FALSE
