SPECIFICATION Spec
CONSTANTS
    Devices = {d1}
    Networks = {home, guest}
    None = None
    MaxActions = 2
INVARIANTS DeleteIsSafe RunsEndClean
PROPERTIES StopEnds
CHECK_DEADLOCK FALSE
