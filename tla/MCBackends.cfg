SPECIFICATION MCSpec
CONSTANTS
    Devices = {p1, p2, p3}
    Pc = pc
    Indices = {0, 1}
    Target = target
    Elsewhere = elsewhere
    None = None
    MaxFaults = 1
    Fds = {f1, f2, f3}
    NoFd = NoFd
    NumActions = 2
    Gates = {online}
    NoGate = NoGate
    MaxFrames = 2
SYMMETRY Symmetry
INVARIANTS CatalogIsTrue HandlesAreSound ResultsAreSound
CHECK_DEADLOCK FALSE
