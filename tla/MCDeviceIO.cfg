SPECIFICATION MCSpec
CONSTANTS
    p1 = p1
    p2 = p2
    Instances <- MCInstances
    home = home
    lab = lab
    Candidates <- MCCandidates
    NoPlan = NoPlan
    WithNat = TRUE
    MaxStarts = 2
    MaxTrouble = 1
    QueueCapacity = 2
    Capacity = 2
    Long <- MCLong
    ReadCap = 3
    WriteCap = 2
    ReportMax = 2
    ReportCap = 3
    MaxLines = 4
    MaxAcks = 2
    LongText = 4
    BufferSize = 7
    RecvMax = 4
    MaxMalformed = 2
    MaxFrames = 3
    MaxConns = 2
INVARIANTS NothingLeftBehind StoreIsWhole LogIsKept LinesAccounted FramesInOrder
PROPERTIES OthersKeepTheirs
SYMMETRY MCSymmetry
CHECK_DEADLOCK FALSE
