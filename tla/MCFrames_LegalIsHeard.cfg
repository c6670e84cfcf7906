SPECIFICATION FrameSpec
CONSTANTS
    LongText = 2
    BufferSize = 8
    RecvMax = 4
    MaxMalformed = 2
    MaxFrames = 3
    MaxConns = 2
INVARIANT LegalIsHeard
CHECK_DEADLOCK FALSE
