SPECIFICATION FairSpec
CONSTANTS
    BufferIds = {b1, b2, b3, b4, b5, b6, b7, b8}
    NoBuffer = NoBuffer
    BufferSize = 3
    MaxBacklog = 2
    FlushEvery = 2
    MaxLines = 8
    MaxFailures = 1
CHECK_DEADLOCK FALSE
INVARIANT NoLineLostAtStop
