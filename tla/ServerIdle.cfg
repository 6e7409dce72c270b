SPECIFICATION FairSpec
CONSTANTS
    NumLoops = 2
    Fds = {5, 6}
    WheelSize = 2
    MaxConns = 2
INVARIANT IInv
PROPERTY IdleIsKicked
PROPERTY ImplementsLife
CHECK_DEADLOCK FALSE
