SPECIFICATION Spec
CONSTANTS
    NumLoops = 1
    Fds = {5}
    WheelSize = 2
    MaxConns = 1
INVARIANT CloseFindsChannel
CHECK_DEADLOCK FALSE
