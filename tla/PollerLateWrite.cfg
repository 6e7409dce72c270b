SPECIFICATION Spec
CONSTANTS
    Fds = {f1, f2, f3}
    WakeupFd = WakeupFd
    MaxOut = 2
PROPERTY WriteUpdatesOwnEntry
CHECK_DEADLOCK FALSE
