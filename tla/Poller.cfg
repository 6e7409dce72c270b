SPECIFICATION Spec
CONSTANTS
    Fds = {f1, f2, f3}
    WakeupFd = WakeupFd
    MaxOut = 2
INVARIANT IInv
INVARIANT IndexesAgree
INVARIANT OutputWanted
CHECK_DEADLOCK FALSE
