SPECIFICATION Spec
CONSTANTS
    NumLoops = 2
    Fds = {5, 6}
    WheelSize = 2
    MaxConns = 3
INVARIANT MapsAgree
INVARIANT ActiveAreRegistered
INVARIANT ContextFollowsEntry
INVARIANT CloseHitsOwner
CHECK_DEADLOCK FALSE
