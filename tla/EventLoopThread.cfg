SPECIFICATION FairSpec
CONSTANTS
    NumThreads = 3
    MaxConns = 2
INVARIANT IInv
INVARIANT DealtToReady
INVARIANT LoopsServe
PROPERTY StartReturns
PROPERTY StopReturns
CHECK_DEADLOCK FALSE
