SPECIFICATION FairSpec
CONSTANTS
    Loops = {l1, l2}
    Workers = {w1}
    Tasks = {k1, k2}
    NoLoop = NoLoop
INVARIANT IInv
INVARIANT SleeperIsWoken
PROPERTY QuitStopsLoop
PROPERTY ImplementsLoopTasks
CHECK_DEADLOCK FALSE
