SPECIFICATION FairSpec
CONSTANTS
    ThreadNums = 3
    MaxTasks = 3
INVARIANT IInv
INVARIANT NoTaskOverlooked
INVARIANT NoSleeperOnceStopped
PROPERTY TaskRuns
PROPERTY CallsReturn
CHECK_DEADLOCK FALSE
