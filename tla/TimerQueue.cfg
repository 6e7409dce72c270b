SPECIFICATION FairSpec
CONSTANTS
    Timers = {t1, t2}
    Delays = {1, 3}
    Milli = 2
    IntMax = 1
    MaxTime = 8
INVARIANT IInv
INVARIANT NotEarly
PROPERTY PeriodKept
PROPERTY WakesInTime
PROPERTY TimerRuns
CHECK_DEADLOCK FALSE
