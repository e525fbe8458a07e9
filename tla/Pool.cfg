SPECIFICATION PoolFairSpec
CONSTANTS
    Threads = {t1, t2}
    QuitFirst = TRUE
    IntMax = 3
    SizeMod = 64
INVARIANTS
    PickedLoopRuns
PROPERTIES
    KeepsPoolPromise
    RoundRobin
    CloseEnds
\* The pool may have been closed, start_loop may wait for ever (ThreadStart) and
\* quit() may abort the process by writing to a destroyed loop.
CHECK_DEADLOCK FALSE
