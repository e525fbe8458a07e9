SPECIFICATION PoolSpec
CONSTANTS
    Threads = {t1, t2}
    QuitFirst = FALSE
    IntMax = 3
    SizeMod = 64
INVARIANTS
    PickedLoopExists
CHECK_DEADLOCK FALSE
