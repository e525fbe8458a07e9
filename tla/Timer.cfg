SPECIFICATION FairSpec
CONSTANTS
    Timers = {t1, t2, t3}
    None = None
    MaxTicks = 2
    RestartInBatch = FALSE
    LateRepeat = FALSE

    
    
PROPERTIES
    StoppedIsSilent
    TimerFires
\* A failed assertion of start() ends the process.
CHECK_DEADLOCK FALSE
