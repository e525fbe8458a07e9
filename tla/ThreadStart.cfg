SPECIFICATION ThreadFairSpec
CONSTANTS
    Threads = {t1}
PROPERTIES
    StartReturns
\* Every thread may have been joined, and the process may abort.
CHECK_DEADLOCK FALSE
