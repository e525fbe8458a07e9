SPECIFICATION FairSpec
CONSTANTS
    Conns = {c1, c2}
    Threads = {t1}
    Base = Base
    Listen = Listen
    None = None
    Chunk = 2
    MaxIn = 2
INVARIANTS
    OneDirection
    
PROPERTIES
    KeepsPoolPromise
    
    PoolStarts
    AcceptedIsOpened
    GoneIsClosed
\* Every loop may have died.
CHECK_DEADLOCK FALSE
