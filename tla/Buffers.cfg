SPECIFICATION FairSpec
CONSTANTS
    Chunk = 2
    MaxIn = 5
    MaxOut = 3
    Blocking = TRUE
    Whole = TRUE
INVARIANTS
    CloseLosesNothing
PROPERTIES
    InIsFifo
    OutIsFifo
    GoneIsClosed
\* The client may stop sending, and a closed connection stops.
CHECK_DEADLOCK FALSE
