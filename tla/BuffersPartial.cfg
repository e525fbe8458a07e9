SPECIFICATION Spec
CONSTANTS
    Chunk = 2
    MaxIn = 5
    MaxOut = 3
    Blocking = TRUE
    Whole = FALSE
PROPERTIES
    InIsFifo
\* The client may stop sending, and a closed connection stops.
CHECK_DEADLOCK FALSE
