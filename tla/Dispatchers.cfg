SPECIFICATION Spec
CONSTANTS
    Fds = {1, 2, 3}
    UrgentData = FALSE
    MaxCount = 7
INVARIANTS
    TablesAgree
PROPERTIES
    SelectImplements
    PollImplements
    EpollImplements
