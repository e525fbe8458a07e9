SPECIFICATION Spec
CONSTANTS
    Conns = {c1, c2, c3}
    ConnFds = {fd1, fd2}
    WakeFd = WakeFd
    ListenFd = ListenFd
    Wakeup = Wakeup
    Acceptor = Acceptor
    Null = Null
    Absent = Absent
    AcceptMode = "direct"
    SendOnConnect = FALSE
    MaxReply = 1
    MaxWakeups = 1
SYMMETRY Symmetry
INVARIANTS
    HandlersAreLive
    
    NoMisdelivery
    FirstRecvReturns
    CapacityCoversWatched
    TableAssertsHold
\* The process may abort and the loop may be quit and destroyed.
CHECK_DEADLOCK FALSE
