SPECIFICATION Spec
CONSTANTS
    Conns = {c1}
    ConnFds = {fd1}
    WakeFd = WakeFd
    ListenFd = ListenFd
    Wakeup = Wakeup
    Acceptor = Acceptor
    Null = Null
    Absent = Absent
    AcceptMode = "direct"
    SendOnConnect = FALSE
    MaxReply = 1
    MaxWakeups = 1
INVARIANTS
    WakeupReadsOne
\* The process may abort and the loop may be quit and destroyed.
CHECK_DEADLOCK FALSE
