SPECIFICATION FairSpec
CONSTANTS
    Conns = {c1, c2}
    ConnFds = {fd1, fd2}
    WakeFd = WakeFd
    ListenFd = ListenFd
    Wakeup = Wakeup
    Acceptor = Acceptor
    Null = Null
    Absent = Absent
    AcceptMode = "remote"
    SendOnConnect = TRUE
    MaxReply = 2
    MaxWakeups = 0
PROPERTIES
    
    
    
    
    KeepsPromise
\* The process may abort and the loop may be quit and destroyed.
CHECK_DEADLOCK FALSE
