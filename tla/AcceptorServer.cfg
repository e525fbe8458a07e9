SPECIFICATION FairSpec
CONSTANTS
    Fds <- MCFds
    Handlers <- MCHandlers
    Clones <- MCClones
    Threads = {a, p}
    Acceptor = a
    MaxClients = 2
    Null = Null
    a = a
    p = p
INVARIANTS
    DescriptorsOwned
    OneOwner
    ClonesLostByPop
    CallsInOrder
    
PROPERTY
    TakenAreOpened
CHECK_DEADLOCK FALSE
