SPECIFICATION FairSpec
CONSTANTS
    Helpers = {1}
    Conns = {1, 2}
    Contexts <- BothContexts
    Credentials <- BothCredentials
    Installed <- Current
    RenewInterval = 1
    LeaseDuration = 3
    RenewMargin = 0
    MaxCritical = 1
    ReplayCapacity = 1
    MaxOps = 2
    Events <- FastFirst
    MaxClock = 3
INVARIANTS PeerUnderLease EventsInOrder RenewalsInTime
PROPERTY ControlEnds
