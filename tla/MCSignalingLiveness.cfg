CONSTANTS
    Conns = {c1, c2}
    Devices = {d1, d2}
    RIds = {r1}
    Codes = {}
    Nil = Nil
    MaxPerHost = 1
    MaxTotal = 1
    RendezvousTTL = 1
    PresenceTimeout = 1
    ClientOps = {"register", "create", "join"}
    LastInput = 0
    MaxTime = 2
    MayShutdown = TRUE
SPECIFICATION FairSpec
INVARIANT DownMeansEmpty
PROPERTIES ShutdownReturns SilentClientsReaped
