CONSTANTS
    Conns = {c1, c2}
    Devices = {d1, d2}
    RIds = {r1, r2}
    Codes = {}
    Nil = Nil
    MaxPerHost = 1
    MaxTotal = 1
    RendezvousTTL = 1
    PresenceTimeout = 1
    ClientOps = {"register", "heartbeat", "query", "invalid", "create", "join",
                 "relayPairing", "complete", "relaySession"}
    LastInput = 1
    MaxTime = 1
    MayShutdown = FALSE
SPECIFICATION Spec
INVARIANTS OneRoutePerDevice MembersOnline 
PROPERTY PurgesOwnOnly
SYMMETRY Symmetry
