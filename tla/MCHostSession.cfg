SPECIFICATION FairSpec
CONSTANTS
    Controllers = {c1}
    Sessions = {s1}
    Nil = Nil
    Clients = {k1}
    TerminationCapacity = 1
    MaxPendingIce = 1
    PendingLifetime = 0
    ReconnectLifetime = 1
    MaxGeneration = 1
    EnvelopeKinds = {"auth", "desc", "ice", "end", "closing"}
    LocalRequests = {"grant", "revoke", "stop"}
    MayShutdown = TRUE
    LastInput = 1
    MaxTime = 1
INVARIANTS Stoppable RevocationNoticed RegistryTracksSession WindowBounded StatusFollows
PROPERTIES StopsTakeEffect WindowResolves ShutdownCompletes
