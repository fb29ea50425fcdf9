SPECIFICATION Spec
CONSTANTS
    Controllers = {c1}
    Sessions = {s1}
    Nil = Nil
    Clients = {k1}
    TerminationCapacity = 1
    MaxPendingIce = 0
    PendingLifetime = 0
    ReconnectLifetime = 1
    MaxGeneration = 1
    EnvelopeKinds = {"auth", "desc"}
    LocalRequests = {"grant", "revoke", "stop"}
    MayShutdown = FALSE
    LastInput = 1
    MaxTime = 1
INVARIANT RuntimeSurvives
