SPECIFICATION FairSpec
CONSTANTS
    Clients = {k1, k2}
    c1 = c1
    c2 = c2
    Controllers = {c1, c2}
    PermissionSets <- TestPermissions
    Offers <- TestOffers
    MaxGrants = 1
    MaxLocalClients = 2
    MaxReplays = 1
    MaxLifetime = 1
    FutureSkew = 0
    MaxIssued = 2
    MaxRequests = 3
    MaxFaults = 2
    MaxClock = 1
INVARIANTS  Restartable OffersOnce
PROPERTY AgentStops
