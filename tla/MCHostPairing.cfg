SPECIFICATION Spec
CONSTANTS
    Controllers = {c1}
    Host = host
    Kinds = {"DesktopCode"}
    Endpoints <- TestEndpoints
    DebugLan = FALSE
    Lifetime = 1
    Skew = 0
    MaxStarts = 2
    MaxEnvelopes = 2
    MaxInFlight = 1
    MaxFaults = 1
    MaxClock = 1
INVARIANTS   NonceOnce LayersAgree NoLostWakeup
CHECK_DEADLOCK FALSE
