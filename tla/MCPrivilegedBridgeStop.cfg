SPECIFICATION Spec
CONSTANTS
    Helpers = {1}
    Conns = {1, 2}
    Contexts <- OneContext
    Credentials <- OneCredential
    Installed <- Current
    RenewInterval = 1
    LeaseDuration = 3
    RenewMargin = 0
    MaxCritical = 1
    ReplayCapacity = 1
    MaxOps = 2
    Events <- FastFirst
    MaxClock = 1
PROPERTY StopNotDismissed
