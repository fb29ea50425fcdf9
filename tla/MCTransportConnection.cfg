CONSTANTS
    Conns = {c1, c2}
    IPs = {a1, a2}
    Senders = {t1, t2}
    Nil = Nil
    Sizes = {1}
    QueueCapacity = 2
    ConnLimit = 3
    IPLimit = 2
    GlobalLimit = 3
    ReadSize = 1
    IPReadLimit = 1
    GlobalReadLimit = 1
    MaxConnectionsPerIP = 1
SPECIFICATION Spec
INVARIANTS SlotsConserved NothingAfterClose NoPanic WithinLimits NothingLeaks
SYMMETRY Symmetry
