SPECIFICATION Spec
CONSTANTS
    Keys = {a, b}
    Nil = Nil
    QueueCapacity = 2
    MaxSequence = 3
    MaxSignals = 2
SYMMETRY Symmetry
INVARIANTS WireContiguous NoStuckKeys 
