CONSTANTS
    Devices = {d1, d2, d3}
    RIds = {r1, r2, r3}
    Codes = {k1}
    Nil = Nil
    MaxPerHost = 1
    MaxTotal = 2
    RendezvousTTL = 1
    LastTime = 2
SPECIFICATION StoreSpec
INVARIANTS TypeOK IndexesAgree CapacityBounds
 
SYMMETRY Symmetry
