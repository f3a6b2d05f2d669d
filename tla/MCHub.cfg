SPECIFICATION Spec
CONSTANTS
    Clients = {c1, c2}
    ChanCap = 1
    Intervals = {0, 1}
    MaxPublished = 2
SYMMETRY ClientsSymmetry
INVARIANTS
    TypeOK
    MapAccessExclusive
    RegisteredHaveHandlers
    SafeWhileServing
