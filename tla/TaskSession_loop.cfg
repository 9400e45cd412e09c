SPECIFICATION Spec
CONSTANTS
    rootA = rootA
    rootB = rootB
    NoRoot = NoRoot
    Roots <- TwoRoots
    MaxRequests = 3
INVARIANTS
    TypeOK EveryGoplsClosed OneOpenGopls NoSilentLoss
