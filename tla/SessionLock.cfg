CONSTANTS
    c1 = c1
    c2 = c2
    o1 = o1
    NoLock = NoLock
    Clients <- MCClients
    Outputs <- MCOneOutput
    Half = 4
    MaxLag = 3
SPECIFICATION LockFairSpec
INVARIANTS
    LockPromise
PROPERTIES
    OnlyUnlockOpens
    LockAnswered
