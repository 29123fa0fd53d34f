CONSTANTS
    Forking <- Forkers
    DisplayMax = 1
    PolkitRestartMax = 2
CHECK_DEADLOCK FALSE
VIEW Observed
SPECIFICATION FairSpec
INVARIANTS
    CoreBlamed
PROPERTIES
    CleansUpItsOwn
    ImplementsServices
    SessionServes
