CONSTANTS
    d1 = d1
    d2 = d2
    w1 = w1
    Daemons <- TwoDaemons
    Watchers <- OneWatcher
    NoDaemon = NoDaemon
    GenMax = 3
    Wrap = FALSE
    SerialMax = 2
    PendingMax = 3
    QueueMax = 2
    StopMax = 2
SPECIFICATION FairSpec
INVARIANTS
    InvocationsAccounted
    NothingMissed
PROPERTIES
    ImplementsRole
    LinkServes
