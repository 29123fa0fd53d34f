SPECIFICATION FairSpec
CONSTANTS
    ca = ca
    cb = cb
    o1 = o1
    o2 = o2
    Configs <- TwoConfigs
    Broken = Broken
    NoFile = NoFile
    Default = Default
    Keyboards = {k1}
    Pointers = {p1}
    Outputs <- TwoOutputs
    Workspaces = {1, 2, 3}
    Absent = Absent
    None = None
    Declares <- DeclaredBy
    Affinity <- AffinityOf
INVARIANTS
    PolicyInForce
PROPERTIES
    ComesBack
    FollowsFile
