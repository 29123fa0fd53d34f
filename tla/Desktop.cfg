CONSTANTS
    w1 = w1
    w2 = w2
    g1 = g1
    g2 = g2
    g3 = g3
    o1 = o1
    o2 = o2
    None = None
    Outputs <- TwoOutputs
    Windows <- TwoWindows
    Groups <- ThreeGroups
    MaxWs = 3
    Configured = 2
    Affinity <- FirstAffinity
    Startup <- SecondStartup
SYMMETRY ObjectSymmetry
SPECIFICATION NoFullscreenSpec
INVARIANTS
    PointersAgree
    WorkspacesPlaced
    KeyboardIsActive
