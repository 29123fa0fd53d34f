CONSTANTS
    w1 = w1
    w2 = w2
    w3 = w3
    g1 = g1
    g2 = g2
    g3 = g3
    g4 = g4
    o1 = o1
    o2 = o2
    None = None
    Outputs <- OneOutput
    Windows <- ThreeWindows
    Groups <- FourGroups
    MaxWs = 2
    Configured = 1
    Affinity <- NoAffinity
    Startup <- NoStartup
SYMMETRY SnapshotSymmetry
SPECIFICATION OneFloatsSpec
PROPERTIES
    OrphanedByOwnUnmap
    StayTogether
    TabOrder
