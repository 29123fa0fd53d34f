CONSTANTS
    g1 = g1
    g2 = g2
    Groups <- TwoGroups
    Heights <- LowAndHigh
    UiHeight = 32
    None = None
    Gone = Gone
    Watchers <- TwoWatchers
    Meddlings = 1
    Changes = 2
    Faults = 1
    Motions = 2
SPECIFICATION DragSpec
CHECK_DEADLOCK FALSE
INVARIANTS
    SurfacePerPanel
    DropFollowsPointer
PROPERTIES
    PanelsInTheEnd
