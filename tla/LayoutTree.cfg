SPECIFICATION SmallSpec
CONSTANTS
    g1 = g1
    g2 = g2
    g3 = g3
    None = None
    Groups = {g1, g2, g3}
    Leaves = {1, 2, 3}
    Splits = {11, 12, 13}
    wa = wa
    wb = wb
    Workspaces = {wa, wb}
    Width = 20
    Height = 20
    Bars <- BarHeights
    Gaps <- PolicyGaps
    Points <- PointerPositions
    Drops <- DropPositions
    Chrome = 2
    Initial <- Half
    Step <- Half
    Low <- Quarter
    High <- ThreeQuarters
    Slop = 2
    MinSize = 5
    Limits <- ClientLimits
    NoLimits <- Unlimited
    EdgeSets <- DraggedEdges
    Deltas <- Distances
VIEW Nameless
INVARIANTS
    TreesSound
    TilesFit
    Reachable
PROPERTIES
    DragsFollow
