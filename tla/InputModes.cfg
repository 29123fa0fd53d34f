SPECIFICATION Spec
CONSTANTS
    Pointers = {p1, p2}
    Keyboards = {k1}
    Windows = {w1}
    Shells = {s1}
    None = None
    Left = left
    Right = right
    Other <- NoButton
    CaptureCapacity = 1
    MaxOngoing = 2
CONSTRAINT FewOngoing
SYMMETRY InputSymmetry
VIEW Observed
INVARIANTS
    InertBehindLock
    CleanTap
    GrabsHeld
    PanelReturns
