SPECIFICATION Spec
CONSTANTS
    Windows = {w1, w2}
    Layers = {l1, l2}
    LockSurfaces = {s1, s2}
    Keyboards = {k1, k2}
    None = None
SYMMETRY SurfaceSymmetry
INVARIANTS
    SecureFocus
    FocusKept
PROPERTY
    WaitingServed
