SPECIFICATION Spec
CONSTANTS
    Handle = {h1, h2}
    Block = {1, 2}
    Buffers = 3
    MaxCap = 3
    VecCaps = {3}
    StaticLen = 0
    Gap = 1
    Growth = 2
    None = None
SYMMETRY Symmetry
CHECK_DEADLOCK FALSE
INVARIANTS
    ViewsInBounds WritableIsExclusive
    ReserveReserves ReclaimIsHonest
PROPERTIES ImplementsVectors
