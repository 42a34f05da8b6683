SPECIFICATION Spec
CONSTANTS
    Handle = {h1, h2, h3}
    Block = {1}
    Buffers = 2
    MaxCap = 2
    VecCaps = {0, 2}
    StaticLen = 1
    Gap = 1
    Growth = 1
    None = None
SYMMETRY Symmetry
CHECK_DEADLOCK FALSE
INVARIANTS
    OwnedOnce BlocksCount
PROPERTIES ImplementsVectors
