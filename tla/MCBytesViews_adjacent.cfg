SPECIFICATION Spec
CONSTANTS
    Handle = {h1, h2, h3}
    Block = {1, 2}
    Buffers = 3
    MaxCap = 1
    VecCaps = {1}
    StaticLen = 0
    Gap = 0
    Growth = 1
    None = None
SYMMETRY Symmetry
CHECK_DEADLOCK FALSE
INVARIANTS ViewsInBounds
