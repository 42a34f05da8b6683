SPECIFICATION HBSpec
CONSTANTS
    Thread = {t1, t2}
    Handle = {h1, h2, h3}
    Block = {b1, b2}
    Unpromoted = Unpromoted
    None = None
SYMMETRY Symmetry
INVARIANTS UsesBeforeDisposal UsesBeforeReclaim LoserSeesBlock OrderInv
\* The program stops when every handle has been dropped.
CHECK_DEADLOCK FALSE
