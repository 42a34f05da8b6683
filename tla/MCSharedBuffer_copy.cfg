\* Two threads: a statement of the source that the code does not keep.
SPECIFICATION Spec
CONSTANTS
    Thread = {t1, t2}
    Handle = {h1, h2, h3}
    Block = {b1, b2, b3}
    Unpromoted = Unpromoted
    None = None
SYMMETRY Symmetry
INVARIANT CopyReadsLiveBuffer
CHECK_DEADLOCK FALSE
