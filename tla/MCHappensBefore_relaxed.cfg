\* Two threads: a statement of the source that the code does not keep.
SPECIFICATION HBSpec
CONSTANTS
    Thread = {t1, t2}
    Handle = {h1, h2, h3}
    Block = {b1, b2}
    Unpromoted = Unpromoted
    None = None
INVARIANT IncrementSeesBlock
CHECK_DEADLOCK FALSE
