\* Three threads, three handles, two blocks, no symmetry: every safety and liveness property.
SPECIFICATION Spec
CONSTANTS
    Thread = {t1, t2, t3}
    Handle = {h1, h2, h3}
    Block = {b1, b2}
    Unpromoted = Unpromoted
    None = None
INVARIANTS HeldBufferIsLive CountIsExact OneCounter DisposedByOne ReclaimIsExclusive IndInv
PROPERTIES PromotedOnce ImplementsOwnership CallsReturn NeverForgotten
\* The program stops when every handle has been dropped.
CHECK_DEADLOCK FALSE
