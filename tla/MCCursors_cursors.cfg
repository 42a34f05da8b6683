SPECIFICATION Spec
CONSTANTS
    Byte = {1, 2, 3, 4, 5, 6}
    Uninit = 0
    Depth = 3
    TakeSlices = 2
    Growth = 2
    IsizeMax = 4
    IntSize = 2
    Slots = 4
    Sources <- MCSources
    Inputs <- MCInputs
    Destinations <- MCDestinations
INVARIANTS
    ChunkKeepsContract
    VectoredKeepsContract
    MovedOnceInOrder
PROPERTIES
    ImplementsStream
    CopyEnds
    TransferEnds
CHECK_DEADLOCK FALSE
