SPECIFICATION Spec
CONSTANTS
    Byte = {1, 2, 3, 4}
    Uninit = 0
    Depth = 4
    TakeSlices = 2
    Growth = 1
    IsizeMax = 10
    Capacity = 4
    IoSlices = 4
    Sources <- MCWideSources
    Writers = {"socket"}
INVARIANTS
    SentOnceInOrder
