SPECIFICATION FairSpec
CONSTANTS
    Byte = {1, 2, 3, 4}
    Uninit = 0
    Depth = 2
    TakeSlices = 2
    Growth = 1
    IsizeMax = 10
    Capacity = 3
    IoSlices = 2
    Sources <- MCSources
    Writers = {"socket", "vec", "slice"}
INVARIANTS
    SentOnceInOrder
    ParkedHasWaker
PROPERTIES
    AnswersAreTrue
    CallsReturn
