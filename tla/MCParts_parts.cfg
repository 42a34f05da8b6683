SPECIFICATION PartsSpec
CONSTANTS
    UMax = 255
    IMax = 127
    UMaxCh = 3
    IMaxCh = 4
    MaxText = 4
    Adder = {a1, a2, a3}
    IsizeMax = 3
    MaxAlloc = 4
    Leaf = {1, 2, 3}
    Closure = {"f", "g", "h"}
    FutureDepth = 4
    Programs <- MCPrograms
    Handle = {h1, h2}
    Ascii = Ascii
    Lead2 = Lead2
    Lead3 = Lead3
    Cont = Cont
    Byte = {Ascii, Lead2, Lead3, Cont}
    MaxLen = 3
    None = None
INVARIANTS
    NumberIsExact
    LimitInv
    ReserveIsHonest AllocationIsExact
    AnsweredAsBuilt PolledWithinContract
    StrsAreUtf8
PROPERTIES
    PartCompletes
CHECK_DEADLOCK FALSE
