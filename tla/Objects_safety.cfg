CONSTANTS
    c1 = c1
    c2 = c2
    Clients <- MCClients
    Block = 2
    MaxSlots = 4
    MaxWindows = 4
    MaxRegs = 4
    Elements = 3
    Length = 3
    MaxAsked = 5
    Word = 64
    MaxTurns = 12
SPECIFICATION Spec
INVARIANTS
    HandlesAreOwn
    DataIsWhole
    LoopIsShort
CHECK_DEADLOCK FALSE
SYMMETRY MCSymmetry
