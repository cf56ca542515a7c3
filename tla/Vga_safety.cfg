SPECIFICATION Spec
CONSTANTS
    None = None
    Programs <- MCPrograms
    MaxStores = 2
    VramAddr = 1
INVARIANTS
    SavedIsCurrent
    ReadBack
    VirtualFits
PROPERTY ColoursAreWhole
CHECK_DEADLOCK FALSE
