CONSTANTS
    Buckets = 1
    Ways = 2
    Pages <- MCPages
    GuestPages <- MCGuestPages
    MaxFrame = 1
    MaxEpoch = 6
    Reqs <- MCReqs
    PageSize = 8
    SizeMod = 32
SPECIFICATION Spec
INVARIANTS
    MappingsAreCurrent
    FoundUnlessDropped
    EveryByteOnce
    WrittenIsMarked
CHECK_DEADLOCK FALSE
