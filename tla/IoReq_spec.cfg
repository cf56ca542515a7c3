SPECIFICATION Spec
CONSTANTS
    v1 = v1
    v2 = v2
    buf = buf
    Buf = buf
    Vcpus <- MCVcpus
    Slots = 3
    MaxSends = 2
INVARIANTS
    Accounted
    NothingForgotten
    InOrder
PROPERTY ImplementsAccesses
CHECK_DEADLOCK FALSE
