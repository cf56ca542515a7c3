SPECIFICATION LifeSpec
INVARIANTS
    UndoneOnce
    UsersGoFirst
    NothingLeft
PROPERTIES
    BegunEnds
CHECK_DEADLOCK FALSE
