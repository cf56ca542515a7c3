CONSTANTS
    Bases <- MCBases
    Length = 2
    DevicePages = 2
    Requests <- MCRequests
    Absent <- MCAbsent
    Limit = 2
    MaxUsers = 2
    MaxRanges = 2
    MaxStuck = 3
    MaxTop = 4
    MaxLeaked = 1
SPECIFICATION MapsSpec
INVARIANTS
    GrantsAreMapped
    NothingKept
CHECK_DEADLOCK FALSE
