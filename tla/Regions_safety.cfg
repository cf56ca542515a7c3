SPECIFICATION Spec
CONSTANTS
    small = small
    large = large
    port = port
    NoBase = none
    none = none
    Regions <- MCRegions
    Kind <- MCKind
    Length <- MCLength
    Bases <- MCBases
    PortTop = 2
    Top = 3
    Builtin <- MCBuiltin
CHECK_DEADLOCK FALSE
INVARIANTS
    EverySpaceIsMapped
    EveryRouteHasSpace
    RequestReachesOwner
    RegionHasItsSpace
