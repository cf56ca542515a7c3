CONSTANTS
    Lines = 2
    Pages <- MCPages
    Starts <- MCStarts
    Geometries <- MCGeometries
    TextSize = "text"
    Refreshes = 2
    MaxWrites = 1
    MaxAsks = 3
    MaxMoves = 1
    MaxTurns = 2
SPECIFICATION Spec
CONSTRAINT MCBounds
INVARIANTS
    
    OnlyDirectSpoils
    AssertsOnlyAfterEmpty
CHECK_DEADLOCK FALSE
