CONSTANTS
    r1 = r1
    r2 = r2
    Rooms = {r1, r2}
    LatBound = 5
    LonBound = 8
    LatStep = 1
    LonStep = 2
    Places <- AroundTheWorld
    NoFix = NoFix
    NoPlace = NoPlace
    MaxMoves = 2
    MaxAppears = 3
    MaxFaults = 1
SPECIFICATION Spec
INVARIANT MissesNoneNearby
INVARIANT RowsAreOfLastQuery
CHECK_DEADLOCK FALSE
