CONSTANTS
    r1 = r1
    r2 = r2
    phone = phone
    tablet = tablet
    Rooms = {r1, r2}
    Devices = {phone, tablet}
    MaxAppears = 2
    MaxCalls = 3
    MaxFaults = 2
SPECIFICATION AffordableSpec
SYMMETRY Alike
INVARIANT RoomsAreReady
INVARIANT ListAgrees
CHECK_DEADLOCK FALSE
