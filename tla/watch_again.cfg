CONSTANTS
    room = room
    Targets = {room}
    Absent = Absent
    Nothing = Nothing
    MaxListens = 3
    MaxCommits = 2
    MaxInFlight = 3
    MaxBreaks = 1
    MaxResets = 1
    MaxRejections = 1
SPECIFICATION AffordableSpec
INVARIANT TypeOK
INVARIANT CountsUnlessRejected
INVARIANT NothingStrays
INVARIANT CacheIsTruthful
INVARIANT SyncedIsFresh
PROPERTY EventuallySynced
CHECK_DEADLOCK FALSE
