CONSTANTS
    g1 = g1
    g2 = g2
    g3 = g3
    room = room
    user = user
    Keys = {room, user}
    Reads = {g1, g2, g3}
    KeyOf <- SameTwice
    MaxVersion = 1
    MaxBreaks = 1
    MaxRestarts = 1
    MaxRejections = 1
SPECIFICATION AffordableSpec
INVARIANT TypeOK
INVARIANT AnsweredOnce
INVARIANT NoTargetLeaks
INVARIANT AssertionsHold
PROPERTY FreshUnlessShared
PROPERTY EventuallyAnswered
CHECK_DEADLOCK FALSE
