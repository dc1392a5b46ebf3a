CONSTANTS
    alice = alice
    bob = bob
    carol = carol
    phone = phone
    n1 = n1
    n2 = n2
    Devices = {phone}
    Accounts = {alice, bob, carol}
    Names = {n1, n2}
    Registered <- AliceRegistered
    Nobody = Nobody
    NoName = NoName
    Unheard = Unheard
    MaxPresses = 4
    MaxInstances = 1
    MaxListeners = 0
    MaxFaults = 2
    MaxEvents = 6
SPECIFICATION AffordableSpec
INVARIANT ProfileIsOwn
INVARIANT UniqueUnlessRaced
CHECK_DEADLOCK FALSE
