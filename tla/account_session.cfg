CONSTANTS
    alice = alice
    bob = bob
    carol = carol
    phone = phone
    n1 = n1
    n2 = n2
    Devices = {phone}
    Accounts = {alice, bob}
    Names = {n1, n2}
    Registered <- AliceRegistered
    Nobody = Nobody
    NoName = NoName
    Unheard = Unheard
    MaxPresses = 2
    MaxInstances = 2
    MaxListeners = 2
    MaxFaults = 2
    MaxEvents = 3
SPECIFICATION AffordableSpec
INVARIANT TypeOK
INVARIANT EverybodyTold
INVARIANT ScreenFollows
PROPERTY EventuallyIn
CHECK_DEADLOCK FALSE
