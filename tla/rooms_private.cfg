CONSTANTS
    alice = alice
    bob = bob
    phone = phone
    tablet = tablet
    r1 = r1
    r2 = r2
    Users = {alice, bob}
    Devices = {phone, tablet}
    DeviceUser <- OnePhoneEach
    Rooms = {r1}
    Public = {}
    Invited <- BobKnows
    Nobody = Nobody
    NoRoom = NoRoom
    MaxOps = 4
    MaxFaults = 1
    MaxRefusals = 1
SPECIFICATION FairSpec
CONSTRAINT Affordable
INVARIANT PrivateByConsent
PROPERTY EventuallyAgrees
CHECK_DEADLOCK FALSE
