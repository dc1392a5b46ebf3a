CONSTANTS
    alice = alice
    bob = bob
    phone = phone
    tablet = tablet
    r1 = r1
    r2 = r2
    Users = {alice, bob}
    Devices = {phone, tablet}
    DeviceUser <- OnePhoneEach
    Rooms = {r1}
    Public = {r1}
    Invited <- NobodyKnows
    Nobody = Nobody
    NoRoom = NoRoom
    MaxOps = 1
    MaxFaults = 1
    MaxRefusals = 0
SPECIFICATION Spec
PROPERTY NeverLoadsHalfCreated
CHECK_DEADLOCK FALSE
