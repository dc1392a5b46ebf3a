CONSTANTS
    alice = alice
    bob = bob
    phone = phone
    tablet = tablet
    r1 = r1
    r2 = r2
    Users = {alice, bob}
    Devices = {phone, tablet}
    DeviceUser <- OnePhoneEach
    Rooms = {r1}
    Public = {r1}
    Invited <- NobodyKnows
    Nobody = Nobody
    NoRoom = NoRoom
    MaxOps = 3
    MaxFaults = 1
    MaxRefusals = 0
SPECIFICATION Spec
SYMMETRY SwapAccounts
INVARIANT Converged
INVARIANT MembershipAgrees
INVARIANT NoDanglingSession
INVARIANT IdFollows
CHECK_DEADLOCK FALSE
