CONSTANTS
    alice = alice
    bob = bob
    Users = {alice, bob}
    me = alice
    creator = alice
    NameOf <- OneName
    MaxAppears = 2
    MaxPresses = 3
    MaxChecks = 2
    MaxChanges = 1
SPECIFICATION Spec
INVARIANT LeaveFindsUser
CHECK_DEADLOCK FALSE
