CONSTANTS
    alice = alice
    bob = bob
    Users = {alice, bob}
    me = alice
    creator = alice
    NameOf <- OwnNames
    MaxAppears = 2
    MaxPresses = 3
    MaxChecks = 2
    MaxChanges = 1
SPECIFICATION Spec
INVARIANT TypeOK
INVARIANT ListsAgree
CHECK_DEADLOCK FALSE
