CONSTANTS
    alice = alice
    bob = bob
    Users = {alice, bob}
    MaxPending = 2
    MaxWrites = 4
    MaxSwitches = 2
    MaxFaults = 2
    MaxRejects = 1
SPECIFICATION AffordableSpec
INVARIANT TypeOK
INVARIANT PipelineIsPrefix
INVARIANT StreamCarriesPipeline
INVARIANT BatchIdsUnique
INVARIANT RightAccount
PROPERTY LeavesOnlySettled
PROPERTY ImplementsDelivery
PROPERTY LastAccountDrains
CHECK_DEADLOCK FALSE
