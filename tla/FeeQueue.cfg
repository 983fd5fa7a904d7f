SPECIFICATION FairSpec
CONSTANTS
    Request <- MCRequest
    Accounts = {"a", "b"}
    MaxQueue = 2
    DropSize = 0
    Batch = 2
    MaxChannel = 2
    MaxTxs = 4
    MaxCycles = 3
    MinCycles = 1
    CreateCost = 2
    MaxNonce = 2
    MaxFaults = 1
INVARIANT HandlesMatchMap
INVARIANT BatchInNonceOrder
INVARIANT BatchInFeeOrder
INVARIANT QueueBounded
PROPERTY EventuallySettled
CHECK_DEADLOCK FALSE
