SPECIFICATION Spec
CONSTANTS
    Request <- MCRequestEqual
    Accounts = {"a", "b"}
    MaxQueue = 3
    DropSize = 0
    Batch = 2
    MaxChannel = 2
    MaxTxs = 4
    MaxCycles = 3
    MinCycles = 1
    CreateCost = 2
    MaxNonce = 2
    MaxFaults = 0
INVARIANT MapHoldsQueue
CHECK_DEADLOCK FALSE
