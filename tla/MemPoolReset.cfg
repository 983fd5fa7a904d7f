SPECIFICATION Spec
CONSTANTS
    a1 = a1
    a2 = a2
    Accounts = {a1, a2}
    MaxNonce = 1
    MaxTxs = 2
    MaxWithdrawals = 1
    ReorgDepth = 1
    Unstable = {}
    MaxBlocks = 2
    MaxPending = 1
    Faults = {"foreign", "revert", "kill", "stop"}
    MaxFaults = 2
CHECK_DEADLOCK FALSE
SYMMETRY AccountSymmetry
INVARIANT MemBlockExecutes
INVARIANT MemBlockStored
INVARIANT InputsStayOrdered
PROPERTY ResetKeepsTxs
PROPERTY RestartKeepsMemBlock
