SPECIFICATION Spec
CONSTANTS
  Deposits = {d1}
  MaxBlocks = 3
  LocalLimit = 2
  SubmittedLimit = 2
  NoTx = NoTx
  Faults = {"kill"}
  MaxFaults = 1
  LateAbort = FALSE
CHECK_DEADLOCK FALSE
INVARIANTS
  NoSelfRevert
