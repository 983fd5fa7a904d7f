SPECIFICATION FairSpec
CONSTANTS
  Deposits = {d1}
  MaxBlocks = 4
  LocalLimit = 2
  SubmittedLimit = 2
  NoTx = NoTx
  Faults = {"kill", "stop", "drop", "rpc", "oversize", "cancel"}
  MaxFaults = 3
  LateAbort = FALSE
CHECK_DEADLOCK FALSE
PROPERTIES
  EventuallyAllConfirmed
