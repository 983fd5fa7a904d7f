SPECIFICATION Spec
CONSTANTS
  Deposits = {d1}
  MaxBlocks = 4
  LocalLimit = 2
  SubmittedLimit = 2
  NoTx = NoTx
  Faults <- SafetyFaults
  MaxFaults = 3
  LateAbort = FALSE
CHECK_DEADLOCK FALSE
INVARIANTS
  TypeOK
  MemPoolOnTip
  SubTxMatches
  ConfirmedOnL1
  NoDoubleDeposit
PROPERTIES
  SyncAdoptsL1
  LedgerSpec
