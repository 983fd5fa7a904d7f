SPECIFICATION Spec
CONSTANTS
  Deposits = {d1}
  MaxBlocks = 3
  LocalLimit = 2
  SubmittedLimit = 1
  NoTx = NoTx
  Faults <- AllFaults
  MaxFaults = 3
  LateAbort = TRUE
CHECK_DEADLOCK FALSE
INVARIANTS
  PointersOrdered
  CountersAgree
  TasksTargetNext
