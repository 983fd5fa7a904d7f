SPECIFICATION FairSpec
CONSTANTS
  Version = 1
  MaxBlocks = 4
  MaxReverted = 2
  MaxDisturbances = 2
CHECK_DEADLOCK FALSE
INVARIANTS
  FollowsL1
PROPERTIES
  ActsOnWrongBlocks
  WrongBlockChallenged
  RightChainFreed
