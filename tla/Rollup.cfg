SPECIFICATION Spec
CONSTANTS
  p1 = p1
  p2 = p2
  Producers = {p1, p2}
  Versions = {2}
  FinalityBlocks = 1
  FinalityTime = 1
  Maturity = 1
  MaxReverted = 3
  Deposited = 2
  MaxBlocks = 4
  MaxTime = 6
  NoStake = NoStake
  NoChallenge = NoChallenge
SYMMETRY Symmetry
CHECK_DEADLOCK FALSE
INVARIANTS
  TypeOK
  Backed
PROPERTIES
  FinalNotTaken
  StakeOutlastsBlocks
  FollowsRollupChain
