SPECIFICATION FairSpec
CONSTANTS
  p1 = p1
  p2 = p2
  Producers = {p1}
  Versions = {2}
  FinalityBlocks = 1
  FinalityTime = 4
  Maturity = 1
  MaxReverted = 3
  Deposited = 0
  MaxBlocks = 4
  MaxTime = 6
  NoStake = NoStake
  NoChallenge = NoChallenge
CHECK_DEADLOCK FALSE
PROPERTIES
  ChallengeEnds
