SPECIFICATION FairSpec
CONSTANTS
  Block <- MCBlock
  BufferCapacity = 1
  ChannelCapacity = 3
  SkipLength = 2
  MaxBlocks = 3
  MaxEvents = 2
CHECK_DEADLOCK FALSE
INVARIANTS
  ClientConfirmedOnL1
  CaughtUpHasChain
  MemBlockOnParent
  ConfirmedHasHash
PROPERTIES
  EventuallyFollows
