CONSTANTS
  DescCapacity = 2
  CopyCapacity = 2
  PoolBlocks = 4
  MaxBlocks = 2
SPECIFICATION ChannelSpec
INVARIANTS
  NeverTerminates
CHECK_DEADLOCK FALSE
