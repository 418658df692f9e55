CONSTANTS
  TotalSlots = 3
  PoolBlocks = 3
  NoBlock = NoBlock
  Workers = {w1, w2}
  PoolUsers = {w1, w2}
  SoftLimit = 2
  MaxRequests = 2
  DeviceBlocks = 1
SPECIFICATION FairSpec
PROPERTIES
  StopCompletes
CHECK_DEADLOCK FALSE
