CONSTANTS
  TotalSlots = 3
  PoolBlocks = 3
  NoBlock = NoBlock
  ProducerThread = producer
  PoolUsers = {producer}
  MaxRequests = 6
  DeviceBlocks = 2
SPECIFICATION Spec
INVARIANTS
  DeliversLiveBlock
CHECK_DEADLOCK FALSE
