CONSTANTS
  TotalSlots = 3
  NoBlock = NoBlock
  PoolBlocks = 3
  ProducerThread = producer
  PoolUsers = {producer}
  DeviceBlocks = 3
  MaxRequests = 5
  IoRequestNum = 2
SPECIFICATION Spec
INVARIANTS
  FallbackHasMemory
CHECK_DEADLOCK FALSE
