CONSTANTS
  TotalSlots = 3
  PoolBlocks = 3
  NoBlock = NoBlock
  ProducerThread = producer
  PoolUsers = {producer}
  MaxRequests = 6
  DeviceBlocks = 2
SPECIFICATION Spec
INVARIANTS
  TypeOK
  BlocksConserved
  OwnBufferUsedOnce
CHECK_DEADLOCK FALSE
PROPERTIES
  ImplementsOrderedRead
  StopCompletes
