CONSTANTS
  TotalSlots = 3
  PoolBlocks = 3
  NoBlock = NoBlock
  Workers = {w1, w2}
  PoolUsers = {w1, w2}
  SoftLimit = 2
  MaxRequests = 4
  DeviceBlocks = 1
SPECIFICATION Spec
INVARIANTS
  TypeOK
  BlocksConserved
  PendingCounts
  EndIsComplete
CHECK_DEADLOCK FALSE
PROPERTIES
  ImplementsOrderedRead
  BufferComes
  EndIsDelivered
