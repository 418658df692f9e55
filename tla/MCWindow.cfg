CONSTANTS
  TotalSlots = 3
  NoBlock = NoBlock
  PoolBlocks = 3
  ProducerThread = producer
  PoolUsers = {producer}
  DeviceBlocks = 3
  MaxRequests = 6
  IoRequestNum = 2
  SlotCount = 2
  Payloads = {p, q}
  MaxItems = 5
  FileBlocks = 3
  QueueCapacity = 2
  MaxSessions = 2
SPECIFICATION PartsSpec
INVARIANTS
  PartsTypeOK
  BlocksConserved
  KeepsMemoryWhileReading
  SessionsApart
PROPERTIES
  ImplementsOrderedDelivery
  EndsOnlyAtFullRing
  StopCompletes
  ShmImplementsFifo
  IocpImplementsOrderedRead
  IocpStopCompletes
  AutoStopIsLate
  ButtonComesBack
CHECK_DEADLOCK FALSE
