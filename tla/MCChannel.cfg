CONSTANTS
  DescCapacity = 2
  CopyCapacity = 2
  PoolBlocks = 4
  MaxBlocks = 6
  Items = {d1, d2}
  Capacity = 3
  Laps = 3
  Bytes = {b0, b1}
  Rounds = 2
  Size = 3
  MaxLength = 3
  Width = 8
  Megabyte = 2
SPECIFICATION PartsSpec
INVARIANTS
  ChannelTypeOK
  BlocksConserved
  PathsInOrder
  StoppedIsClean
  NoSharedSlot
  NoSharedByte
  SizedAsAsked
PROPERTIES
  AcceptedIsWritten
  WindowsDelivers
  ImplementsFifo
  ImplementsByteFifo
CHECK_DEADLOCK FALSE
