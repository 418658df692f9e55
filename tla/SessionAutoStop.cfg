CONSTANTS
  FileBlocks = 2
  QueueCapacity = 2
  MaxSessions = 1
SPECIFICATION Spec
PROPERTIES
  AutoStops
CHECK_DEADLOCK FALSE
