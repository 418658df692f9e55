CONSTANTS
  TotalSlots = 3
  NoBlock = NoBlock
  SlotCount = 2
  Payloads = {p, q}
  MaxItems = 4
SPECIFICATION Spec
PROPERTIES
  TakenIsConsumed
CHECK_DEADLOCK FALSE
