CONSTANTS
  TotalSlots = 3
  MaxRequests = 7
  NoBlock = NoBlock
SPECIFICATION Spec
INVARIANTS
  IInv
  SlotExclusive
PROPERTIES
  ImplementsOrderedDelivery
  StallsStay
  DeliveryProgress
