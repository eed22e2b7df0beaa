SPECIFICATION FairSpec
CONSTANTS
  SlotCount = 2
  SequenceModulus = 3
  MaxEventClients = 3
  Statuses <- PresentStatuses
PROPERTY WantedInputIsServed
