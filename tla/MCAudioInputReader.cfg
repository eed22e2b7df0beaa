SPECIFICATION FairSpec
CONSTANTS
  SlotCount = 2
  SequenceModulus = 3
  MaxEventClients = 2
  Statuses <- OkStalledOrGone
INVARIANTS ResourcesOutliveReads
PROPERTIES BlocksInOrder UnwantedInputStops
