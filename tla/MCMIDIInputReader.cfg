SPECIFICATION FairSpec
CONSTANTS
  SlotCount = 2
  SequenceModulus = 3
  PayloadBytes = 1
  Script <- TwoProgramChanges
INVARIANTS MessagesInOrder EventClientsExact
PROPERTIES ErrorsAreRecovered
CHECK_DEADLOCK FALSE
