SPECIFICATION PartSpec
CONSTANTS
  Devices = {d1, d2}
  NoDevice = d0
  MaxAttempts = 2
  ReadCount = 4
  SlotCount = 3
  MaxEntry = 3
  MaxDevice = 2
INVARIANTS AllOrNothing ReturnsClean ResourcesOutliveTransfers
PROPERTIES StartHardwareEnds KeepsContract ShutdownEnds HaltedWorkerIsReplaced KeepaliveFollowsController
