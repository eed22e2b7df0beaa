SPECIFICATION PartSpec
CONSTANTS
  c1 = c1
  c2 = c2
  Ids = {c1, c2}
  MaxClients = 2
  Capacity = 2
  MaxStarts = 2
  MaxGeneration = 2
  Clients = {c1, c2}
  NoProcess = {c2}
  TableSize = 2
  MaxClientStarts = 1
INVARIANTS HardwareFollowsClients HostKnowsRunning PropertiesAgree
PROPERTIES SessionKeptForActive ControllerIsReopened
