SPECIFICATION FairSpec
CONSTANT MaxEventClients = 2
INVARIANTS AtRest
PROPERTIES CallsReturn
