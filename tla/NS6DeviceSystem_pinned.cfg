SPECIFICATION Spec
CONSTANTS
    p1 = p1
    p2 = p2
    h1 = h1
    h2 = h2
    Processes = {p1, p2, 3}
    Helpers = {p1, p2}
    Plugin = 3
    Handles = {h1, h2, "dev", "new", "old"}
    Owner <- MCOwner
    Clients = {1}
    MaxRunning = 2
    Ids = {1, 2, 3, 4}
    Sessions = {1, 2}
    Buffers = {1, 2}
    DefaultBuffer = 1
    MaxClients = 2
    QueueLimit = 1
INVARIANT
    MemoryInUseStaysMapped
