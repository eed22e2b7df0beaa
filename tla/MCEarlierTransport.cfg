SPECIFICATION FairSpec
CONSTANTS
    Processes = {1}
    Helpers = {1}
    Handles = {"h1"}
    Owner <- MCOwner
    Ids = {1, 2, 3}
    Sessions = {1, 2}
    Buffers = {1, 2}
    DefaultBuffer = 1
    MaxClients = 2
    QueueLimit = 1
    OutSlots = {"out1", "out2"}
    FeedbackSlots = {"feedback1"}
    WaveformSlots = {"bulk1"}
    ErrorLimit = 2
INVARIANTS
    TransfersKeptQueued
PROPERTIES
    StreamResumes
    PauseFollowsClients
