SPECIFICATION PathSpec
CONSTANTS
  Modulus = 6
  Capacity = 2
  Unit = 2
  Steps <- MCSteps
  MaxBlock = 3
  MaxWritten = 7
  Target = 2
  Stride = 2
  MaxTransfer = 3
  QueueCapacity = 2
  Laps = 2
  Window = 2
  Lengths = {2, 3, 4}
  Reports = {41, 45}
  Prefix <- MCPrefix
  Filler = "fd"
  ReplyBytes <- MCReplyBytes
  PacketBytes = 5
  Bytes <- MCBytes
  PayloadBytes = 3
  MaxReports = 2
  MaxDatagrams = 1
  ReportBytes = 5
  PacketKinds <- MCPacketKinds
  SysexBytes = 7
  Attempts = 2
  MaxWire = 2
  MaxMessages = 4
  RingFrames = 3
  Blocks = {1, 2}
  PacketFrames = {1, 2}
  SourceSteps = {1, 3}
  StepUnit = 2
  Prefill = 2
  LastPosition = 5
  CaptureCapacity = 3
  CaptureBlocks = {1, 2}
  ReadSizes = {1, 2}
  LastCapture = 9
  ClockWindow = 2
  ClockCapacity = 3
  ClockReports = {41, 42, 46}
INVARIANTS
  UsedIsExact CopiesDisjoint FramesIntact SilenceOnlyWhenDry
  PatternsAreExact
  OutputIsTheMessages FoundExactly OutboundWhole
  TransportReadsWhole CaptureInOrder ClockFollowsReports
PROPERTIES ImplementsFifo FramesFollowFeedback
