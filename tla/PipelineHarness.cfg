SPECIFICATION PipelineSpec
CHECK_DEADLOCK FALSE
CONSTANTS
  Ports = {"instruction", "data"}
  Latency = 2
  Data = {}
  Codes = {}
  None = None
  ByteBits = 4
  WordBytes = 4
  OffsetBits = 3
  IndexBits = 1
  TopBits = 3
  UintBits = 7
  Host <- TheHost
  PutChar = 272
  Scenes <- SomeScenes
INVARIANTS
  OnTime
  OnlyWalkerWritesReserved
  FenceAnswered
PROPERTIES
  TranslationMeetsSpec
  AccessMeetsSpec
  FaultLeavesMemory
