SPECIFICATION CodecsSpec
CONSTANTS
  Base = 4
  LengthBytes = 2
  Samples <- MCSamples
  DeviceSamples <- MCDeviceSamples
  MaxReceived = 3
  MaxGrowths = 3
  NsPerMs = 2
  MsPerSec = 3
  Wrap = 26
  MaxSec = 3
  Scales <- MCScales
  DayMs = 12
  Boots = {0, 21}
  MaxTime = 8
  MaxAsked = 2
  FloatExp = 3
  FloatMan = 2
  DoubleExp = 5
  DoubleMan = 6
  Nodes <- MCNodes
  Traffic <- MCTraffic
  Reports <- MCReports
  Chunks <- MCChunks
  PortRoom = 4
  Noise = {0, 125, 126, 129}
  MaxFrames = 3
  MaxSent = 3
  MaxDamaged = 1
  Words = {"p", "t"}
  MaxTokens = 6
  Descriptions <- MCDescriptions
  ConverterTypes <- MCConverterTypes
INVARIANTS
  SerializationFaithful
  ClockWithinDelay
  TimeExact
  FloatsKeepValue
  XbeeStreamsKept
CHECK_DEADLOCK FALSE
