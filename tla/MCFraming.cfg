SPECIFICATION FramingSpec
CONSTANTS
  Messages <- AllShort
  MAX_SUBSCRIBERS = 25
  INPUT_SIZE = 4
  OUTPUT_SIZE = 12
  buffer_max = 8
  MaxFrames = 3
  MaxDamage = 1
INVARIANTS
  RoundTrip
  NothingForged
  PauseResyncs
  LossBounded
