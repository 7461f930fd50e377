SPECIFICATION FairSpec
CONSTANTS
  a = a
  b = b
  SetBool = SetBool
  Trigger = Trigger
  Names <- MCNames
  Types <- MCTypes
  TypeOf <- DifferentTypes
  MaxCalls = 3
  MaxSessions = 2
INVARIANTS
  NoAnswerTwice
  MismatchNeedsTimeout
  NothingPending
PROPERTY
  WaitsEnd
