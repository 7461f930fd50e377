SPECIFICATION FairSpec
CONSTANTS
  Programs <- MCPrograms
  Params <- MCParams
  Shape <- MCShape
  Callers <- MCCallers
  p1 = p1
  p2 = p2
  p3 = p3
  c1 = c1
  c2 = c2
  Asked <- MCAsked
  MaxEvents = 2
  MaxLosses = 1
  MaxUp = 2
  MaxFaults = 1
  MaxRestarts = 1
  MaxQueue = 2
  MaxDown = 1
INVARIANTS MixupNeedsOverlap ParamMismatchNeedsTimeout StrayAnswerNeedsBreak
PROPERTIES PublisherRecovers WriterDeathNoticed
CHECK_DEADLOCK FALSE
