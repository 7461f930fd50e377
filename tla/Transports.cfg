SPECIFICATION Spec
CONSTANTS
  RingSize = 4
  MaxBytes = 9
  MaxWrite = 5
  FifoSize = 2
  KernelSize = 3
INVARIANT StreamsIntact
PROPERTY StreamsDrain
CHECK_DEADLOCK FALSE
