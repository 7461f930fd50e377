\* One topic.  Two units per transfer let bytes stay behind in the read buffer
\* when a session ends.
SPECIFICATION FairSpec
CONSTANTS
  Topics = {t1}
  RetryThreshold = 2
  MaxUnits = 2
  MaxReady = 4
INVARIANTS
  SessionInv
  NeverDeaf
PROPERTIES
  Reconnects
  ShutdownEndsThread
