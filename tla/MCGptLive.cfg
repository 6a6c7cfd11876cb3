SPECIFICATION FairSpec
CONSTANTS
  QueueSize = 2
  MaxSessions = 2
  None = None
INVARIANTS AtMostOneBlockAfterStop SilentWhenOver QuietEndIsRequested
PROPERTIES LocalStopIsHeeded LossIsNoticed
CHECK_DEADLOCK FALSE
