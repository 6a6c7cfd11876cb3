SPECIFICATION Spec
CONSTANTS
  QueueSize = 2
  MaxSessions = 2
  None = None
INVARIANT StopEndsOnlineAudio
CHECK_DEADLOCK FALSE
