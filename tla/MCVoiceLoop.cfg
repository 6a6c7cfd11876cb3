SPECIFICATION Spec
CONSTANTS
  ActiveSeconds = 5
  CorrectionTtl = 6
  Grace = 1
  None = None
  MaxTime = 15
INVARIANTS UnaddressedNeverActs StopIsHeeded SlotIsGated SlotStaysReachable
CHECK_DEADLOCK FALSE
