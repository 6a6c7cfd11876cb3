SPECIFICATION Spec
CONSTANTS
  LineBreaks = TRUE
  MaxAppends = 2
  MaxFaults = 0
INVARIANT VerifiesOwnLog
CHECK_DEADLOCK FALSE
