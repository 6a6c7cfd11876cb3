SPECIFICATION Spec
CONSTANTS
  LineBreaks = TRUE
  MaxAppends = 5
  MaxFaults = 3
INVARIANTS VerifiedIsComplete GoodPrefix CleanLogSurvives
CHECK_DEADLOCK FALSE
