SPECIFICATION Spec
CONSTANTS
  Texts <- MCTexts
  Value <- MCValue
  Pad <- MCPad
  None = None
  MaxForeign = 1
INVARIANT ReplacesExactly
CHECK_DEADLOCK FALSE
