SPECIFICATION DesktopSpec
CONSTANTS
  Texts <- MCTexts
  Value <- MCValue
  Pad <- MCPad
  None = None
  MaxForeign = 1
  Width = 3
  Full = 6
  Steps <- MCSteps
  Percents <- MCPercents
  Windows = {d, e}
  Nodes = {n1, n2, n3}
  Nobody = Nobody
  MaxChanges = 2
  Filters = {0, 1}
  Channels = 3
INVARIANTS EditIsExact RollbackRestores EditsKeepTyping MarkIsExact MarkRollbackRestores UnchangedHadNothing ControlIsExact ControlRollbackRestores DecisionIsExact FilterIsWhole
CHECK_DEADLOCK FALSE
