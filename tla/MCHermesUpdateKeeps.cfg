SPECIFICATION Spec
CONSTANTS
  Releases = {r1, r2}
  Bundled = Bundled
  None = None
  MaxRuns = 4
INVARIANT FailureKeepsLauncher
CHECK_DEADLOCK FALSE
