SPECIFICATION MCSpec
CONSTANTS
  Releases = {r1, r2}
  Bundled = Bundled
  None = None
  MaxRuns = 4
  Disks <- MCDisks
  NoDisk = NoDisk
  MaxAttempts = 2
  Cloud = {nous, zai}
  NoCloud = {offline}
  Offline = offline
  MaxSaves = 2
INVARIANTS AnnouncedIsInstalled ReadyReleasesSurvive
INVARIANTS LuksKeyIsApproved EraseIsApproved RefusalLeavesNoKey ConsentIsCurrent FinalizedIsWhole
PROPERTIES SwitchesToExecutable
CHECK_DEADLOCK FALSE
