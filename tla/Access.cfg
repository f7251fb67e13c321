SPECIFICATION Spec
CONSTANTS
  Circle = 48
  Period = 120
  TimeGrain = 2
  AngleGrain = 1
  SeekFn <- McSeek
  HeadSwitch = 9
  WriteDelta = 4
  DualProfile = FALSE
  Disks <- McDisks
  States <- McStates
  MaxLen = 6
INVARIANTS CoversTheRun TimeAddsUp LatencyServes
PROPERTIES TurnsForward
