SPECIFICATION Spec
CONSTANTS
  Circle = 48
  Period = 120
  TimeGrain = 2
  AngleGrain = 1
  SeekFn <- McSeek
  HeadSwitch = 9
  WriteDelta = 4
  DualProfile = FALSE
  Disks <- McDisks
  Lines <- McLines
  MaxLines = 2
  Firsts = {0, 9, 99}
  Offset = 32
  Uninit = {0, 70}
  IdleCfg <- McIdle
INVARIANTS SectorsArrive RefusesAsMeant TimesTile
CHECK_DEADLOCK FALSE
