CONSTANTS
  Blocks <- MCBlocks
  Msec = 10
  HalfBits = 3
  RootBits = 2
  HeadSwitch = 4
  WriteDelta = 2
  Dists <- MCDists
SPECIFICATION SeekSpec
INVARIANTS FieldsDecide SeeksGrow
CHECK_DEADLOCK FALSE
