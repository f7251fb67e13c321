CONSTANTS
  Circle = 24
  IntRange = 64
  Files <- MCFiles
  Lbns = {0, 1, 2, 3, 4, 5, 6, 7, 8, 11, 12, 15, 17, 18}
SPECIFICATION G2Spec
INVARIANTS ExtentsAsMeant  BoundsAsMeant
CHECK_DEADLOCK FALSE
