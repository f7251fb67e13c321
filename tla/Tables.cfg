CONSTANTS
  Lines <- MCLines
  MaxLines = 3
  Counts = {0, 1, 2}
  BufLen = 2
  Places = {0, 1, 2, 3, 6}
SPECIFICATION Spec
INVARIANTS StoresAsRead AnswersFromCurve
CHECK_DEADLOCK FALSE
